--------------------------- MODULE BackupAuditProofs ---------------------------
(***************************************************************************)
(* Theorems of BackupAudit, for backups of any length with any sections,   *)
(* names, keys and values.  The parser is a fold over the lines, what they *)
(* say is counted from all of them; both are followed line by line, with   *)
(* an invariant that says where each section is at the end of the lines    *)
(* (Sits), what the parser takes it to be (InStep) and that what it has    *)
(* read is right (FirstRead, FlatRead).                                    *)
(***************************************************************************)
EXTENDS BackupAudit, FoldLemmas

\* The lines that the device writes, and what the parser may know.
Lines ==
  [kind : {"config"}, key : Sections, value : {Null}]
    \cup [kind : {"edit"}, key : Names, value : {Null}]
    \cup [kind : {"set"}, key : Keys, value : Values]
    \cup [kind : {"next", "end"}, key : {Null}, value : {Null}]

States ==
  [inside : BOOLEAN, over : BOOLEAN, data : Data, item : Entry \cup {Null}, items : Seq(Entry)]

\* What the parser knows of a section at the end of the lines.
FlatState(s, lines) == FoldLeft(LAMBDA st, line : FlatLine(s, st, line), Start, lines)
TableState(s, lines) == FoldLeft(LAMBDA st, line : TableLine(s, st, line), Start, lines)

\* A line is of one of these forms.
LEMMA LineForms ==
  ASSUME NEW line \in Lines
  PROVE  /\ line.kind \in {"config", "edit", "set", "next", "end"}
         /\ line.kind = "config" => line.key \in Sections /\ line = Config(line.key)
         /\ line.kind = "edit" => line.key \in Names
         /\ line.kind = "set" => line.key \in Keys /\ line.value \in Values
         /\ \A s : line = Config(s) => line.kind = "config" /\ line.key = s
BY DEF Lines, Config, Line

\* Nothing is set yet.
LEMMA NoSettings == << >> \in Data /\ DOMAIN << >> = {}
<1>1. << >> \in [{} -> Values] /\ DOMAIN << >> = {}
  OBVIOUS
<1>2. QED
  BY <1>1 DEF Data

\* Settings with one more are settings.
LEMMA WithIsData ==
  ASSUME NEW data \in Data, NEW line \in Lines, line.kind = "set"
  PROVE  /\ With(data, line) \in Data
         /\ DOMAIN With(data, line) = DOMAIN data \cup {line.key}
<1>1. PICK K \in SUBSET Keys : data \in [K -> Values]
  BY DEF Data
<1>2. line.key \in Keys /\ line.value \in Values
  BY LineForms
<1>3. With(data, line) \in [K \cup {line.key} -> Values] /\ K \cup {line.key} \in SUBSET Keys
  BY <1>1, <1>2 DEF With
<1>4. QED
  BY <1>1, <1>3 DEF Data

\* The steps of the parser stay within its states.
LEMMA StepsTyped ==
  ASSUME NEW s, NEW st \in States, NEW line \in Lines
  PROVE  FlatLine(s, st, line) \in States /\ TableLine(s, st, line) \in States
<1>1. FlatLine(s, st, line) \in States
  <2>1. CASE line.kind = "set"
    BY <2>1, WithIsData DEF States, FlatLine
  <2>2. CASE line.kind # "set"
    BY <2>2 DEF States, FlatLine
  <2>3. QED
    BY <2>1, <2>2
<1>2. TableLine(s, st, line) \in States
  <2>1. CASE line.kind = "set" /\ st.item # Null
    <3>1. st.item \in Entry
      BY <2>1 DEF States
    <3>2. [st.item EXCEPT !.data = With(@, line)] \in Entry
      BY <2>1, <3>1, WithIsData DEF Entry
    <3>3. QED
      BY <2>1, <3>2 DEF States, TableLine
  <2>2. CASE line.kind = "edit"
    <3>1. [name |-> line.key, data |-> << >>] \in Entry
      BY <2>2, LineForms, NoSettings DEF Entry
    <3>2. QED
      BY <2>2, <3>1 DEF States, TableLine
  <2>3. CASE line.kind = "next" /\ st.item # Null
    <3>1. Append(st.items, st.item) \in Seq(Entry)
      BY <2>3 DEF States
    <3>2. line # Config(s)
      BY <2>3, LineForms
    <3>3. QED
      BY <2>3, <3>1, <3>2 DEF States, TableLine
  <2>4. CASE line.kind = "config" \/ line.kind = "end"
    BY <2>4 DEF States, TableLine, Config, Line
  <2>5. CASE line.kind \in {"set", "next"} /\ st.item = Null
    BY <2>5 DEF States, TableLine, Config, Line
  <2>6. QED
    BY <2>1, <2>2, <2>3, <2>4, <2>5, LineForms
<1>3. QED
  BY <1>1, <1>2
-----------------------------------------------------------------------------
(* The parser, line by line.                                               *)

\* The greatest of each set of places.
Latest == [U \in SUBSET Nat |-> Max(U)]

\* It is one of them.
LEMMA LatestIsLast == \A n \in Nat : IsLast(Latest, n)
<1> SUFFICES ASSUME NEW n \in Nat, NEW U \in SUBSET (1 .. n), U # {}
             PROVE  Latest[U] \in U /\ \A y \in U : y <= Latest[U]
  BY DEF IsLast
<1>1. PICK x \in U : \A y \in U : y <= x
  BY GreatestExists
<1>2. \A y \in U : x >= y
  BY <1>1
<1>3. Max(U) \in U /\ \A y \in U : Max(U) >= y
  BY <1>2 DEF Max
<1>4. Latest[U] = Max(U)
  BY DEF Latest
<1>5. QED
  BY <1>3, <1>4

\* Nothing known is a state.
LEMMA StartTyped == Start \in States
BY NoSettings DEF Start, States

\* The parser of a table, as a step from a state and a line to a state.
TableSteps(s) == [p \in States \X Lines |-> TableLine(s, p[1], p[2])]
FlatSteps(s) == [p \in States \X Lines |-> FlatLine(s, p[1], p[2])]

\* They are its lines.
LEMMA StepsOnLines ==
  ASSUME NEW s
  PROVE  /\ StepsOn(TableSteps(s), States, Lines) /\ StepsOn(FlatSteps(s), States, Lines)
         /\ \A st \in States, line \in Lines :
              /\ TableSteps(s)[<<st, line>>] = TableLine(s, st, line)
              /\ FlatSteps(s)[<<st, line>>] = FlatLine(s, st, line)
<1>1. ASSUME NEW st \in States, NEW line \in Lines
      PROVE  /\ TableSteps(s)[<<st, line>>] = TableLine(s, st, line)
             /\ FlatSteps(s)[<<st, line>>] = FlatLine(s, st, line)
  <2>1. <<st, line>> \in States \X Lines /\ <<st, line>>[1] = st /\ <<st, line>>[2] = line
    OBVIOUS
  <2>2. /\ TableSteps(s)[<<st, line>>] = TableLine(s, <<st, line>>[1], <<st, line>>[2])
        /\ FlatSteps(s)[<<st, line>>] = FlatLine(s, <<st, line>>[1], <<st, line>>[2])
    BY <2>1, Zenon DEF TableSteps, FlatSteps
  <2>3. QED
    BY <2>1, <2>2
<1>2. QED
  BY <1>1, StepsTyped DEF StepsOn

\* What the parser of a table knows is read by these steps.
LEMMA TableIsRead ==
  ASSUME NEW s, NEW lines \in Seq(Lines)
  PROVE  \E g \in [SUBSET (1 .. Len(lines)) -> States] :
           /\ Reads(g, lines, Start, TableSteps(s), Latest)
           /\ TableState(s, lines) = g[1 .. Len(lines)]
<1> DEFINE S == DOMAIN lines
           Iterates(g) == g = [U \in SUBSET S |-> IF U = {} THEN Start ELSE
                            TableLine(s, g[U \ {Max(U)}], lines[Max(U)])]
<1>1. PICK iter : iter = CHOOSE g : Iterates(g)
  OBVIOUS
<1>2. TableState(s, lines) = iter[S]
  BY <1>1 DEF TableState, FoldLeft, MapThenFoldSet
<1>3. S = 1 .. Len(lines) /\ Len(lines) \in Nat /\ IsLast(Latest, Len(lines))
  BY LatestIsLast
<1>4. PICK g \in [SUBSET (1 .. Len(lines)) -> States] : Reads(g, lines, Start, TableSteps(s), Latest)
  BY <1>3, StartTyped, StepsOnLines, ReadingExists
<1>5. \A U \in SUBSET S : U # {} => Latest[U] = Max(U) /\ Latest[U] \in U
  BY <1>3 DEF Latest, IsLast
<1>6. ASSUME NEW U \in SUBSET S, U # {}
      PROVE  g[U] = TableLine(s, g[U \ {Max(U)}], lines[Max(U)])
  <2>1. g[U] = TableSteps(s)[<<g[U \ {Latest[U]}], lines[Latest[U]]>>]
    BY <1>3, <1>4, <1>6 DEF Reads
  <2>2. g[U \ {Latest[U]}] \in States /\ lines[Latest[U]] \in Lines
    BY <1>3, <1>4, <1>5, <1>6
  <2>3. TableSteps(s)[<<g[U \ {Latest[U]}], lines[Latest[U]]>>]
          = TableLine(s, g[U \ {Latest[U]}], lines[Latest[U]])
    <3>1. PICK v \in States, line \in Lines : v = g[U \ {Latest[U]}] /\ line = lines[Latest[U]]
      BY <2>2
    <3>2. TableSteps(s)[<<v, line>>] = TableLine(s, v, line)
      BY StepsOnLines
    <3>3. QED
      BY <3>1, <3>2
  <2>4. QED
    BY <1>5, <1>6, <2>1, <2>3
<1>7. g[{}] = Start
  BY <1>4 DEF Reads
<1>8. Iterates(g)
  BY <1>3, <1>4, <1>6, <1>7
<1>9. Iterates(iter)
  <2> HIDE DEF Iterates
  <2>1. Iterates(CHOOSE h : Iterates(h))
    BY <1>8
  <2>2. QED
    BY <1>1, <2>1
<1>10. iter[S] = g[S]
  <2>1. iter[{}] = Start /\ \A U \in SUBSET S : U # {} =>
          iter[U] = TableLine(s, iter[U \ {Max(U)}], lines[Max(U)])
    BY <1>9
  <2>2. ASSUME NEW U \in SUBSET S, U # {}, iter[U \ {Latest[U]}] = g[U \ {Latest[U]}]
        PROVE  iter[U] = g[U]
    BY <1>5, <1>6, <2>1, <2>2
  <2>3. Agree(iter, g, S, Latest)
    BY <1>7, <2>1, <2>2 DEF Agree
  <2>4. Picks(Latest, S) /\ IsFiniteSet(S)
    <3>1. IsFiniteSet(1 .. Len(lines))
      BY <1>3, FS_Interval
    <3>2. QED
      BY <1>3, <1>5, <3>1 DEF Picks
  <2>5. \A U \in SUBSET S : iter[U] = g[U]
    <3> HIDE DEF S
    <3>1. QED
      BY <2>3, <2>4, FoldUnique
  <2>6. QED
    BY <2>5
<1>11. QED
  BY <1>2, <1>3, <1>4, <1>10

\* What the parser of settings knows is read by these steps.
LEMMA FlatIsRead ==
  ASSUME NEW s, NEW lines \in Seq(Lines)
  PROVE  \E g \in [SUBSET (1 .. Len(lines)) -> States] :
           /\ Reads(g, lines, Start, FlatSteps(s), Latest)
           /\ FlatState(s, lines) = g[1 .. Len(lines)]
<1> DEFINE S == DOMAIN lines
           Iterates(g) == g = [U \in SUBSET S |-> IF U = {} THEN Start ELSE
                            FlatLine(s, g[U \ {Max(U)}], lines[Max(U)])]
<1>1. PICK iter : iter = CHOOSE g : Iterates(g)
  OBVIOUS
<1>2. FlatState(s, lines) = iter[S]
  BY <1>1 DEF FlatState, FoldLeft, MapThenFoldSet
<1>3. S = 1 .. Len(lines) /\ Len(lines) \in Nat /\ IsLast(Latest, Len(lines))
  BY LatestIsLast
<1>4. PICK g \in [SUBSET (1 .. Len(lines)) -> States] : Reads(g, lines, Start, FlatSteps(s), Latest)
  BY <1>3, StartTyped, StepsOnLines, ReadingExists
<1>5. \A U \in SUBSET S : U # {} => Latest[U] = Max(U) /\ Latest[U] \in U
  BY <1>3 DEF Latest, IsLast
<1>6. ASSUME NEW U \in SUBSET S, U # {}
      PROVE  g[U] = FlatLine(s, g[U \ {Max(U)}], lines[Max(U)])
  <2>1. g[U] = FlatSteps(s)[<<g[U \ {Latest[U]}], lines[Latest[U]]>>]
    BY <1>3, <1>4, <1>6 DEF Reads
  <2>2. g[U \ {Latest[U]}] \in States /\ lines[Latest[U]] \in Lines
    BY <1>3, <1>4, <1>5, <1>6
  <2>3. FlatSteps(s)[<<g[U \ {Latest[U]}], lines[Latest[U]]>>]
          = FlatLine(s, g[U \ {Latest[U]}], lines[Latest[U]])
    <3>1. PICK v \in States, line \in Lines : v = g[U \ {Latest[U]}] /\ line = lines[Latest[U]]
      BY <2>2
    <3>2. FlatSteps(s)[<<v, line>>] = FlatLine(s, v, line)
      BY StepsOnLines
    <3>3. QED
      BY <3>1, <3>2
  <2>4. QED
    BY <1>5, <1>6, <2>1, <2>3
<1>7. g[{}] = Start
  BY <1>4 DEF Reads
<1>8. Iterates(g)
  BY <1>3, <1>4, <1>6, <1>7
<1>9. Iterates(iter)
  <2> HIDE DEF Iterates
  <2>1. Iterates(CHOOSE h : Iterates(h))
    BY <1>8
  <2>2. QED
    BY <1>1, <2>1
<1>10. iter[S] = g[S]
  <2>1. iter[{}] = Start /\ \A U \in SUBSET S : U # {} =>
          iter[U] = FlatLine(s, iter[U \ {Max(U)}], lines[Max(U)])
    BY <1>9
  <2>2. ASSUME NEW U \in SUBSET S, U # {}, iter[U \ {Latest[U]}] = g[U \ {Latest[U]}]
        PROVE  iter[U] = g[U]
    BY <1>5, <1>6, <2>1, <2>2
  <2>3. Agree(iter, g, S, Latest)
    BY <1>7, <2>1, <2>2 DEF Agree
  <2>4. Picks(Latest, S) /\ IsFiniteSet(S)
    <3>1. IsFiniteSet(1 .. Len(lines))
      BY <1>3, FS_Interval
    <3>2. QED
      BY <1>3, <1>5, <3>1 DEF Picks
  <2>5. \A U \in SUBSET S : iter[U] = g[U]
    <3> HIDE DEF S
    <3>1. QED
      BY <2>3, <2>4, FoldUnique
  <2>6. QED
    BY <2>5
<1>11. QED
  BY <1>2, <1>3, <1>4, <1>10

\* What the parser knows: nothing at the beginning, and one line more after
\* each line.
LEMMA ParserSteps ==
  ASSUME NEW s
  PROVE  /\ TableState(s, << >>) = Start /\ FlatState(s, << >>) = Start
         /\ \A lines \in Seq(Lines) : TableState(s, lines) \in States /\ FlatState(s, lines) \in States
         /\ \A lines \in Seq(Lines), line \in Lines :
              /\ TableState(s, Append(lines, line)) = TableLine(s, TableState(s, lines), line)
              /\ FlatState(s, Append(lines, line)) = FlatLine(s, FlatState(s, lines), line)
<1>1. TableState(s, << >>) = Start
  <2>1. << >> \in Seq(Lines) /\ Len(<< >>) = 0 /\ 1 .. 0 = {}
    OBVIOUS
  <2>2. PICK g : Reads(g, << >>, Start, TableSteps(s), Latest) /\ TableState(s, << >>) = g[1 .. Len(<< >>)]
    BY <2>1, TableIsRead
  <2>3. QED
    BY <2>1, <2>2 DEF Reads
<1>2. FlatState(s, << >>) = Start
  <2>1. << >> \in Seq(Lines) /\ Len(<< >>) = 0 /\ 1 .. 0 = {}
    OBVIOUS
  <2>2. PICK g : Reads(g, << >>, Start, FlatSteps(s), Latest) /\ FlatState(s, << >>) = g[1 .. Len(<< >>)]
    BY <2>1, FlatIsRead
  <2>3. QED
    BY <2>1, <2>2 DEF Reads
<1>3. ASSUME NEW lines \in Seq(Lines)
      PROVE  TableState(s, lines) \in States /\ FlatState(s, lines) \in States
  <2>1. PICK g \in [SUBSET (1 .. Len(lines)) -> States] : TableState(s, lines) = g[1 .. Len(lines)]
    BY TableIsRead
  <2>2. PICK h \in [SUBSET (1 .. Len(lines)) -> States] : FlatState(s, lines) = h[1 .. Len(lines)]
    BY FlatIsRead
  <2>3. QED
    BY <2>1, <2>2
<1>4. ASSUME NEW lines \in Seq(Lines), NEW line \in Lines
      PROVE  TableState(s, Append(lines, line)) = TableLine(s, TableState(s, lines), line)
  <2>1. PICK q : q = Append(lines, line)
    OBVIOUS
  <2>2. q \in Seq(Lines) /\ Len(q) = Len(lines) + 1 /\ Len(lines) \in Nat
    BY <2>1
  <2>3. PICK g : Reads(g, lines, Start, TableSteps(s), Latest) /\ TableState(s, lines) = g[1 .. Len(lines)]
    BY TableIsRead
  <2>4. PICK h : Reads(h, q, Start, TableSteps(s), Latest) /\ TableState(s, q) = h[1 .. Len(q)]
    BY <2>2, TableIsRead
  <2>5. IsLast(Latest, Len(lines) + 1)
    BY <2>2, LatestIsLast
  <2>6. h[1 .. Len(Append(lines, line))] = TableSteps(s)[<<g[1 .. Len(lines)], line>>]
    BY <2>1, <2>3, <2>4, <2>5, ReadingStep
  <2>7. TableSteps(s)[<<TableState(s, lines), line>>] = TableLine(s, TableState(s, lines), line)
    BY <1>3, StepsOnLines
  <2>8. QED
    BY <2>1, <2>3, <2>4, <2>6, <2>7
<1>5. ASSUME NEW lines \in Seq(Lines), NEW line \in Lines
      PROVE  FlatState(s, Append(lines, line)) = FlatLine(s, FlatState(s, lines), line)
  <2>1. PICK q : q = Append(lines, line)
    OBVIOUS
  <2>2. q \in Seq(Lines) /\ Len(q) = Len(lines) + 1 /\ Len(lines) \in Nat
    BY <2>1
  <2>3. PICK g : Reads(g, lines, Start, FlatSteps(s), Latest) /\ FlatState(s, lines) = g[1 .. Len(lines)]
    BY FlatIsRead
  <2>4. PICK h : Reads(h, q, Start, FlatSteps(s), Latest) /\ FlatState(s, q) = h[1 .. Len(q)]
    BY <2>2, FlatIsRead
  <2>5. IsLast(Latest, Len(lines) + 1)
    BY <2>2, LatestIsLast
  <2>6. h[1 .. Len(Append(lines, line))] = FlatSteps(s)[<<g[1 .. Len(lines)], line>>]
    BY <2>1, <2>3, <2>4, <2>5, ReadingStep
  <2>7. FlatSteps(s)[<<FlatState(s, lines), line>>] = FlatLine(s, FlatState(s, lines), line)
    BY <1>3, StepsOnLines
  <2>8. QED
    BY <2>1, <2>3, <2>4, <2>6, <2>7
<1>6. QED
  BY <1>1, <1>2, <1>3, <1>4, <1>5
-----------------------------------------------------------------------------
(* The nesting, line by line.                                              *)

Change(line) ==
  IF line.kind \in {"config", "edit"} THEN 1 ELSE IF line.kind \in {"end", "next"} THEN -1 ELSE 0

\* Counting on by one place.
LEMMA OneMore ==
  ASSUME NEW h \in Nat, NEW j \in Nat, h <= j + 1,
         NEW A \in SUBSET (h .. j), NEW B \in SUBSET (h .. j + 1),
         \A k \in h .. j : k \in B <=> k \in A
  PROVE  /\ Cardinality(A) \in Nat /\ Cardinality(B) \in Nat
         /\ Cardinality(B) = Cardinality(A) + IF j + 1 \in B THEN 1 ELSE 0
<1>1. IsFiniteSet(A) /\ Cardinality(A) \in Nat
  <2>1. IsFiniteSet(h .. j)
    BY FS_Interval
  <2>2. QED
    BY <2>1, FS_Subset, FS_CardinalityType
<1>2. \A k : k \in h .. j + 1 <=> k \in h .. j \/ k = j + 1
  OBVIOUS
<1>3. \A k : (k \in A => k \in h .. j) /\ (k \in B => k \in h .. j + 1)
  OBVIOUS
<1>4. j + 1 \notin h .. j
  OBVIOUS
<1>5. CASE j + 1 \in B
  <2>1. \A k : k \in B <=> k \in A \cup {j + 1}
    BY <1>5, <1>2, <1>3, <1>4
  <2>2. B = A \cup {j + 1} /\ j + 1 \notin A
    BY <2>1, <1>3, <1>4
  <2>3. QED
    BY <1>1, <1>5, <2>2, FS_AddElement
<1>6. CASE j + 1 \notin B
  <2>1. \A k : k \in B <=> k \in A
    BY <1>6, <1>2, <1>3, <1>4
  <2>2. QED
    BY <1>1, <1>6, <2>1
<1>7. QED
  BY <1>5, <1>6

\* Each line adds its change to the depth.
LEMMA DepthStep ==
  ASSUME NEW lines \in Seq(Lines), NEW h \in 1 .. Len(lines), NEW j \in Nat,
         h <= j + 1, j + 1 <= Len(lines)
  PROVE  /\ Depth(lines, h, j) \in Int
         /\ Depth(lines, h, j + 1) = Depth(lines, h, j) + Change(lines[j + 1])
         /\ h = j + 1 => Depth(lines, h, j) = 0
<1> DEFINE Up(i) == {k \in h .. i : lines[k].kind \in {"config", "edit"}}
           Down(i) == {k \in h .. i : lines[k].kind \in {"end", "next"}}
<1>1. h \in Nat /\ j + 1 \in h .. j + 1
  OBVIOUS
<1>2. /\ Cardinality(Up(j)) \in Nat
      /\ Cardinality(Up(j + 1)) = Cardinality(Up(j)) + IF j + 1 \in Up(j + 1) THEN 1 ELSE 0
  <2>1. Up(j) \in SUBSET (h .. j) /\ Up(j + 1) \in SUBSET (h .. j + 1)
        /\ \A k \in h .. j : k \in Up(j + 1) <=> k \in Up(j)
    OBVIOUS
  <2> HIDE DEF Up
  <2>2. QED
    BY <1>1, <2>1, OneMore
<1>3. /\ Cardinality(Down(j)) \in Nat
      /\ Cardinality(Down(j + 1)) = Cardinality(Down(j)) + IF j + 1 \in Down(j + 1) THEN 1 ELSE 0
  <2>1. Down(j) \in SUBSET (h .. j) /\ Down(j + 1) \in SUBSET (h .. j + 1)
        /\ \A k \in h .. j : k \in Down(j + 1) <=> k \in Down(j)
    OBVIOUS
  <2> HIDE DEF Down
  <2>2. QED
    BY <1>1, <2>1, OneMore
<1>4. h = j + 1 => Up(j) = {} /\ Down(j) = {}
  OBVIOUS
<1>5. /\ j + 1 \in Up(j + 1) <=> lines[j + 1].kind \in {"config", "edit"}
      /\ j + 1 \in Down(j + 1) <=> lines[j + 1].kind \in {"end", "next"}
  BY <1>1
<1>6. /\ Depth(lines, h, j) = Cardinality(Up(j)) - Cardinality(Down(j))
      /\ Depth(lines, h, j + 1) = Cardinality(Up(j + 1)) - Cardinality(Down(j + 1))
  BY DEF Depth
<1> HIDE DEF Up, Down
<1>7. Depth(lines, h, j) \in Int /\ (h = j + 1 => Depth(lines, h, j) = 0)
  <2>1. Cardinality({}) = 0
    BY FS_EmptySet
  <2>2. Depth(lines, h, j) \in Int
    BY <1>2, <1>3, <1>6
  <2>3. ASSUME h = j + 1 PROVE Depth(lines, h, j) = 0
    <3>1. Cardinality(Up(j)) = 0 /\ Cardinality(Down(j)) = 0
      BY <1>4, <2>1, <2>3
    <3>2. QED
      BY <1>6, <3>1
  <2>4. QED
    BY <2>2, <2>3
<1>8. Depth(lines, h, j + 1) = Depth(lines, h, j) + Change(lines[j + 1])
  <2>1. PICK line : line = lines[j + 1]
    OBVIOUS
  <2>2. CASE line.kind \in {"config", "edit"}
    <3>1. line.kind \notin {"end", "next"} /\ Change(line) = 1
      BY <2>2 DEF Change
    <3>2. QED
      BY <1>2, <1>3, <1>5, <1>6, <2>1, <2>2, <3>1
  <2>3. CASE line.kind \in {"end", "next"}
    <3>1. line.kind \notin {"config", "edit"} /\ Change(line) = -1
      BY <2>3 DEF Change
    <3>2. QED
      BY <1>2, <1>3, <1>5, <1>6, <2>1, <2>3, <3>1
  <2>4. CASE line.kind \notin {"config", "edit"} /\ line.kind \notin {"end", "next"}
    <3>1. Change(line) = 0
      BY <2>4 DEF Change
    <3>2. QED
      BY <1>2, <1>3, <1>5, <1>6, <2>1, <2>4, <3>1
  <2>5. QED
    BY <2>1, <2>2, <2>3, <2>4
<1>9. QED
  BY <1>7, <1>8

\* Depths are those of the lines so far, whatever is appended.
LEMMA DepthSame ==
  ASSUME NEW lines \in Seq(Lines), NEW line \in Lines,
         NEW h \in 1 .. Len(lines), NEW j \in h .. Len(lines)
  PROVE  /\ Depth(Append(lines, line), h, j) = Depth(lines, h, j)
         /\ Depth(lines, h, j) \in Int
<1>1. \A k \in h .. j : Append(lines, line)[k] = lines[k]
  OBVIOUS
<1>2. Depth(Append(lines, line), h, j) = Depth(lines, h, j)
  <2>1. {k \in h .. j : Append(lines, line)[k].kind \in {"config", "edit"}}
          = {k \in h .. j : lines[k].kind \in {"config", "edit"}}
    BY <1>1
  <2>2. {k \in h .. j : Append(lines, line)[k].kind \in {"end", "next"}}
          = {k \in h .. j : lines[k].kind \in {"end", "next"}}
    BY <1>1
  <2>3. QED
    BY <2>1, <2>2 DEF Depth
<1>3. Depth(lines, h, j) \in Int
  <2>1. PICK i \in Nat : i = j - 1
    OBVIOUS
  <2>2. i + 1 = j /\ h <= i + 1 /\ i + 1 <= Len(lines)
    BY <2>1
  <2>3. Depth(lines, h, i) \in Int /\ Depth(lines, h, i + 1) = Depth(lines, h, i) + Change(lines[i + 1])
    BY <2>2, DepthStep
  <2>4. QED
    BY <2>2, <2>3 DEF Change
<1>4. QED
  BY <1>2, <1>3

\* The n lines grow to q by one more.
Grows(q, lines, line, n) ==
  lines \in Seq(Lines) /\ line \in Lines /\ n = Len(lines) /\ q = Append(lines, line)

\* What is the same and what is new.
LEMMA Grown ==
  ASSUME NEW q, NEW lines, NEW line, NEW n, Grows(q, lines, line, n)
  PROVE  /\ lines \in Seq(Lines) /\ q \in Seq(Lines) /\ line \in Lines
         /\ n \in Nat /\ Len(lines) = n /\ Len(q) = n + 1
         /\ DOMAIN lines = 1 .. n /\ DOMAIN q = 1 .. n + 1
         /\ q[n + 1] = line /\ \A i \in 1 .. n : q[i] = lines[i] /\ lines[i] \in Lines
BY DEF Grows

\* The change of a line, by its kind.
LEMMA Changes ==
  ASSUME NEW line \in Lines
  PROVE  /\ line.kind \in {"config", "edit"} <=> Change(line) = 1
         /\ line.kind \in {"end", "next"} <=> Change(line) = -1
         /\ line.kind = "set" <=> Change(line) = 0
         /\ Change(line) \in {-1, 0, 1}
<1>1. line.kind \in {"config", "edit", "set", "next", "end"}
  BY LineForms
<1>2. QED
  BY <1>1 DEF Change

\* The depths after one more line.
LEMMA Deepens ==
  ASSUME NEW q, NEW lines, NEW line, NEW n, Grows(q, lines, line, n)
  PROVE  /\ \A h \in 1 .. n : \A j \in h .. n :
              Depth(q, h, j) = Depth(lines, h, j) /\ Depth(lines, h, j) \in Int
         /\ \A h \in 1 .. n : Depth(q, h, n + 1) = Depth(lines, h, n) + Change(line)
         /\ Depth(q, n + 1, n + 1) = Change(line)
<1>1. /\ lines \in Seq(Lines) /\ q \in Seq(Lines) /\ line \in Lines /\ n \in Nat /\ Len(lines) = n
      /\ Len(q) = n + 1 /\ q[n + 1] = line /\ q = Append(lines, line)
  BY Grown DEF Grows
<1>2. ASSUME NEW h \in 1 .. n, NEW j \in h .. n
      PROVE  Depth(q, h, j) = Depth(lines, h, j) /\ Depth(lines, h, j) \in Int
  BY <1>1, DepthSame
<1>3. ASSUME NEW h \in 1 .. n PROVE Depth(q, h, n + 1) = Depth(lines, h, n) + Change(line)
  <2>1. h \in 1 .. Len(q) /\ h <= n + 1 /\ n + 1 <= Len(q)
    BY <1>1
  <2>2. Depth(q, h, n + 1) = Depth(q, h, n) + Change(q[n + 1])
    BY <1>1, <2>1, DepthStep
  <2>3. Depth(q, h, n) = Depth(lines, h, n)
    BY <1>1, <1>2
  <2>4. QED
    BY <1>1, <2>2, <2>3
<1>4. Depth(q, n + 1, n + 1) = Change(line)
  <2>1. n + 1 \in 1 .. Len(q) /\ n + 1 <= n + 1 /\ n + 1 <= Len(q)
    BY <1>1
  <2>2. Depth(q, n + 1, n + 1) = Depth(q, n + 1, n) + Change(q[n + 1]) /\ Depth(q, n + 1, n) = 0
    BY <1>1, <2>1, DepthStep
  <2>3. Change(line) \in Int
    BY DEF Change
  <2>4. QED
    BY <1>1, <2>2, <2>3
<1>5. QED
  BY <1>2, <1>3, <1>4

\* The section that begins at h has not ended.
Live(lines, h) == \A k \in h .. Len(lines) : Depth(lines, h, k) >= 1

\* The lines of a section.
LEMMA InBody ==
  ASSUME NEW lines \in Seq(Lines), NEW h \in 1 .. Len(lines)
  PROVE  /\ Body(lines, h) \in SUBSET (h .. Len(lines))
         /\ Live(lines, h) => Body(lines, h) = h .. Len(lines)
         /\ \A j \in Body(lines, h) : /\ Depth(lines, h, j) \in Nat /\ Depth(lines, h, j) >= 1
                                      /\ \A k \in h .. j : k \in Body(lines, h)
         /\ \A j \in Body(lines, h) : j # h =>
              /\ j - 1 \in Body(lines, h)
              /\ Depth(lines, h, j) = Depth(lines, h, j - 1) + Change(lines[j])
<1>1. \A j \in h .. Len(lines) : Depth(lines, h, j) \in Int
  <2> TAKE j \in h .. Len(lines)
  <2>1. lines[h] \in Lines
    OBVIOUS
  <2>2. QED
    BY <2>1, DepthSame
<1>2. \A j \in h .. Len(lines) : j # h => Depth(lines, h, j) = Depth(lines, h, j - 1) + Change(lines[j])
  <2> SUFFICES ASSUME NEW j \in h .. Len(lines), j # h
               PROVE  Depth(lines, h, j) = Depth(lines, h, j - 1) + Change(lines[j])
    OBVIOUS
  <2>1. PICK i \in Nat : i + 1 = j /\ h <= i + 1 /\ i + 1 <= Len(lines) /\ i = j - 1
    <3>1. j - 1 \in Nat /\ (j - 1) + 1 = j /\ h <= (j - 1) + 1 /\ (j - 1) + 1 <= Len(lines)
      OBVIOUS
    <3>2. QED
      BY <3>1
  <2>2. Depth(lines, h, i + 1) = Depth(lines, h, i) + Change(lines[i + 1])
    BY <2>1, DepthStep
  <2>3. QED
    BY <2>1, <2>2
<1>3. \A j \in Body(lines, h) : /\ Depth(lines, h, j) \in Nat /\ Depth(lines, h, j) >= 1
                                /\ \A k \in h .. j : k \in Body(lines, h)
  <2> SUFFICES ASSUME NEW j \in Body(lines, h)
               PROVE  /\ Depth(lines, h, j) \in Nat /\ Depth(lines, h, j) >= 1
                      /\ \A k \in h .. j : k \in Body(lines, h)
    OBVIOUS
  <2>1. j \in h .. Len(lines) /\ \A k \in h .. j : Depth(lines, h, k) >= 1
    BY DEF Body
  <2>2. \A k \in h .. j : k \in h .. Len(lines) /\ \A i \in h .. k : i \in h .. j
    BY <2>1
  <2>3. \A k \in h .. j : k \in Body(lines, h)
    BY <2>1, <2>2 DEF Body
  <2>4. j \in h .. j
    BY <2>1
  <2>5. QED
    BY <1>1, <2>1, <2>3, <2>4
<1>4. \A j \in Body(lines, h) : j \in h .. Len(lines) /\ (j # h => j - 1 \in h .. j)
  BY DEF Body
<1>5. Live(lines, h) => Body(lines, h) = h .. Len(lines)
  BY DEF Live, Body
<1>6. QED
  BY <1>2, <1>3, <1>4, <1>5

\* The section after one more line.
LEMMA BodyGrows ==
  ASSUME NEW q, NEW lines, NEW line, NEW n, Grows(q, lines, line, n), NEW h \in 1 .. n
  PROVE  /\ Live(q, h) <=> Live(lines, h) /\ Depth(lines, h, n) + Change(line) >= 1
         /\ Body(q, h) = Body(lines, h) \cup (IF Live(q, h) THEN {n + 1} ELSE {})
         /\ Body(lines, h) \in SUBSET (h .. n) /\ n + 1 \notin Body(lines, h)
<1>1. n \in Nat /\ Len(lines) = n /\ Len(q) = n + 1 /\ lines \in Seq(Lines)
  BY Grown
<1>2. \A k : k \in h .. n + 1 <=> k \in h .. n \/ k = n + 1
  BY <1>1
<1>3. /\ \A j \in h .. n : Depth(q, h, j) = Depth(lines, h, j)
      /\ Depth(q, h, n + 1) = Depth(lines, h, n) + Change(line)
  BY Deepens
<1>4. Live(q, h) <=> Live(lines, h) /\ Depth(lines, h, n) + Change(line) >= 1
  BY <1>1, <1>2, <1>3 DEF Live
<1>5. \A j : j \in Body(q, h) <=> j \in Body(lines, h) \/ (Live(q, h) /\ j = n + 1)
  <2>1. ASSUME NEW j \in h .. n PROVE j \in Body(q, h) <=> j \in Body(lines, h)
    <3>1. \A k \in h .. j : Depth(q, h, k) = Depth(lines, h, k)
      BY <1>1, <1>3
    <3>2. j \in h .. n + 1
      BY <1>2
    <3>3. QED
      BY <1>1, <3>1, <3>2 DEF Body
  <2>2. n + 1 \in Body(q, h) <=> Live(q, h)
    <3>1. n + 1 \in h .. n + 1
      BY <1>2
    <3>2. QED
      BY <1>1, <3>1 DEF Body, Live
  <2>3. \A j : (j \in Body(q, h) => j \in h .. n + 1) /\ (j \in Body(lines, h) => j \in h .. n)
    BY <1>1 DEF Body
  <2>4. QED
    BY <1>2, <2>1, <2>2, <2>3
<1>6. Body(lines, h) \in SUBSET (h .. n) /\ n + 1 \notin Body(lines, h)
  BY <1>1 DEF Body
<1>7. QED
  BY <1>4, <1>5, <1>6
-----------------------------------------------------------------------------
(* The meaning of settings.                                                *)

\* The greatest of a set of places.
LEMMA MaxIs ==
  ASSUME NEW U \in SUBSET Nat, NEW x \in U, \A y \in U : y <= x
  PROVE  Max(U) = x
<1>1. \A y \in U : x >= y
  OBVIOUS
<1>2. Max(U) \in U /\ \A y \in U : Max(U) >= y
  BY <1>1 DEF Max
<1>3. Max(U) \in Nat /\ x \in Nat /\ Max(U) >= x /\ x >= Max(U)
  BY <1>1, <1>2
<1>4. QED
  BY <1>3

\* A set of places is not empty if it has a greatest, and the other way round.
LEMMA MaxIn ==
  ASSUME NEW n \in Nat, NEW U \in SUBSET (1 .. n), U # {}
  PROVE  Max(U) \in U
<1>1. PICK x \in U : \A y \in U : y <= x
  BY GreatestExists
<1>2. U \in SUBSET Nat
  OBVIOUS
<1>3. QED
  BY <1>1, <1>2, MaxIs

\* Settings mean settings.
LEMMA MeaningTyped ==
  ASSUME NEW lines \in Seq(Lines), NEW places \in SUBSET (1 .. Len(lines))
  PROVE  Meaning(lines, places) \in Data
<1> DEFINE K == {k \in Keys : SetAt(lines, places, k) # {}}
<1>1. ASSUME NEW key \in K PROVE lines[Max(SetAt(lines, places, key))].value \in Values
  <2>1. SetAt(lines, places, key) \in SUBSET (1 .. Len(lines)) /\ Len(lines) \in Nat
    <3>1. SetAt(lines, places, key) \subseteq places
      BY DEF SetAt
    <3>2. SetAt(lines, places, key) \subseteq 1 .. Len(lines)
      BY <3>1
    <3>3. Len(lines) \in Nat
      OBVIOUS
    <3>4. QED
      BY <3>2, <3>3
  <2>2. Max(SetAt(lines, places, key)) \in SetAt(lines, places, key)
    BY <2>1, MaxIn
  <2>3. PICK p \in 1 .. Len(lines) : p = Max(SetAt(lines, places, key)) /\ lines[p].kind = "set"
    BY <2>1, <2>2 DEF SetAt
  <2>4. lines[p] \in Lines
    OBVIOUS
  <2>5. QED
    BY <2>3, <2>4, LineForms
<1>2. Meaning(lines, places) \in [K -> Values]
  BY <1>1 DEF Meaning
<1>3. QED
  BY <1>2 DEF Data

\* What was said stays said.
LEMMA MeaningSame ==
  ASSUME NEW q, NEW lines, NEW line, NEW n, Grows(q, lines, line, n), NEW places \in SUBSET (1 .. n)
  PROVE  Meaning(q, places) = Meaning(lines, places)
<1>1. n \in Nat /\ \A i \in 1 .. n : q[i] = lines[i]
  BY Grown
<1>2. \A key : SetAt(q, places, key) = SetAt(lines, places, key)
  BY <1>1 DEF SetAt
<1>3. ASSUME NEW key, SetAt(lines, places, key) # {}
      PROVE  q[Max(SetAt(lines, places, key))] = lines[Max(SetAt(lines, places, key))]
  <2>1. SetAt(lines, places, key) \in SUBSET (1 .. n)
    BY DEF SetAt
  <2>2. Max(SetAt(lines, places, key)) \in 1 .. n
    BY <1>1, <1>3, <2>1, MaxIn
  <2>3. QED
    BY <1>1, <2>2
<1>4. QED
  BY <1>2, <1>3 DEF Meaning

\* A line that sets nothing adds nothing.
LEMMA MeaningNoMore ==
  ASSUME NEW q, NEW lines, NEW line, NEW n, Grows(q, lines, line, n), NEW places \in SUBSET (1 .. n),
         line.kind # "set"
  PROVE  Meaning(q, places \cup {n + 1}) = Meaning(lines, places)
<1>1. n \in Nat /\ q[n + 1] = line
  BY Grown
<1>2. \A key : SetAt(q, places \cup {n + 1}, key) = SetAt(q, places, key)
  BY <1>1 DEF SetAt
<1>3. Meaning(q, places \cup {n + 1}) = Meaning(q, places)
  BY <1>2 DEF Meaning
<1>4. QED
  BY <1>3, MeaningSame

\* A line that sets a key overrides what was said of it before.
LEMMA MeaningMore ==
  ASSUME NEW q, NEW lines, NEW line, NEW n, Grows(q, lines, line, n), NEW places \in SUBSET (1 .. n),
         line.kind = "set"
  PROVE  Meaning(q, places \cup {n + 1}) = With(Meaning(lines, places), line)
<1> DEFINE more == places \cup {n + 1}
<1>1. n \in Nat /\ q[n + 1] = line /\ line.key \in Keys /\ \A i \in 1 .. n : q[i] = lines[i]
  BY Grown, LineForms
<1>2. \A key : key # line.key => SetAt(q, more, key) = SetAt(lines, places, key)
  BY <1>1 DEF SetAt
<1>3. n + 1 \in SetAt(q, more, line.key) /\ Max(SetAt(q, more, line.key)) = n + 1
  <2>1. SetAt(q, more, line.key) \in SUBSET Nat /\ n + 1 \in SetAt(q, more, line.key)
    <3>1. SetAt(q, more, line.key) \subseteq more /\ more \subseteq Nat
      BY <1>1 DEF SetAt
    <3>2. n + 1 \in SetAt(q, more, line.key)
      BY <1>1 DEF SetAt
    <3>3. QED
      BY <3>1, <3>2
  <2>2. \A y \in SetAt(q, more, line.key) : y <= n + 1
    BY <1>1 DEF SetAt
  <2>3. QED
    BY <2>1, <2>2, MaxIs
<1>4. DOMAIN Meaning(q, more) = DOMAIN Meaning(lines, places) \cup {line.key}
  <2>1. {k \in Keys : SetAt(q, more, k) # {}} = {k \in Keys : SetAt(lines, places, k) # {}} \cup {line.key}
    BY <1>1, <1>2, <1>3
  <2>2. QED
    BY <2>1 DEF Meaning
<1>5. ASSUME NEW key \in DOMAIN Meaning(q, more)
      PROVE  Meaning(q, more)[key] = IF key = line.key THEN line.value ELSE Meaning(lines, places)[key]
  <2>1. Meaning(q, more)[key] = q[Max(SetAt(q, more, key))].value
    BY <1>5 DEF Meaning
  <2>2. CASE key = line.key
    BY <1>1, <1>3, <2>1, <2>2
  <2>3. CASE key # line.key
    <3>1. SetAt(q, more, key) = SetAt(lines, places, key) /\ key \in DOMAIN Meaning(lines, places)
      BY <1>2, <1>4, <2>3
    <3>2. SetAt(lines, places, key) # {} /\ SetAt(lines, places, key) \in SUBSET (1 .. n)
      BY <3>1 DEF Meaning, SetAt
    <3>3. Max(SetAt(lines, places, key)) \in 1 .. n
      BY <1>1, <3>2, MaxIn
    <3>4. Meaning(lines, places)[key] = lines[Max(SetAt(lines, places, key))].value
      BY <3>1 DEF Meaning
    <3>5. QED
      BY <1>1, <2>1, <2>3, <3>1, <3>3, <3>4
  <2>4. QED
    BY <2>2, <2>3
<1>6. Meaning(q, more) = [key \in DOMAIN Meaning(q, more) |-> Meaning(q, more)[key]]
  BY DEF Meaning
<1> HIDE DEF more
<1>7. QED
  BY <1>4, <1>5, <1>6 DEF With, more

\* Places that set nothing mean nothing.
LEMMA MeaningNothing ==
  ASSUME NEW lines, NEW places, \A p \in places : lines[p].kind # "set"
  PROVE  Meaning(lines, places) = << >>
<1>1. \A key : SetAt(lines, places, key) = {}
  BY DEF SetAt
<1>2. DOMAIN Meaning(lines, places) = {} /\ DOMAIN << >> = {}
  BY <1>1, NoSettings DEF Meaning
<1>3. Meaning(lines, places) = [key \in {} |-> Null]
  BY <1>1 DEF Meaning
<1>4. << >> = [key \in {} |-> Null]
  BY NoSettings
<1>5. QED
  BY <1>3, <1>4
-----------------------------------------------------------------------------
(* The entries of a table.                                                 *)

\* The settings of an entry that are not nested deeper.
Own(lines, h, e) == {j \in Extent(lines, h, e) : Depth(lines, h, j) = 2}

\* An entry begins at e, and is open at the end of the lines.
Begins(lines, h, e) == e \in Body(lines, h) /\ lines[e].kind = "edit" /\ Depth(lines, h, e) = 2
OpenFrom(lines, h, e) ==
  Live(lines, h) /\ Begins(lines, h, e) /\ \A k \in e .. Len(lines) : Depth(lines, h, k) >= 2

\* What one more line adds to an entry.
LEMMA OwnGrows ==
  ASSUME NEW q, NEW lines, NEW line, NEW n, Grows(q, lines, line, n),
         NEW h \in 1 .. n, NEW e \in Body(lines, h)
  PROVE  /\ Own(lines, h, e) \in SUBSET (1 .. n)
         /\ OpenFrom(lines, h, e) /\ Depth(q, h, n + 1) = 2 =>
              Own(q, h, e) = Own(lines, h, e) \cup {n + 1}
         /\ Depth(q, h, n + 1) # 2 => Own(q, h, e) = Own(lines, h, e)
         /\ (\E k \in e .. n : Depth(lines, h, k) < 2) => Own(q, h, e) = Own(lines, h, e)
<1>1. /\ n \in Nat /\ Len(lines) = n /\ Len(q) = n + 1
      /\ \A j \in h .. n : Depth(q, h, j) = Depth(lines, h, j) /\ Depth(lines, h, j) \in Int
      /\ Depth(q, h, n + 1) = Depth(lines, h, n) + Change(line)
  BY Grown, Deepens
<1>2. /\ Body(q, h) = Body(lines, h) \cup (IF Live(q, h) THEN {n + 1} ELSE {})
      /\ Body(lines, h) \in SUBSET (h .. n) /\ n + 1 \notin Body(lines, h)
      /\ Live(q, h) <=> Live(lines, h) /\ Depth(lines, h, n) + Change(line) >= 1
  BY BodyGrows
<1>3. e \in h .. n
  BY <1>2
<1>4. ASSUME NEW j \in Body(lines, h) PROVE j \in Own(q, h, e) <=> j \in Own(lines, h, e)
  <2>1. j \in h .. n /\ j \in Body(q, h)
    BY <1>2
  <2>2. \A k \in e .. j : k \in h .. n
    BY <1>1, <1>3, <2>1
  <2>3. Depth(q, h, j) = Depth(lines, h, j) /\ \A k \in e .. j : Depth(q, h, k) = Depth(lines, h, k)
    BY <1>1, <2>1, <2>2
  <2>4. j \in Extent(q, h, e) <=> j \in Extent(lines, h, e)
    BY <2>1, <2>3 DEF Extent
  <2>5. QED
    BY <2>3, <2>4 DEF Own
<1>5. n + 1 \in Own(q, h, e) <=>
        Live(q, h) /\ Depth(q, h, n + 1) = 2 /\ \A k \in e .. n : Depth(lines, h, k) >= 2
  <2>1. n + 1 \in Body(q, h) <=> Live(q, h)
    BY <1>2
  <2>2. n + 1 >= e /\ \A k : k \in e .. n + 1 <=> k \in e .. n \/ k = n + 1
    BY <1>1, <1>3
  <2>3. \A k \in e .. n : Depth(q, h, k) = Depth(lines, h, k)
    BY <1>1, <1>3
  <2>4. (\A k \in e .. n + 1 : Depth(q, h, k) >= 2)
          <=> Depth(q, h, n + 1) >= 2 /\ \A k \in e .. n : Depth(lines, h, k) >= 2
    <3>1. n + 1 \in e .. n + 1
      BY <2>2
    <3>2. QED
      BY <2>2, <2>3, <3>1
  <2>5. n + 1 \in Extent(q, h, e) <=>
          Live(q, h) /\ Depth(q, h, n + 1) >= 2 /\ \A k \in e .. n : Depth(lines, h, k) >= 2
    BY <2>1, <2>2, <2>4 DEF Extent
  <2>6. Depth(q, h, n + 1) = 2 => Depth(q, h, n + 1) >= 2
    OBVIOUS
  <2>7. QED
    BY <2>5, <2>6 DEF Own
<1>6. /\ \A j : j \in Own(q, h, e) => j \in Body(q, h)
      /\ \A j : j \in Own(lines, h, e) => j \in Body(lines, h)
  BY DEF Own, Extent
<1>7. \A j : j \in Own(q, h, e) <=> j \in Own(lines, h, e) \/ (j = n + 1 /\ n + 1 \in Own(q, h, e))
  BY <1>2, <1>4, <1>6
<1>8. Own(lines, h, e) \in SUBSET (1 .. n)
  BY <1>1, <1>2, <1>6
<1>9. OpenFrom(lines, h, e) /\ Depth(q, h, n + 1) = 2 => Own(q, h, e) = Own(lines, h, e) \cup {n + 1}
  <2> SUFFICES ASSUME OpenFrom(lines, h, e), Depth(q, h, n + 1) = 2
               PROVE  n + 1 \in Own(q, h, e)
    BY <1>7
  <2>1. Live(q, h)
    BY <1>1, <1>2 DEF OpenFrom
  <2>2. QED
    BY <1>1, <1>5, <2>1 DEF OpenFrom
<1>10. Depth(q, h, n + 1) # 2 => Own(q, h, e) = Own(lines, h, e)
  BY <1>5, <1>7
<1>11. (\E k \in e .. n : Depth(lines, h, k) < 2) => Own(q, h, e) = Own(lines, h, e)
  <2> SUFFICES ASSUME NEW k \in e .. n, Depth(lines, h, k) < 2 PROVE n + 1 \notin Own(q, h, e)
    BY <1>7
  <2>1. k \in h .. n /\ Depth(lines, h, k) \in Int
    BY <1>1, <1>3
  <2>2. QED
    BY <1>5, <2>1
<1>12. QED
  BY <1>8, <1>9, <1>10, <1>11

\* A complete entry stays as it is.
LEMMA EntryStays ==
  ASSUME NEW q, NEW lines, NEW line, NEW n, Grows(q, lines, line, n),
         NEW h \in 1 .. n, NEW e \in Entries(lines, h)
  PROVE  EntryAt(q, h, e) = EntryAt(lines, h, e)
<1>1. e \in Body(lines, h) /\ e \in 1 .. n
  <2>1. e \in Body(lines, h)
    BY DEF Entries
  <2>2. QED
    BY <2>1, BodyGrows, Grown
<1>2. PICK j \in Body(lines, h) : j > e /\ Depth(lines, h, j) = 1
  BY DEF Entries
<1>3. j \in e .. n /\ Depth(lines, h, j) < 2
  <2>1. j \in h .. n /\ n \in Nat
    BY BodyGrows, Grown
  <2>2. QED
    BY <1>1, <1>2, <2>1
<1>4. Own(q, h, e) = Own(lines, h, e) /\ Own(lines, h, e) \in SUBSET (1 .. n)
  BY <1>1, <1>3, OwnGrows
<1>5. Meaning(q, Own(q, h, e)) = Meaning(lines, Own(lines, h, e))
  BY <1>4, MeaningSame
<1>6. q[e] = lines[e]
  BY <1>1, Grown
<1>7. QED
  BY <1>5, <1>6 DEF EntryAt, Own

\* An open entry has one more setting, if the line is one of its own.
LEMMA EntryGrows ==
  ASSUME NEW q, NEW lines, NEW line, NEW n, Grows(q, lines, line, n),
         NEW h \in 1 .. n, NEW e, OpenFrom(lines, h, e)
  PROVE  /\ EntryAt(q, h, e).name = EntryAt(lines, h, e).name
         /\ EntryAt(q, h, e).data =
              IF line.kind = "set" /\ Depth(q, h, n + 1) = 2
              THEN With(EntryAt(lines, h, e).data, line) ELSE EntryAt(lines, h, e).data
<1>1. e \in Body(lines, h) /\ e \in 1 .. n
  <2>1. e \in Body(lines, h)
    BY DEF OpenFrom, Begins
  <2>2. QED
    BY <2>1, BodyGrows, Grown
<1>2. q[e] = lines[e]
  BY <1>1, Grown
<1>3. /\ Own(lines, h, e) \in SUBSET (1 .. n)
      /\ Depth(q, h, n + 1) = 2 => Own(q, h, e) = Own(lines, h, e) \cup {n + 1}
      /\ Depth(q, h, n + 1) # 2 => Own(q, h, e) = Own(lines, h, e)
  BY <1>1, OwnGrows
<1>4. CASE line.kind = "set" /\ Depth(q, h, n + 1) = 2
  <2>1. Meaning(q, Own(q, h, e)) = With(Meaning(lines, Own(lines, h, e)), line)
    BY <1>3, <1>4, MeaningMore
  <2>2. QED
    BY <1>2, <1>4, <2>1 DEF EntryAt, Own
<1>5. CASE line.kind # "set" /\ Depth(q, h, n + 1) = 2
  <2>1. Meaning(q, Own(q, h, e)) = Meaning(lines, Own(lines, h, e))
    BY <1>3, <1>5, MeaningNoMore
  <2>2. QED
    BY <1>2, <1>5, <2>1 DEF EntryAt, Own
<1>6. CASE Depth(q, h, n + 1) # 2
  <2>1. Meaning(q, Own(q, h, e)) = Meaning(lines, Own(lines, h, e))
    BY <1>3, <1>6, MeaningSame
  <2>2. QED
    BY <1>2, <1>6, <2>1 DEF EntryAt, Own
<1>7. QED
  BY <1>4, <1>5, <1>6

\* An entry that begins is open and has no settings.
LEMMA EntryBegins ==
  ASSUME NEW q, NEW lines, NEW line, NEW n, Grows(q, lines, line, n),
         NEW h \in 1 .. n, Live(lines, h), line.kind = "edit", Depth(q, h, n + 1) = 2
  PROVE  OpenFrom(q, h, n + 1) /\ EntryAt(q, h, n + 1) = [name |-> line.key, data |-> << >>]
<1>1. /\ n \in Nat /\ Len(q) = n + 1 /\ q[n + 1] = line
      /\ Depth(q, h, n + 1) = Depth(lines, h, n) + Change(line)
  BY Grown, Deepens
<1>2. Live(q, h) /\ n + 1 \in Body(q, h) /\ Body(q, h) \in SUBSET (h .. n + 1)
  BY <1>1, BodyGrows
<1>3. \A k \in n + 1 .. n + 1 : k = n + 1
  BY <1>1
<1>4. OpenFrom(q, h, n + 1)
  BY <1>1, <1>2, <1>3 DEF OpenFrom, Begins
<1>5. \A j \in Own(q, h, n + 1) : j = n + 1
  <2>1. \A j \in Own(q, h, n + 1) : j \in Body(q, h) /\ j >= n + 1
    BY DEF Own, Extent
  <2>2. QED
    BY <1>1, <1>2, <2>1
<1>6. Meaning(q, Own(q, h, n + 1)) = << >>
  BY <1>1, <1>5, MeaningNothing
<1>7. QED
  BY <1>1, <1>4, <1>6 DEF EntryAt, Own

\* The entries after one more line.
LEMMA EntriesGrow ==
  ASSUME NEW q, NEW lines, NEW line, NEW n, Grows(q, lines, line, n),
         NEW h \in 1 .. n
  PROVE  /\ Entries(lines, h) \in SUBSET (1 .. n) /\ Entries(lines, h) \subseteq Entries(q, h)
         /\ \A e : e \in Entries(q, h) \ Entries(lines, h) <=>
              /\ Begins(lines, h, e) /\ e \notin Entries(lines, h)
              /\ Live(q, h) /\ Depth(q, h, n + 1) = 1
<1>1. /\ n \in Nat /\ Len(lines) = n /\ Len(q) = n + 1
      /\ \A j \in h .. n : Depth(q, h, j) = Depth(lines, h, j)
      /\ \A i \in 1 .. n : q[i] = lines[i]
  BY Grown, Deepens
<1>2. /\ Body(q, h) = Body(lines, h) \cup (IF Live(q, h) THEN {n + 1} ELSE {})
      /\ Body(lines, h) \in SUBSET (h .. n) /\ n + 1 \notin Body(lines, h)
  BY BodyGrows
<1>3. \A e : e \in Entries(lines, h) <=>
        Begins(lines, h, e) /\ \E j \in Body(lines, h) : j > e /\ Depth(lines, h, j) = 1
  BY DEF Entries, Begins
<1>4. \A e : e \in Entries(q, h) <=>
        Begins(q, h, e) /\ \E j \in Body(q, h) : j > e /\ Depth(q, h, j) = 1
  BY DEF Entries, Begins
<1>5. ASSUME NEW e \in Body(lines, h)
      PROVE  /\ Begins(q, h, e) <=> Begins(lines, h, e)
             /\ (\E j \in Body(q, h) : j > e /\ Depth(q, h, j) = 1) <=>
                  \/ \E j \in Body(lines, h) : j > e /\ Depth(lines, h, j) = 1
                  \/ Live(q, h) /\ Depth(q, h, n + 1) = 1
  <2>1. e \in h .. n /\ e \in 1 .. n /\ n + 1 > e
    BY <1>1, <1>2
  <2>2. Begins(q, h, e) <=> Begins(lines, h, e)
    BY <1>1, <1>2, <2>1 DEF Begins
  <2>3. \A j \in Body(lines, h) : Depth(q, h, j) = Depth(lines, h, j)
    BY <1>1, <1>2
  <2>4. QED
    BY <1>2, <2>1, <2>2, <2>3
<1>6. \A e : (Begins(lines, h, e) => e \in Body(lines, h)) /\ (Begins(q, h, e) => e \in Body(q, h))
  BY DEF Begins
<1>7. n + 1 \notin Entries(q, h)
  <2>1. \A j \in Body(q, h) : j <= n + 1 /\ ~(j > n + 1)
    BY <1>1, <1>2
  <2>2. QED
    BY <1>4, <2>1
<1>8. \A e : e \in Entries(q, h) <=>
        Begins(lines, h, e) /\ (e \in Entries(lines, h) \/ (Live(q, h) /\ Depth(q, h, n + 1) = 1))
  <2> TAKE e
  <2>1. CASE e \in Body(lines, h)
    BY <1>3, <1>4, <1>5, <2>1
  <2>2. CASE e \notin Body(lines, h)
    BY <1>2, <1>4, <1>6, <1>7, <2>2
  <2>3. QED
    BY <2>1, <2>2
<1>9. Entries(lines, h) \in SUBSET (1 .. n)
  BY <1>1, <1>2, <1>3, <1>6
<1>10. QED
  BY <1>3, <1>8, <1>9

\* Entries follow each other: one that begins before another is complete.
LEMMA EntriesFollow ==
  ASSUME NEW lines \in Seq(Lines), NEW h \in 1 .. Len(lines), lines[h].kind = "config",
         NEW e, NEW f, Begins(lines, h, e), Begins(lines, h, f), e < f
  PROVE  e \in Entries(lines, h)
<1>1. /\ e \in Body(lines, h) /\ f \in Body(lines, h) /\ e \in Nat /\ f \in Nat
      /\ lines[e].kind = "edit" /\ lines[f].kind = "edit" /\ f # h
      /\ Depth(lines, h, e) = 2 /\ Depth(lines, h, f) = 2
  BY InBody DEF Begins
<1>2. f - 1 \in Body(lines, h) /\ Depth(lines, h, f) = Depth(lines, h, f - 1) + Change(lines[f])
      /\ Depth(lines, h, f - 1) \in Nat
  BY <1>1, InBody
<1>3. Change(lines[f]) = 1
  BY <1>1 DEF Change
<1>4. Depth(lines, h, f - 1) = 1
  BY <1>1, <1>2, <1>3
<1>5. f - 1 # e
  BY <1>1, <1>4
<1>6. f - 1 > e
  BY <1>1, <1>5
<1>7. QED
  BY <1>1, <1>2, <1>4, <1>6 DEF Entries

\* Every place has an entry.
Ranked(lines, h) ==
  /\ IsFiniteSet(Entries(lines, h)) /\ Cardinality(Entries(lines, h)) \in Nat
  /\ \A e \in Entries(lines, h) : Place(lines, h, e) \in 1 .. Cardinality(Entries(lines, h))
  /\ \A m \in 1 .. Cardinality(Entries(lines, h)) : \E e \in Entries(lines, h) : Place(lines, h, e) = m

\* An entry that is complete now comes after the others, which stay in place.
LEMMA PlacesGrow ==
  ASSUME NEW q, NEW lines, NEW line, NEW n, Grows(q, lines, line, n),
         NEW h \in 1 .. n, lines[h].kind = "config", Ranked(lines, h),
         NEW e \in Entries(q, h) \ Entries(lines, h)
  PROVE  /\ Entries(q, h) = Entries(lines, h) \cup {e}
         /\ \A f \in Entries(lines, h) : Place(q, h, f) = Place(lines, h, f)
         /\ Cardinality(Entries(q, h)) = Cardinality(Entries(lines, h)) + 1
         /\ Place(q, h, e) = Cardinality(Entries(lines, h)) + 1
         /\ Ranked(q, h)
<1> DEFINE E == Entries(lines, h)
           c == Cardinality(E)
<1>1. lines \in Seq(Lines) /\ h \in 1 .. Len(lines) /\ n \in Nat
  BY Grown
<1>2. /\ E \in SUBSET (1 .. n) /\ E \subseteq Entries(q, h)
      /\ \A f : f \in Entries(q, h) \ E <=>
           Begins(lines, h, f) /\ f \notin E /\ Live(q, h) /\ Depth(q, h, n + 1) = 1
  BY EntriesGrow
<1>3. \A f \in E : Begins(lines, h, f)
  BY DEF Entries, Begins
<1>4. \A f : Begins(lines, h, f) => f \in Nat
  BY <1>1, InBody DEF Begins
<1>5. \A f \in E : f < e
  <2> SUFFICES ASSUME NEW f \in E PROVE f < e
    OBVIOUS
  <2>1. Begins(lines, h, f) /\ Begins(lines, h, e) /\ f \in Nat /\ e \in Nat /\ e \notin E
    BY <1>2, <1>3, <1>4
  <2>2. ~(e < f)
    BY <1>1, <2>1, EntriesFollow
  <2>3. e # f
    BY <2>1
  <2>4. QED
    BY <2>1, <2>2, <2>3
<1>6. Entries(q, h) = E \cup {e}
  <2> SUFFICES ASSUME NEW f \in Entries(q, h), f \notin E PROVE f = e
    BY <1>2
  <2>1. Begins(lines, h, f) /\ Begins(lines, h, e) /\ f \in Nat /\ e \in Nat /\ e \notin E
    BY <1>2, <1>4
  <2>2. ~(e < f) /\ ~(f < e)
    BY <1>1, <2>1, EntriesFollow
  <2>3. QED
    BY <2>1, <2>2
<1>7. IsFiniteSet(E) /\ c \in Nat /\ e \notin E
  BY DEF Ranked
<1>8. IsFiniteSet(Entries(q, h)) /\ Cardinality(Entries(q, h)) = c + 1
  BY <1>6, <1>7, FS_AddElement
<1>9. ASSUME NEW f \in E PROVE Place(q, h, f) = Place(lines, h, f)
  <2>1. f \in Nat /\ e \in Nat /\ f < e
    BY <1>2, <1>3, <1>4, <1>5
  <2>2. {g \in Entries(q, h) : g <= f} = {g \in E : g <= f}
    BY <1>6, <2>1
  <2>3. QED
    BY <2>2 DEF Place
<1>10. Place(q, h, e) = c + 1
  <2>1. e \in Nat /\ \A f \in E : f \in Nat
    BY <1>2, <1>4
  <2>2. {g \in Entries(q, h) : g <= e} = Entries(q, h)
    BY <1>5, <1>6, <2>1
  <2>3. QED
    BY <1>8, <2>2 DEF Place
<1>11. Ranked(q, h)
  <2>1. \A f \in E : Place(lines, h, f) \in 1 .. c
    BY DEF Ranked
  <2>2. \A m \in 1 .. c : \E f \in E : Place(lines, h, f) = m
    BY DEF Ranked
  <2> HIDE DEF c, E
  <2>3. \A f \in Entries(q, h) : Place(q, h, f) \in 1 .. c + 1
    BY <1>6, <1>7, <1>9, <1>10, <2>1
  <2>4. \A m \in 1 .. c + 1 : \E f \in Entries(q, h) : Place(q, h, f) = m
    <3> TAKE m \in 1 .. c + 1
    <3>1. CASE m = c + 1
      BY <1>6, <1>10, <3>1
    <3>2. CASE m # c + 1
      <4>1. m \in 1 .. c
        BY <1>7, <3>2
      <4>2. QED
        BY <1>6, <1>9, <2>2, <4>1
    <3>3. QED
      BY <3>1, <3>2
  <2>5. QED
    BY <1>7, <1>8, <2>3, <2>4 DEF Ranked
<1>12. QED
  BY <1>6, <1>8, <1>9, <1>10, <1>11
-----------------------------------------------------------------------------
(* What is nested.                                                         *)

\* Simple, Plain and NestedKeys, for one header.
SimpleAt(lines, h) == \A j \in Body(lines, h) : lines[j].kind = "edit" => Depth(lines, h, j) = 2
PlainAt(lines, h) == \A j \in Body(lines, h) : lines[j].kind = "config" => j = h
DeepAt(lines, h) == {j \in Body(lines, h) : lines[j].kind = "set" /\ Depth(lines, h, j) > 2}
NestedAt(lines, h) == {lines[j].key : j \in DeepAt(lines, h)}

\* What one more line changes of them.
LEMMA NestingGrows ==
  ASSUME NEW q, NEW lines, NEW line, NEW n, Grows(q, lines, line, n), NEW h \in 1 .. n
  PROVE  /\ SimpleAt(q, h) <=>
              SimpleAt(lines, h) /\ (Live(q, h) /\ line.kind = "edit" => Depth(q, h, n + 1) = 2)
         /\ PlainAt(q, h) <=> PlainAt(lines, h) /\ (Live(q, h) => line.kind # "config")
         /\ NestedAt(lines, h) \subseteq NestedAt(q, h)
         /\ Live(q, h) /\ line.kind = "set" /\ Depth(q, h, n + 1) > 2 => line.key \in NestedAt(q, h)
<1>1. /\ n \in Nat /\ q[n + 1] = line /\ \A i \in 1 .. n : q[i] = lines[i]
      /\ \A j \in h .. n : Depth(q, h, j) = Depth(lines, h, j)
  BY Grown, Deepens
<1>2. /\ Body(q, h) = Body(lines, h) \cup (IF Live(q, h) THEN {n + 1} ELSE {})
      /\ Body(lines, h) \in SUBSET (h .. n) /\ n + 1 \notin Body(lines, h)
  BY BodyGrows
<1>3. \A j \in Body(lines, h) : q[j] = lines[j] /\ Depth(q, h, j) = Depth(lines, h, j)
  BY <1>1, <1>2
<1>4. SimpleAt(q, h) <=>
        SimpleAt(lines, h) /\ (Live(q, h) /\ line.kind = "edit" => Depth(q, h, n + 1) = 2)
  BY <1>1, <1>2, <1>3 DEF SimpleAt
<1>5. n + 1 # h
  BY <1>1
<1>6. PlainAt(q, h) <=> PlainAt(lines, h) /\ (Live(q, h) => line.kind # "config")
  BY <1>1, <1>2, <1>3, <1>5 DEF PlainAt
<1>7. DeepAt(lines, h) \subseteq DeepAt(q, h)
  BY <1>2, <1>3 DEF DeepAt
<1>8. \A j \in DeepAt(lines, h) : q[j].key = lines[j].key
  BY <1>3 DEF DeepAt
<1>9. NestedAt(lines, h) \subseteq NestedAt(q, h)
  BY <1>7, <1>8 DEF NestedAt
<1>10. Live(q, h) /\ line.kind = "set" /\ Depth(q, h, n + 1) > 2 => line.key \in NestedAt(q, h)
  <2> SUFFICES ASSUME Live(q, h), line.kind = "set", Depth(q, h, n + 1) > 2
               PROVE  line.key \in NestedAt(q, h)
    OBVIOUS
  <2>1. n + 1 \in DeepAt(q, h)
    BY <1>1, <1>2 DEF DeepAt
  <2>2. QED
    BY <1>1, <2>1 DEF NestedAt
<1>11. QED
  BY <1>4, <1>6, <1>9, <1>10

\* While no entry is nested in another, all are unspoilt; then no more are.
LEMMA UnspoiltGrow ==
  ASSUME NEW q, NEW lines, NEW line, NEW n, Grows(q, lines, line, n),
         NEW h \in 1 .. n, lines[h].kind = "config"
  PROVE  /\ SimpleAt(lines, h) => Unspoilt(lines, h) = Entries(lines, h)
         /\ SimpleAt(q, h) => Unspoilt(q, h) = Entries(q, h)
         /\ ~SimpleAt(q, h) => Unspoilt(q, h) = Unspoilt(lines, h)
         /\ SimpleAt(lines, h) /\ ~SimpleAt(q, h) => Entries(q, h) = Entries(lines, h)
<1>1. /\ n \in Nat /\ Len(lines) = n /\ Len(q) = n + 1 /\ q[n + 1] = line
      /\ lines \in Seq(Lines) /\ q \in Seq(Lines) /\ line \in Lines
      /\ \A i \in 1 .. n : q[i] = lines[i]
      /\ \A j \in h .. n : Depth(q, h, j) = Depth(lines, h, j)
      /\ Depth(q, h, n + 1) = Depth(lines, h, n) + Change(line)
  BY Grown, Deepens
<1>2. /\ Body(q, h) = Body(lines, h) \cup (IF Live(q, h) THEN {n + 1} ELSE {})
      /\ Body(lines, h) \in SUBSET (h .. n) /\ n + 1 \notin Body(lines, h)
      /\ Live(q, h) <=> Live(lines, h) /\ Depth(lines, h, n) + Change(line) >= 1
  BY BodyGrows
<1>3. \A j \in Body(lines, h) : q[j] = lines[j] /\ Depth(q, h, j) = Depth(lines, h, j)
  BY <1>1, <1>2
<1>4. h \in 1 .. Len(lines) /\ h \in 1 .. Len(q) /\ h \in h .. n
  BY <1>1
<1>5. /\ \A j \in Body(lines, h) : Depth(lines, h, j) \in Nat
      /\ \A j \in Body(lines, h) : \A k \in h .. j : k \in Body(lines, h)
  BY <1>1, <1>4, InBody
<1>6. ASSUME SimpleAt(lines, h) PROVE Unspoilt(lines, h) = Entries(lines, h)
  <2>1. \A j \in Body(lines, h) : lines[j].kind = "edit" => ~(Depth(lines, h, j) > 2)
    BY <1>6 DEF SimpleAt
  <2>2. QED
    BY <2>1 DEF Unspoilt
<1>7. ASSUME SimpleAt(q, h) PROVE Unspoilt(q, h) = Entries(q, h)
  <2>1. \A j \in Body(q, h) : q[j].kind = "edit" => ~(Depth(q, h, j) > 2)
    BY <1>7 DEF SimpleAt
  <2>2. QED
    BY <2>1 DEF Unspoilt
<1>8. /\ Entries(lines, h) \subseteq Entries(q, h)
      /\ \A e : e \in Entries(q, h) \ Entries(lines, h) <=>
           Begins(lines, h, e) /\ e \notin Entries(lines, h) /\ Live(q, h) /\ Depth(q, h, n + 1) = 1
  BY EntriesGrow
<1>9. ASSUME SimpleAt(lines, h), ~SimpleAt(q, h) PROVE Entries(q, h) = Entries(lines, h)
  <2>1. Live(q, h) /\ Depth(q, h, n + 1) # 2 /\ line.kind = "edit"
    BY <1>9, NestingGrows
  <2>2. Live(lines, h) /\ Depth(lines, h, n) >= 1 /\ Change(line) = 1 /\ Depth(lines, h, n) \in Int
    BY <1>1, <1>2, <1>4, <2>1, Deepens DEF Live, Change
  <2>3. Depth(q, h, n + 1) # 1
    BY <1>1, <2>2
  <2>4. QED
    BY <1>8, <2>3
<1>10. ASSUME NEW e \in Unspoilt(lines, h) PROVE e \in Unspoilt(q, h)
  <2>1. e \in Entries(lines, h) /\ e \in Entries(q, h)
    BY <1>8 DEF Unspoilt
  <2>2. PICK i \in Body(lines, h) : i > e /\ Depth(lines, h, i) = 1
    BY <2>1 DEF Entries
  <2>3. e \in Body(lines, h) /\ e \in h .. n /\ i \in h .. n /\ i \in e .. n + 1
    BY <1>1, <1>2, <2>1, <2>2 DEF Entries
  <2>4. Depth(q, h, i) = 1
    BY <1>3, <2>2
  <2>5. ASSUME NEW j \in Body(q, h), q[j].kind = "edit", Depth(q, h, j) > 2
        PROVE  \E k \in e .. j : Depth(q, h, k) = 1
    <3>1. CASE j = n + 1
      BY <2>3, <2>4, <3>1
    <3>2. CASE j \in Body(lines, h)
      <4>1. lines[j].kind = "edit" /\ Depth(lines, h, j) > 2
        BY <1>3, <2>5, <3>2
      <4>2. PICK k \in e .. j : Depth(lines, h, k) = 1
        BY <3>2, <4>1 DEF Unspoilt
      <4>3. k \in h .. n
        BY <1>1, <1>2, <2>3, <3>2
      <4>4. QED
        BY <1>1, <4>2, <4>3
    <3>3. QED
      BY <1>2, <3>1, <3>2
  <2>6. QED
    BY <2>1, <2>5 DEF Unspoilt
<1>11. ASSUME ~SimpleAt(q, h), NEW e \in Unspoilt(q, h) PROVE e \in Unspoilt(lines, h)
  <2>1. e \in Entries(q, h)
    BY DEF Unspoilt
  <2>2. e \in Entries(lines, h)
    <3>1. CASE SimpleAt(lines, h)
      BY <1>9, <1>11, <2>1, <3>1
    <3>2. CASE ~SimpleAt(lines, h)
      <4>1. PICK j \in Body(lines, h) : lines[j].kind = "edit" /\ Depth(lines, h, j) # 2
        BY <3>2 DEF SimpleAt
      <4>2. Depth(lines, h, j) > 2
        <5>1. j # h /\ Change(lines[j]) = 1
          BY <4>1 DEF Change
        <5>2. j - 1 \in Body(lines, h) /\ Depth(lines, h, j) = Depth(lines, h, j - 1) + Change(lines[j])
          BY <1>1, <1>4, <5>1, InBody
        <5>3. Depth(lines, h, j - 1) \in Nat /\ Depth(lines, h, j - 1) >= 1 /\ Depth(lines, h, j) \in Nat
          BY <1>1, <1>4, <5>2, InBody
        <5>4. QED
          BY <4>1, <5>1, <5>2, <5>3
      <4>3. j \in Body(q, h) /\ q[j].kind = "edit" /\ Depth(q, h, j) > 2
        BY <1>2, <1>3, <4>1, <4>2
      <4>4. PICK k \in e .. j : Depth(q, h, k) = 1
        BY <4>3 DEF Unspoilt
      <4>5. CASE e \in Entries(lines, h)
        BY <4>5
      <4>6. CASE Begins(lines, h, e)
        <5>1. e \in Body(lines, h) /\ Depth(lines, h, e) = 2 /\ lines[e].kind = "edit" /\ e \in h .. n
          BY <1>2, <4>6 DEF Begins
        <5>2. k \in h .. j /\ k \in h .. n
          BY <1>1, <1>2, <5>1
        <5>3. Depth(lines, h, k) = 1 /\ k \in Body(lines, h)
          BY <1>1, <1>5, <4>4, <5>2
        <5>4. k > e
          BY <5>1, <5>2, <5>3
        <5>5. QED
          BY <5>1, <5>3, <5>4 DEF Entries
      <4>7. QED
        BY <1>8, <2>1, <4>5, <4>6
    <3>3. QED
      BY <3>1, <3>2
  <2>3. e \in h .. n
    BY <1>2, <2>2 DEF Entries
  <2>4. ASSUME NEW j \in Body(lines, h), lines[j].kind = "edit", Depth(lines, h, j) > 2
        PROVE  \E k \in e .. j : Depth(lines, h, k) = 1
    <3>1. j \in Body(q, h) /\ q[j].kind = "edit" /\ Depth(q, h, j) > 2
      BY <1>2, <1>3, <2>4
    <3>2. PICK k \in e .. j : Depth(q, h, k) = 1
      BY <3>1 DEF Unspoilt
    <3>3. k \in h .. n
      BY <1>1, <1>2, <2>3
    <3>4. QED
      BY <1>1, <3>2, <3>3
  <2>5. QED
    BY <2>2, <2>4 DEF Unspoilt
<1>12. ASSUME ~SimpleAt(q, h) PROVE Unspoilt(q, h) = Unspoilt(lines, h)
  BY <1>10, <1>11, <1>12
<1>13. QED
  BY <1>6, <1>7, <1>9, <1>12
-----------------------------------------------------------------------------
(* What is open.                                                           *)

Opens == Seq(Sections \cup {"edit"})

\* The device adds a line where o is open, and leaves o2 open.
Writes(o, line, o2) ==
  \/ /\ line.kind = "config" /\ o2 = Append(o, line.key)
     /\ o = << >> \/ o[Len(o)] \in Foreign \cup {"edit"}
  \/ /\ line.kind = "edit" /\ o2 = Append(o, "edit")
     /\ o # << >> /\ o[Len(o)] \in Tables \cup Foreign
  \/ /\ line.kind = "set" /\ o2 = o
     /\ o # << >> /\ o[Len(o)] \in Flats \cup Foreign \cup {"edit"}
  \/ /\ line.kind = "next" /\ o2 = Front(o)
     /\ o # << >> /\ o[Len(o)] = "edit"
  \/ /\ line.kind = "end" /\ o2 = Front(o)
     /\ o # << >> /\ o[Len(o)] \in Sections

\* Section s is open at depth d: nothing is open in settings, and in a table
\* an entry; no other entry is, if the table is simple.
Sits(o, s, d, simple) ==
  /\ d \in 1 .. Len(o) /\ o[Len(o) - d + 1] = s
  /\ s \in Flats => d = 1
  /\ s \in Tables /\ d >= 2 => o[Len(o) - d + 2] = "edit"
  /\ s \in Tables /\ simple => \A m \in Len(o) - d + 3 .. Len(o) : o[m] # "edit"

\* What is open after a line.
LEMMA OpensTyped ==
  ASSUME NEW o \in Opens, NEW line \in Lines, NEW o2, Writes(o, line, o2)
  PROVE  /\ o2 \in Opens /\ Len(o) \in Nat /\ Len(o2) = Len(o) + Change(line)
         /\ \A m \in 1 .. Len(o) : m <= Len(o2) => o2[m] = o[m]
         /\ line.kind = "config" => o2[Len(o2)] = line.key
         /\ line.kind = "edit" => o2[Len(o2)] = "edit"
<1>1. o # << >> => /\ Front(o) \in Opens /\ Len(Front(o)) = Len(o) - 1
                   /\ \A m \in 1 .. Len(o) - 1 : Front(o)[m] = o[m]
  <2> SUFFICES ASSUME o # << >>
               PROVE  /\ Front(o) \in Opens /\ Len(Front(o)) = Len(o) - 1
                      /\ \A m \in 1 .. Len(o) - 1 : Front(o)[m] = o[m]
    OBVIOUS
  <2>1. PICK n \in Nat : n = Len(o) - 1 /\ n + 1 = Len(o)
    BY DEF Opens
  <2>2. \A m \in 1 .. n : o[m] \in Sections \cup {"edit"}
    BY <2>1 DEF Opens
  <2>3. SubSeq(o, 1, n) = [m \in 1 .. n |-> o[m]]
    BY <2>1, <2>2
  <2>4. QED
    BY <2>1, <2>2, <2>3 DEF Front, Opens
<1>2. Len(o) \in Nat
  BY DEF Opens
<1>3. CASE line.kind = "config"
  <2>1. line.key \in Sections /\ o2 = Append(o, line.key) /\ Change(line) = 1
    BY <1>3, LineForms DEF Writes, Change
  <2>2. QED
    BY <1>2, <1>3, <2>1 DEF Opens
<1>4. CASE line.kind = "edit"
  <2>1. o2 = Append(o, "edit") /\ Change(line) = 1
    BY <1>4 DEF Writes, Change
  <2>2. QED
    BY <1>2, <1>4, <2>1 DEF Opens
<1>5. CASE line.kind = "set"
  <2>1. o2 = o /\ Change(line) = 0
    BY <1>5 DEF Writes, Change
  <2>2. QED
    BY <1>2, <1>5, <2>1
<1>6. CASE line.kind = "next" \/ line.kind = "end"
  <2>1. o2 = Front(o) /\ Change(line) = -1 /\ o # << >>
    BY <1>6 DEF Writes, Change
  <2>2. Len(o2) = Len(o) + Change(line)
    BY <1>1, <1>2, <2>1
  <2>3. \A m \in 1 .. Len(o) : m <= Len(o2) => o2[m] = o[m]
    BY <1>1, <1>2, <2>1
  <2>4. QED
    BY <1>1, <1>2, <1>6, <2>1, <2>2, <2>3
<1>7. QED
  BY <1>3, <1>4, <1>5, <1>6, LineForms

\* Which lines there can be at a depth, and where the section sits after them.
LEMMA SitsStep ==
  ASSUME BackupAssumption,
         NEW o \in Opens, NEW line \in Lines, NEW o2, Writes(o, line, o2),
         NEW s \in Read, NEW d \in Nat, NEW simple \in BOOLEAN, NEW simple2 \in BOOLEAN,
         Sits(o, s, d, simple), simple2 => simple,
         line.kind = "edit" /\ d >= 2 => ~simple2
  PROVE  /\ s \in Flats => line.kind \in {"set", "end"} /\ d = 1
         /\ s \in Tables /\ d = 1 => line.kind \in {"edit", "end"}
         /\ s \in Tables /\ d = 2 => line.kind \in {"set", "config", "next"}
         /\ s \in Tables /\ d > 2 /\ simple => line.kind # "next"
         /\ d + Change(line) >= 1 => Sits(o2, s, d + Change(line), simple2)
<1>1. /\ Tables \cap Flats = {} /\ Read \cap Foreign = {} /\ s \in Sections
      /\ Tables \subseteq Sections /\ Flats \subseteq Sections /\ Foreign \subseteq Sections
      /\ "edit" \notin Sections
      /\ s # "edit" /\ s \notin Foreign /\ (s \in Tables \/ s \in Flats)
  BY DEF BackupAssumption, Read, Sections
<1>2. PICK n \in Nat : n = Len(o) /\ d \in 1 .. n
  BY DEF Opens, Sits
<1>3. /\ o2 \in Opens /\ Len(o2) = n + Change(line)
      /\ \A m \in 1 .. n : m <= Len(o2) => o2[m] = o[m]
      /\ line.kind = "config" => o2[Len(o2)] = line.key
      /\ line.kind = "edit" => o2[Len(o2)] = "edit"
  BY <1>2, OpensTyped
<1>4. /\ o[n - d + 1] = s
      /\ s \in Flats => d = 1
      /\ s \in Tables /\ d >= 2 => o[n - d + 2] = "edit"
      /\ s \in Tables /\ simple => \A m \in n - d + 3 .. n : o[m] # "edit"
  BY <1>2 DEF Sits
<1>5. line.kind \in {"config", "edit", "set", "next", "end"} /\ o # << >>
  BY <1>2, LineForms
<1>6. d = 1 => o[n] = s
  BY <1>2, <1>4
<1>7. s \in Tables /\ d = 2 => o[n] = "edit"
  BY <1>2, <1>4
<1>8. s \in Tables /\ d > 2 /\ simple => o[n] # "edit"
  BY <1>2, <1>4
<1>9. /\ s \in Flats => line.kind \in {"set", "end"} /\ d = 1
      /\ s \in Tables /\ d = 1 => line.kind \in {"edit", "end"}
  BY <1>1, <1>2, <1>4, <1>5, <1>6 DEF Writes
<1>10. s \in Tables /\ d = 2 => line.kind \in {"set", "config", "next"}
  BY <1>1, <1>2, <1>5, <1>7 DEF Writes
<1>11. s \in Tables /\ d > 2 /\ simple => line.kind # "next"
  BY <1>2, <1>8 DEF Writes
<1>12. ASSUME d + Change(line) >= 1 PROVE Sits(o2, s, d + Change(line), simple2)
  <2>1. PICK d2 \in Nat, n2 \in Nat :
          d2 = d + Change(line) /\ n2 = n + Change(line) /\ n2 - d2 = n - d /\ n2 = Len(o2) /\ d2 \in 1 .. n2
    <3>1. Change(line) \in {-1, 0, 1}
      BY Changes
    <3>2. d + Change(line) \in Nat /\ n + Change(line) \in Nat
      BY <1>2, <1>12, <3>1
    <3>3. (n + Change(line)) - (d + Change(line)) = n - d /\ d + Change(line) \in 1 .. n + Change(line)
      BY <1>2, <1>12, <3>1
    <3>4. QED
      BY <1>3, <3>2, <3>3
  <2>2. o2[n2 - d2 + 1] = s
    <3>1. n - d + 1 \in 1 .. n /\ n2 - d2 + 1 = n - d + 1 /\ n - d + 1 <= n2
      BY <1>2, <2>1
    <3>2. QED
      BY <1>3, <1>4, <2>1, <3>1
  <2>3. ASSUME s \in Flats PROVE d2 = 1
    <3>1. Change(line) \in {0, -1} /\ d = 1
      BY <1>9, <2>3 DEF Change
    <3>2. QED
      BY <2>1, <3>1
  <2>4. ASSUME s \in Tables, d2 >= 2 PROVE o2[n2 - d2 + 2] = "edit"
    <3>1. CASE d = 1
      <4>1. line.kind = "edit"
        <5>1. line.kind = "end" => Change(line) = -1
          BY DEF Change
        <5>2. QED
          BY <1>9, <2>1, <2>4, <3>1, <5>1
      <4>2. Change(line) = 1
        BY <4>1 DEF Change
      <4>3. n2 - d2 + 2 = n2
        BY <1>2, <2>1, <3>1, <4>2
      <4>4. QED
        BY <1>3, <2>1, <4>1, <4>3
    <3>2. CASE d >= 2
      <4>1. n - d + 2 \in 1 .. n /\ n2 - d2 + 2 = n - d + 2 /\ n - d + 2 <= n2
        BY <1>2, <2>1, <2>4, <3>2
      <4>2. QED
        BY <1>3, <1>4, <2>1, <2>4, <3>2, <4>1
    <3>3. QED
      BY <1>2, <3>1, <3>2
  <2>5. ASSUME s \in Tables, simple2, NEW m \in n2 - d2 + 3 .. n2 PROVE o2[m] # "edit"
    <3>1. CASE m <= n
      <4>1. m \in n - d + 3 .. n /\ m \in 1 .. n /\ m <= n2
        BY <1>2, <2>1, <3>1
      <4>2. QED
        BY <1>3, <1>4, <2>1, <2>5, <4>1
    <3>2. CASE m > n
      <4>1. m = n2 /\ Change(line) = 1 /\ d >= 2
        <5>1. Change(line) \in {-1, 0, 1}
          BY Changes
        <5>2. QED
          BY <1>2, <2>1, <3>2, <5>1
      <4>2. line.kind = "config"
        BY <2>5, <4>1, Changes
      <4>3. line.key \in Sections
        BY <4>2, LineForms
      <4>4. QED
        BY <1>1, <1>3, <2>1, <4>1, <4>2, <4>3
    <3>3. QED
      BY <1>2, <2>1, <3>1, <3>2
  <2>6. QED
    BY <2>1, <2>2, <2>3, <2>4, <2>5 DEF Sits
<1>13. QED
  BY <1>9, <1>10, <1>11, <1>12
-----------------------------------------------------------------------------
(* Settings are read right.                                                *)

\* The lines that are directly in the section.
Direct(lines, h) == {j \in Body(lines, h) : Depth(lines, h, j) = 1}

FlatRead(st, lines, h) ==
  /\ st.inside
  /\ st.over <=> ~Live(lines, h)
  /\ st.data = Meaning(lines, Direct(lines, h))

\* One more line of settings that have not ended, or anything after their end.
LEMMA FlatStep ==
  ASSUME NEW s, NEW q, NEW lines, NEW line, NEW n, Grows(q, lines, line, n), NEW h \in 1 .. n,
         NEW st \in States, FlatRead(st, lines, h), line # Config(s),
         Live(lines, h) => Depth(lines, h, n) = 1 /\ line.kind \in {"set", "end"}
  PROVE  FlatRead(FlatLine(s, st, line), q, h)
<1>1. /\ n \in Nat /\ line \in Lines
      /\ \A j \in h .. n : Depth(q, h, j) = Depth(lines, h, j)
      /\ Depth(q, h, n + 1) = Depth(lines, h, n) + Change(line)
  BY Grown, Deepens
<1>2. /\ Body(q, h) = Body(lines, h) \cup (IF Live(q, h) THEN {n + 1} ELSE {})
      /\ Body(lines, h) \in SUBSET (h .. n) /\ n + 1 \notin Body(lines, h)
      /\ Live(q, h) <=> Live(lines, h) /\ Depth(lines, h, n) + Change(line) >= 1
  BY BodyGrows
<1>3. \A j \in Body(lines, h) : Depth(q, h, j) = Depth(lines, h, j)
  BY <1>1, <1>2
<1>4. Direct(lines, h) \in SUBSET (1 .. n)
  BY <1>1, <1>2 DEF Direct
<1>5. CASE ~Live(lines, h)
  <2>1. ~Live(q, h) /\ Direct(q, h) = Direct(lines, h)
    BY <1>2, <1>3, <1>5 DEF Direct
  <2>2. FlatLine(s, st, line) = st
    BY <1>5 DEF FlatLine, FlatRead
  <2>3. Meaning(q, Direct(q, h)) = Meaning(lines, Direct(lines, h))
    BY <1>4, <2>1, MeaningSame
  <2>4. QED
    BY <1>5, <2>1, <2>2, <2>3 DEF FlatRead
<1>6. CASE Live(lines, h) /\ line.kind = "set"
  <2>1. Change(line) = 0 /\ Depth(lines, h, n) = 1
    BY <1>6 DEF Change
  <2>2. Live(q, h) /\ Depth(q, h, n + 1) = 1
    BY <1>1, <1>2, <1>6, <2>1
  <2>3. Direct(q, h) = Direct(lines, h) \cup {n + 1}
    BY <1>2, <1>3, <2>2 DEF Direct
  <2>4. Meaning(q, Direct(q, h)) = With(Meaning(lines, Direct(lines, h)), line)
    BY <1>4, <1>6, <2>3, MeaningMore
  <2>5. FlatLine(s, st, line) = [st EXCEPT !.data = With(st.data, line)]
    BY <1>6 DEF FlatLine, FlatRead
  <2>6. QED
    BY <1>6, <2>2, <2>4, <2>5 DEF FlatRead, States
<1>7. CASE Live(lines, h) /\ line.kind = "end"
  <2>1. Change(line) = -1 /\ Depth(lines, h, n) = 1
    BY <1>7 DEF Change
  <2>2. ~Live(q, h)
    BY <1>1, <1>2, <2>1
  <2>3. Direct(q, h) = Direct(lines, h)
    BY <1>2, <1>3, <2>2 DEF Direct
  <2>4. Meaning(q, Direct(q, h)) = Meaning(lines, Direct(lines, h))
    BY <1>4, <2>3, MeaningSame
  <2>5. FlatLine(s, st, line) = [st EXCEPT !.over = TRUE]
    BY <1>7 DEF FlatLine, FlatRead
  <2>6. QED
    BY <1>7, <2>2, <2>4, <2>5 DEF FlatRead, States
<1>8. QED
  BY <1>5, <1>6, <1>7

\* A section that begins with the last line.
LEMMA SectionBegins ==
  ASSUME NEW s, NEW q, NEW lines, NEW line, NEW n, Grows(q, lines, line, n), line = Config(s)
  PROVE  /\ Body(q, n + 1) = {n + 1} /\ Depth(q, n + 1, n + 1) = 1 /\ Live(q, n + 1)
         /\ Entries(q, n + 1) = {}
<1>1. n \in Nat /\ Len(q) = n + 1 /\ q[n + 1] = line /\ line.kind = "config"
  BY Grown DEF Config, Line
<1>2. Depth(q, n + 1, n + 1) = 1
  BY <1>1, Deepens DEF Change
<1>3. \A k : k \in n + 1 .. n + 1 <=> k = n + 1
  BY <1>1
<1>4. Body(q, n + 1) = {n + 1} /\ Live(q, n + 1)
  BY <1>1, <1>2, <1>3 DEF Body, Live
<1>5. QED
  BY <1>1, <1>2, <1>4 DEF Entries

\* Settings that begin.
LEMMA FlatBegins ==
  ASSUME NEW s, NEW q, NEW lines, NEW line, NEW n, Grows(q, lines, line, n), line = Config(s)
  PROVE  FlatRead(FlatLine(s, Start, line), q, n + 1)
<1>1. \A p \in Direct(q, n + 1) : q[p].kind # "set"
  <2>1. \A p \in Direct(q, n + 1) : p = n + 1
    BY SectionBegins DEF Direct
  <2>2. q[n + 1] = line /\ line.kind = "config"
    BY Grown DEF Config, Line
  <2>3. QED
    BY <2>1, <2>2
<1>2. Meaning(q, Direct(q, n + 1)) = << >>
  BY <1>1, MeaningNothing
<1>3. FlatLine(s, Start, line) = [Start EXCEPT !.inside = TRUE]
  BY DEF FlatLine, Start
<1>4. QED
  BY <1>2, <1>3, SectionBegins DEF FlatRead, Start
-----------------------------------------------------------------------------
(* Tables are read right.                                                  *)

\* An entry that was read is the one that begins at e, but for keys that
\* something nested sets; it is that one if nothing is nested.
ReadAs(item, lines, h, e) ==
  /\ item \in Entry /\ item.name = lines[e].key
  /\ \A key \in DOMAIN EntryAt(lines, h, e).data \ NestedAt(lines, h) :
       key \in DOMAIN item.data /\ item.data[key] = EntryAt(lines, h, e).data[key]
  /\ PlainAt(lines, h) => item.data = EntryAt(lines, h, e).data

\* As long as the table is simple, the parser is where the backup is.
InStep(st, lines, h) ==
  SimpleAt(lines, h) =>
    /\ st.over <=> ~Live(lines, h)
    /\ Len(st.items) = Cardinality(Entries(lines, h))
    /\ Live(lines, h) =>
         IF Depth(lines, h, Len(lines)) = 1 THEN st.item = Null
         ELSE \E e : OpenFrom(lines, h, e) /\ ReadAs(st.item, lines, h, e)

\* The unspoilt entries are the first ones that were read.
FirstRead(st, lines, h) ==
  /\ Ranked(lines, h)
  /\ Cardinality(Unspoilt(lines, h)) \in Nat /\ Cardinality(Unspoilt(lines, h)) <= Len(st.items)
  /\ \A e \in Entries(lines, h) : Place(lines, h, e) <= Cardinality(Unspoilt(lines, h)) => e \in Unspoilt(lines, h)
  /\ \A e \in Unspoilt(lines, h) :
       /\ Place(lines, h, e) <= Len(st.items)
       /\ ReadAs(st.items[Place(lines, h, e)], lines, h, e)

TableRead(st, lines, h) == st.inside /\ InStep(st, lines, h) /\ FirstRead(st, lines, h)

\* Entries that were read are not touched again.
Extends(st2, st) ==
  Len(st2.items) >= Len(st.items) /\ \A m \in 1 .. Len(st.items) : st2.items[m] = st.items[m]

\* What matters of a state that is not at its end.
Becomes(st, over, item, items) == st.over = over /\ st.item = item /\ st.items = items

\* What the parser does with a line.
LEMMA TableEffect ==
  ASSUME NEW s, NEW st \in States, NEW line \in Lines
  PROVE  /\ Extends(TableLine(s, st, line), st)
         /\ st.inside => TableLine(s, st, line).inside
         /\ st.over => TableLine(s, st, line) = st
         /\ ~st.over /\ line.kind = "config" =>
              Becomes(TableLine(s, st, line), FALSE, st.item, st.items)
         /\ ~st.over /\ st.inside /\ st.item = Null /\ line.kind = "end" =>
              Becomes(TableLine(s, st, line), TRUE, Null, st.items)
         /\ ~st.over /\ st.item # Null /\ line.kind = "end" =>
              Becomes(TableLine(s, st, line), FALSE, st.item, st.items)
         /\ ~st.over /\ st.inside /\ line.kind = "edit" =>
              Becomes(TableLine(s, st, line), FALSE, [name |-> line.key, data |-> << >>], st.items)
         /\ ~st.over /\ st.item # Null /\ line.kind = "set" =>
              Becomes(TableLine(s, st, line), FALSE,
                      [name |-> st.item.name, data |-> With(st.item.data, line)], st.items)
         /\ ~st.over /\ st.item # Null /\ line.kind = "next" =>
              Becomes(TableLine(s, st, line), FALSE, Null, Append(st.items, st.item))
<1>1. line.kind # "config" => line # Config(s)
  BY LineForms
<1>2. /\ st.over => TableLine(s, st, line) = st
      /\ ~st.over /\ line.kind = "config" =>
           TableLine(s, st, line) \in {st, [st EXCEPT !.inside = TRUE]}
  BY DEF TableLine
<1>3. ~st.over /\ line.kind = "config" => Becomes(TableLine(s, st, line), FALSE, st.item, st.items)
  BY <1>2 DEF Becomes, States
<1>4. /\ ~st.over /\ st.inside /\ st.item = Null /\ line.kind = "end" =>
           Becomes(TableLine(s, st, line), TRUE, Null, st.items)
      /\ ~st.over /\ st.item # Null /\ line.kind = "end" =>
           Becomes(TableLine(s, st, line), FALSE, st.item, st.items)
  BY <1>1 DEF TableLine, Becomes, States
<1>5. ~st.over /\ st.inside /\ line.kind = "edit" =>
        Becomes(TableLine(s, st, line), FALSE, [name |-> line.key, data |-> << >>], st.items)
  BY <1>1 DEF TableLine, Becomes, States
<1>6. ~st.over /\ st.item # Null /\ line.kind = "set" =>
        Becomes(TableLine(s, st, line), FALSE,
                [name |-> st.item.name, data |-> With(st.item.data, line)], st.items)
  <2> SUFFICES ASSUME ~st.over, st.item # Null, line.kind = "set"
               PROVE  Becomes(TableLine(s, st, line), FALSE,
                              [name |-> st.item.name, data |-> With(st.item.data, line)], st.items)
    OBVIOUS
  <2>1. TableLine(s, st, line) = [st EXCEPT !.item = [st.item EXCEPT !.data = With(st.item.data, line)]]
    BY <1>1 DEF TableLine
  <2>2. st.item \in [name : Names, data : Data]
    BY DEF States, Entry
  <2>3. [st.item EXCEPT !.data = With(st.item.data, line)] = [name |-> st.item.name, data |-> With(st.item.data, line)]
    BY <2>2
  <2>4. QED
    BY <2>1, <2>3 DEF Becomes, States
<1>7. ~st.over /\ st.item # Null /\ line.kind = "next" =>
        Becomes(TableLine(s, st, line), FALSE, Null, Append(st.items, st.item))
  BY <1>1 DEF TableLine, Becomes, States
<1>8. \/ TableLine(s, st, line).items = st.items
      \/ st.item # Null /\ TableLine(s, st, line).items = Append(st.items, st.item)
  BY DEF TableLine, States
<1>9. Extends(TableLine(s, st, line), st)
  <2>1. st.items \in Seq(Entry) /\ st.item \in Entry \cup {Null}
    BY DEF States
  <2>2. st.item # Null => /\ Len(Append(st.items, st.item)) = Len(st.items) + 1
                          /\ \A m \in 1 .. Len(st.items) : Append(st.items, st.item)[m] = st.items[m]
    BY <2>1
  <2>3. QED
    BY <1>8, <2>1, <2>2 DEF Extends
<1>10. st.inside => TableLine(s, st, line).inside
  BY DEF TableLine, States
<1>11. QED
  BY <1>2, <1>3, <1>4, <1>5, <1>6, <1>7, <1>9, <1>10

\* No entry is complete after a line that leaves the section, or another depth.
LEMMA NoNewEntry ==
  ASSUME NEW q, NEW lines, NEW line, NEW n, Grows(q, lines, line, n), NEW h \in 1 .. n,
         ~Live(q, h) \/ Depth(q, h, n + 1) # 1
  PROVE  Entries(q, h) = Entries(lines, h)
BY EntriesGrow

\* What was read of an entry stays right while the entry is the same.
LEMMA ReadKept ==
  ASSUME NEW q, NEW lines, NEW line, NEW n, Grows(q, lines, line, n), NEW h \in 1 .. n,
         NEW e \in 1 .. n, NEW item, ReadAs(item, lines, h, e),
         EntryAt(q, h, e) = EntryAt(lines, h, e)
  PROVE  ReadAs(item, q, h, e)
<1>1. /\ q[e] = lines[e] /\ NestedAt(lines, h) \subseteq NestedAt(q, h)
      /\ PlainAt(q, h) => PlainAt(lines, h)
  <2>1. q[e] = lines[e]
    BY Grown
  <2>2. /\ NestedAt(lines, h) \subseteq NestedAt(q, h)
        /\ PlainAt(q, h) => PlainAt(lines, h)
    BY NestingGrows
  <2>3. QED
    BY <2>1, <2>2
<1>2. PICK said : said = EntryAt(lines, h, e).data /\ said = EntryAt(q, h, e).data
  OBVIOUS
<1>3. /\ item \in Entry /\ item.name = lines[e].key
      /\ \A key \in DOMAIN said \ NestedAt(lines, h) : key \in DOMAIN item.data /\ item.data[key] = said[key]
      /\ PlainAt(lines, h) => item.data = said
  BY <1>2 DEF ReadAs
<1>4. \A key \in DOMAIN said \ NestedAt(q, h) : key \in DOMAIN item.data /\ item.data[key] = said[key]
  BY <1>1, <1>3
<1>5. QED
  BY <1>1, <1>2, <1>3, <1>4 DEF ReadAs

\* The first entries stay right while no other is unspoilt.
LEMMA FirstKept ==
  ASSUME NEW q, NEW lines, NEW line, NEW n, Grows(q, lines, line, n), NEW h \in 1 .. n,
         lines[h].kind = "config", NEW st \in States, NEW st2 \in States,
         FirstRead(st, lines, h), Extends(st2, st), Unspoilt(q, h) = Unspoilt(lines, h)
  PROVE  FirstRead(st2, q, h)
<1>1. PICK c \in Nat, u \in Nat, k \in Nat, k2 \in Nat :
        /\ c = Cardinality(Entries(lines, h)) /\ u = Cardinality(Unspoilt(lines, h))
        /\ k = Len(st.items) /\ k2 = Len(st2.items) /\ u <= k /\ k <= k2
  <2>1. Len(st.items) \in Nat /\ Len(st2.items) \in Nat
    BY DEF States
  <2>2. QED
    BY <2>1 DEF FirstRead, Ranked, Extends
<1>2. u <= c
  <2>1. Unspoilt(lines, h) \subseteq Entries(lines, h) /\ IsFiniteSet(Entries(lines, h))
    BY DEF Unspoilt, FirstRead, Ranked
  <2>2. QED
    BY <1>1, <2>1, FS_Subset
<1>3. /\ Entries(lines, h) \in SUBSET (1 .. n) /\ Entries(lines, h) \subseteq Entries(q, h)
  BY EntriesGrow
<1>4. \A f \in Entries(lines, h) : Place(lines, h, f) \in 1 .. c
  BY <1>1 DEF FirstRead, Ranked
<1>5. /\ Ranked(q, h)
      /\ \A f \in Entries(lines, h) : Place(q, h, f) = Place(lines, h, f)
      /\ \A e \in Entries(q, h) : e \notin Entries(lines, h) => Place(q, h, e) = c + 1
  <2>1. CASE Entries(q, h) = Entries(lines, h)
    BY <2>1 DEF FirstRead, Ranked, Place
  <2>2. CASE Entries(q, h) # Entries(lines, h)
    <3>1. PICK e \in Entries(q, h) : e \notin Entries(lines, h)
      BY <1>3, <2>2
    <3>2. Ranked(lines, h)
      BY DEF FirstRead
    <3>3. /\ Entries(q, h) = Entries(lines, h) \cup {e} /\ Ranked(q, h)
          /\ \A f \in Entries(lines, h) : Place(q, h, f) = Place(lines, h, f)
          /\ Place(q, h, e) = Cardinality(Entries(lines, h)) + 1
      BY <3>1, <3>2, PlacesGrow
    <3>4. QED
      BY <1>1, <3>3
  <2>3. QED
    BY <2>1, <2>2
<1>6. ASSUME NEW e \in Entries(q, h), Place(q, h, e) <= u PROVE e \in Unspoilt(lines, h)
  <2>1. e \in Entries(lines, h)
    BY <1>1, <1>2, <1>5, <1>6
  <2>2. QED
    BY <1>1, <1>5, <1>6, <2>1 DEF FirstRead
<1>7. ASSUME NEW e \in Unspoilt(lines, h)
      PROVE  Place(q, h, e) <= k2 /\ ReadAs(st2.items[Place(q, h, e)], q, h, e)
  <2>1. e \in Entries(lines, h) /\ e \in 1 .. n
    BY <1>3 DEF Unspoilt
  <2>2. /\ Place(q, h, e) = Place(lines, h, e) /\ Place(lines, h, e) \in 1 .. k
        /\ ReadAs(st.items[Place(lines, h, e)], lines, h, e)
    BY <1>1, <1>4, <1>5, <2>1 DEF FirstRead
  <2>3. st2.items[Place(q, h, e)] = st.items[Place(lines, h, e)]
    BY <1>1, <2>2 DEF Extends
  <2>4. EntryAt(q, h, e) = EntryAt(lines, h, e)
    BY <2>1, EntryStays
  <2>5. QED
    BY <1>1, <2>1, <2>2, <2>3, <2>4, ReadKept
<1>8. QED
  BY <1>1, <1>5, <1>6, <1>7 DEF FirstRead

\* Which lines may follow in a table, by the depth.
Fits(lines, h, line) ==
  LET d == Depth(lines, h, Len(lines)) IN
  Live(lines, h) =>
    /\ d = 1 => line.kind \in {"edit", "end"}
    /\ d = 2 => line.kind \in {"set", "config", "next"}
    /\ d > 2 /\ SimpleAt(lines, h) => line.kind # "next"
    /\ d > 2 => ~PlainAt(lines, h)

\* One more line of an entry that stays open.
LEMMA OpenStep ==
  ASSUME BackupAssumption, NEW s,
         NEW q, NEW lines, NEW line, NEW n, Grows(q, lines, line, n), NEW h \in 1 .. n,
         NEW st \in States, ~st.over, line # Config(s), Fits(lines, h, line),
         SimpleAt(q, h), SimpleAt(lines, h), Live(lines, h),
         NEW e, OpenFrom(lines, h, e), ReadAs(st.item, lines, h, e),
         NEW d \in Nat, d = Depth(lines, h, n), d >= 2, line.kind # "next"
  PROVE  /\ Live(q, h) /\ Depth(q, h, n + 1) >= 2 /\ Depth(q, h, n + 1) \in Nat
         /\ ~TableLine(s, st, line).over /\ TableLine(s, st, line).items = st.items
         /\ OpenFrom(q, h, e) /\ ReadAs(TableLine(s, st, line).item, q, h, e)
<1>1. /\ n \in Nat /\ line \in Lines /\ Len(lines) = n /\ Len(q) = n + 1
      /\ \A j \in h .. n : Depth(q, h, j) = Depth(lines, h, j)
      /\ Depth(q, h, n + 1) = d + Change(line)
      /\ line.kind \in {"config", "edit", "set", "next", "end"}
  BY Grown, Deepens, LineForms
<1>2. /\ Live(q, h) <=> Live(lines, h) /\ d + Change(line) >= 1
      /\ Body(q, h) = Body(lines, h) \cup (IF Live(q, h) THEN {n + 1} ELSE {})
      /\ Body(lines, h) \in SUBSET (h .. n)
  BY BodyGrows
<1>3. /\ Live(q, h) /\ line.kind = "edit" => Depth(q, h, n + 1) = 2
      /\ PlainAt(q, h) => PlainAt(lines, h)
      /\ NestedAt(lines, h) \subseteq NestedAt(q, h)
      /\ Live(q, h) /\ line.kind = "set" /\ Depth(q, h, n + 1) > 2 => line.key \in NestedAt(q, h)
  BY NestingGrows
<1>4. line.kind # "edit"
  <2>1. line.kind = "edit" => Change(line) = 1
    BY DEF Change
  <2>2. QED
    BY <1>1, <1>2, <1>3, <2>1
<1>5. d = 2 => line.kind \in {"set", "config"}
  BY <1>1 DEF Fits
<1>6. /\ line.kind = "config" => Change(line) = 1
      /\ line.kind = "set" => Change(line) = 0
      /\ line.kind = "end" => Change(line) = -1
  BY DEF Change
<1>7. d + Change(line) >= 2 /\ d + Change(line) \in Nat
  <2>1. CASE line.kind = "config"
    BY <1>6, <2>1
  <2>2. CASE line.kind = "set"
    BY <1>6, <2>2
  <2>3. CASE line.kind = "end"
    BY <1>5, <1>6, <2>3
  <2>4. QED
    BY <1>1, <1>4, <2>1, <2>2, <2>3
<1>8. Live(q, h) /\ Depth(q, h, n + 1) >= 2 /\ Depth(q, h, n + 1) \in Nat
  BY <1>1, <1>2, <1>7
<1>9. e \in Body(lines, h) /\ e \in 1 .. n /\ e \in h .. n
  BY <1>1, <1>2 DEF OpenFrom, Begins
<1>10. OpenFrom(q, h, e)
  <2>1. e \in Body(q, h) /\ q[e].kind = "edit" /\ Depth(q, h, e) = 2
    <3>1. q[e] = lines[e]
      BY <1>9, Grown
    <3>2. QED
      BY <1>1, <1>2, <1>9, <3>1 DEF OpenFrom, Begins
  <2>2. \A k \in e .. n : Depth(q, h, k) >= 2
    BY <1>1, <1>9 DEF OpenFrom
  <2>3. \A k \in e .. n + 1 : k \in e .. n \/ k = n + 1
    BY <1>1, <1>9
  <2>4. QED
    BY <1>1, <1>8, <2>1, <2>2, <2>3 DEF OpenFrom, Begins
<1>11. st.item \in Entry /\ st.item # Null
  BY DEF ReadAs, BackupAssumption
<1>12. /\ EntryAt(q, h, e).name = EntryAt(lines, h, e).name
       /\ EntryAt(q, h, e).data =
              IF line.kind = "set" /\ Depth(q, h, n + 1) = 2
              THEN With(EntryAt(lines, h, e).data, line) ELSE EntryAt(lines, h, e).data
  BY EntryGrows
<1>13. CASE line.kind \in {"config", "end"}
  <2>1. /\ ~TableLine(s, st, line).over /\ TableLine(s, st, line).items = st.items
        /\ TableLine(s, st, line).item = st.item
    <3>1. Becomes(TableLine(s, st, line), FALSE, st.item, st.items)
      BY <1>1, <1>11, <1>13, TableEffect
    <3>2. QED
      BY <3>1 DEF Becomes
  <2>2. EntryAt(q, h, e) = EntryAt(lines, h, e)
    BY <1>12, <1>13 DEF EntryAt
  <2>3. QED
    BY <1>8, <1>9, <1>10, <2>1, <2>2, ReadKept
<1>14. CASE line.kind = "set"
  <2>1. Becomes(TableLine(s, st, line), FALSE,
                [name |-> st.item.name, data |-> With(st.item.data, line)], st.items)
    BY <1>1, <1>11, <1>14, TableEffect
  <2>2. PICK item : item = TableLine(s, st, line).item
    OBVIOUS
  <2>3. /\ ~TableLine(s, st, line).over /\ TableLine(s, st, line).items = st.items
        /\ item = [name |-> st.item.name, data |-> With(st.item.data, line)]
    BY <2>1, <2>2 DEF Becomes
  <2>4. /\ item \in Entry /\ item.name = st.item.name /\ item.data = With(st.item.data, line)
    BY <1>1, <1>11, <1>14, <2>3, WithIsData DEF Entry
  <2>5. item.name = q[e].key
    <3>1. q[e] = lines[e]
      BY <1>9, Grown
    <3>2. QED
      BY <2>4, <3>1 DEF ReadAs
  <2>6. PICK old, new : old = EntryAt(lines, h, e).data /\ new = EntryAt(q, h, e).data
    OBVIOUS
  <2>7. \A key \in DOMAIN old \ NestedAt(lines, h) :
          key \in DOMAIN st.item.data /\ st.item.data[key] = old[key]
    BY <2>6 DEF ReadAs
  <2>8. new = IF d = 2 THEN With(old, line) ELSE old
    BY <1>1, <1>6, <1>12, <1>14, <2>6
  <2>9. d # 2 => line.key \in NestedAt(q, h) /\ ~PlainAt(q, h)
    BY <1>1, <1>3, <1>6, <1>8, <1>14 DEF Fits
  <2>10. /\ DOMAIN item.data = DOMAIN st.item.data \cup {line.key}
         /\ item.data[line.key] = line.value
         /\ \A key \in DOMAIN st.item.data : key # line.key => item.data[key] = st.item.data[key]
    BY <2>4 DEF With
  <2>11. d = 2 => /\ DOMAIN new = DOMAIN old \cup {line.key}
                  /\ new[line.key] = line.value
                  /\ \A key \in DOMAIN old : key # line.key => new[key] = old[key]
    BY <2>8 DEF With
  <2>12. ASSUME NEW key \in DOMAIN new \ NestedAt(q, h)
         PROVE  key \in DOMAIN item.data /\ item.data[key] = new[key]
    <3>1. CASE key = line.key
      BY <2>9, <2>10, <2>11, <2>12, <3>1
    <3>2. CASE key # line.key
      <4>1. key \in DOMAIN old \ NestedAt(lines, h) /\ new[key] = old[key]
        BY <1>3, <2>8, <2>11, <2>12, <3>2
      <4>2. QED
        BY <2>7, <2>10, <3>2, <4>1
    <3>3. QED
      BY <3>1, <3>2
  <2>13. ASSUME PlainAt(q, h) PROVE item.data = new
    <3>1. st.item.data = old /\ d = 2
      BY <1>3, <2>6, <2>9, <2>13 DEF ReadAs
    <3>2. QED
      BY <2>4, <2>8, <3>1
  <2>14. ReadAs(item, q, h, e)
    BY <2>4, <2>5, <2>6, <2>12, <2>13 DEF ReadAs
  <2>15. QED
    BY <1>8, <1>10, <2>2, <2>3, <2>14
<1>15. QED
  BY <1>1, <1>4, <1>13, <1>14

\* One more line of a simple table that has not ended.
LEMMA InStepLive ==
  ASSUME BackupAssumption, NEW s,
         NEW q, NEW lines, NEW line, NEW n, Grows(q, lines, line, n), NEW h \in 1 .. n,
         lines[h].kind = "config", NEW st \in States, line # Config(s), Fits(lines, h, line),
         st.inside, InStep(st, lines, h), Ranked(lines, h),
         SimpleAt(q, h), SimpleAt(lines, h), Live(lines, h)
  PROVE  InStep(TableLine(s, st, line), q, h)
<1>1. /\ n \in Nat /\ line \in Lines /\ Len(lines) = n /\ Len(q) = n + 1 /\ lines \in Seq(Lines)
      /\ Depth(q, h, n + 1) = Depth(lines, h, n) + Change(line)
      /\ line.kind \in {"config", "edit", "set", "next", "end"}
  BY Grown, Deepens, LineForms
<1>2. Live(q, h) <=> Live(lines, h) /\ Depth(lines, h, n) + Change(line) >= 1
  BY BodyGrows
<1>3. PICK d \in Nat : d = Depth(lines, h, n) /\ d >= 1
  <2>1. Depth(lines, h, n) \in Int /\ n \in h .. n
    BY <1>1, Deepens
  <2>2. Depth(lines, h, n) >= 1
    BY <1>1, <2>1 DEF Live
  <2>3. QED
    BY <2>1, <2>2
<1>4. /\ line.kind \in {"config", "edit"} => Change(line) = 1
      /\ line.kind = "set" => Change(line) = 0
      /\ line.kind \in {"end", "next"} => Change(line) = -1
  BY DEF Change
<1>5. PICK st2 \in States : st2 = TableLine(s, st, line)
  BY <1>1, StepsTyped
<1>6. /\ ~st.over /\ Len(st.items) = Cardinality(Entries(lines, h))
      /\ IF d = 1 THEN st.item = Null ELSE \E e : OpenFrom(lines, h, e) /\ ReadAs(st.item, lines, h, e)
  BY <1>1, <1>3 DEF InStep
<1>7. CASE d = 1 /\ line.kind = "edit"
  <2>1. Live(q, h) /\ Depth(q, h, n + 1) = 2
    BY <1>1, <1>2, <1>3, <1>4, <1>7
  <2>2. OpenFrom(q, h, n + 1) /\ EntryAt(q, h, n + 1) = [name |-> line.key, data |-> << >>]
    BY <1>7, <2>1, EntryBegins
  <2>3. Becomes(st2, FALSE, [name |-> line.key, data |-> << >>], st.items)
    BY <1>1, <1>5, <1>6, <1>7, TableEffect
  <2>4. st2.item = [name |-> line.key, data |-> << >>] /\ ~st2.over /\ st2.items = st.items
    BY <1>6, <2>3 DEF Becomes
  <2>5. line.key \in Names /\ q[n + 1] = line
    BY <1>1, <1>7, LineForms, Grown
  <2>6. ReadAs(st2.item, q, h, n + 1)
    BY <2>2, <2>4, <2>5, NoSettings DEF ReadAs, Entry
  <2>7. Entries(q, h) = Entries(lines, h)
    BY <2>1, NoNewEntry
  <2>8. QED
    BY <1>1, <1>5, <1>6, <2>1, <2>2, <2>4, <2>6, <2>7 DEF InStep
<1>8. CASE d = 1 /\ line.kind = "end"
  <2>1. ~Live(q, h)
    BY <1>2, <1>3, <1>4, <1>8
  <2>2. Becomes(st2, TRUE, Null, st.items)
    BY <1>1, <1>5, <1>6, <1>8, TableEffect
  <2>3. st2.over /\ st2.items = st.items
    BY <2>2 DEF Becomes
  <2>4. Entries(q, h) = Entries(lines, h)
    BY <2>1, NoNewEntry
  <2>5. QED
    BY <1>5, <1>6, <2>1, <2>3, <2>4 DEF InStep
<1>9. ASSUME d >= 2 PROVE InStep(st2, q, h)
  <2>1. PICK e : OpenFrom(lines, h, e) /\ ReadAs(st.item, lines, h, e)
    BY <1>6, <1>9
  <2>2. CASE line.kind # "next"
    <3>1. /\ Live(q, h) /\ Depth(q, h, n + 1) >= 2 /\ Depth(q, h, n + 1) \in Nat
          /\ ~st2.over /\ st2.items = st.items
          /\ OpenFrom(q, h, e) /\ ReadAs(st2.item, q, h, e)
      BY <1>3, <1>5, <1>6, <1>9, <2>1, <2>2, OpenStep
    <3>2. Entries(q, h) = Entries(lines, h) /\ Depth(q, h, n + 1) # 1
      BY <3>1, NoNewEntry
    <3>3. QED
      BY <1>1, <1>6, <3>1, <3>2 DEF InStep
  <2>3. CASE line.kind = "next"
    <3>1. d = 2
      BY <1>1, <1>3, <1>9, <2>3 DEF Fits
    <3>2. Live(q, h) /\ Depth(q, h, n + 1) = 1
      BY <1>1, <1>2, <1>3, <1>4, <2>3, <3>1
    <3>3. st.item # Null
      BY <2>1 DEF ReadAs, BackupAssumption
    <3>4. Becomes(st2, FALSE, Null, Append(st.items, st.item))
      BY <1>1, <1>5, <1>6, <2>3, <3>3, TableEffect
    <3>5. st2.item = Null /\ ~st2.over /\ st2.items = Append(st.items, st.item)
      BY <1>6, <3>4 DEF Becomes
    <3>6. Len(st2.items) = Len(st.items) + 1
      BY <3>5 DEF States
    <3>7. Begins(lines, h, e) /\ e \notin Entries(lines, h)
      <4>1. \A j \in Body(lines, h) : j > e => Depth(lines, h, j) # 1
        <5>1. Body(lines, h) = h .. n /\ e \in h .. n
          BY <1>1, <2>1, InBody DEF OpenFrom, Begins
        <5>2. ASSUME NEW j \in Body(lines, h), j > e PROVE Depth(lines, h, j) # 1
          <6>1. j \in e .. n
            BY <1>1, <5>1, <5>2
          <6>2. Depth(lines, h, j) >= 2
            BY <1>1, <2>1, <6>1 DEF OpenFrom
          <6>3. QED
            BY <6>2
        <5>3. QED
          BY <5>2
      <4>2. QED
        BY <2>1, <4>1 DEF OpenFrom, Entries
    <3>8. e \in Entries(q, h) \ Entries(lines, h)
      BY <3>2, <3>7, EntriesGrow
    <3>9. Cardinality(Entries(q, h)) = Cardinality(Entries(lines, h)) + 1
      BY <3>8, PlacesGrow
    <3>10. QED
      BY <1>1, <1>6, <3>2, <3>5, <3>6, <3>9 DEF InStep
  <2>4. QED
    BY <2>2, <2>3
<1>10. QED
  BY <1>1, <1>3, <1>5, <1>7, <1>8, <1>9 DEF Fits

\* One more line of a table, or anything after its end.
LEMMA TableStep ==
  ASSUME BackupAssumption, NEW s,
         NEW q, NEW lines, NEW line, NEW n, Grows(q, lines, line, n), NEW h \in 1 .. n,
         lines[h].kind = "config", NEW st \in States, line # Config(s), Fits(lines, h, line),
         TableRead(st, lines, h)
  PROVE  TableRead(TableLine(s, st, line), q, h)
<1>1. /\ n \in Nat /\ line \in Lines /\ Len(lines) = n /\ lines \in Seq(Lines)
      /\ Depth(q, h, n + 1) = Depth(lines, h, n) + Change(line)
      /\ line.kind \in {"config", "edit", "set", "next", "end"}
  BY Grown, Deepens, LineForms
<1>2. Live(q, h) <=> Live(lines, h) /\ Depth(lines, h, n) + Change(line) >= 1
  BY BodyGrows
<1>3. PICK st2 \in States : st2 = TableLine(s, st, line)
  BY <1>1, StepsTyped
<1>4. st.inside /\ InStep(st, lines, h) /\ FirstRead(st, lines, h) /\ Ranked(lines, h)
  BY DEF TableRead, FirstRead
<1>5. st2.inside /\ Extends(st2, st)
  BY <1>1, <1>3, <1>4, TableEffect
<1>6. SimpleAt(q, h) => SimpleAt(lines, h)
  BY NestingGrows
<1>7. InStep(st2, q, h)
  <2>1. CASE ~SimpleAt(q, h)
    BY <2>1 DEF InStep
  <2>2. CASE SimpleAt(q, h) /\ ~Live(lines, h)
    <3>1. st.over /\ st2 = st
      BY <1>1, <1>3, <1>4, <1>6, <2>2, TableEffect DEF InStep
    <3>2. ~Live(q, h) /\ Entries(q, h) = Entries(lines, h)
      BY <1>2, <2>2, NoNewEntry
    <3>3. QED
      BY <1>4, <1>6, <2>2, <3>1, <3>2 DEF InStep
  <2>3. CASE SimpleAt(q, h) /\ Live(lines, h)
    BY <1>3, <1>4, <1>6, <2>3, InStepLive
  <2>4. QED
    BY <2>1, <2>2, <2>3
<1>8. CASE ~SimpleAt(q, h)
  <2>1. Unspoilt(q, h) = Unspoilt(lines, h)
    BY <1>8, UnspoiltGrow
  <2>2. QED
    BY <1>3, <1>4, <1>5, <1>7, <2>1, FirstKept DEF TableRead
<1>9. CASE SimpleAt(q, h) /\ Entries(q, h) = Entries(lines, h)
  <2>1. Unspoilt(q, h) = Unspoilt(lines, h)
    BY <1>6, <1>9, UnspoiltGrow
  <2>2. QED
    BY <1>3, <1>4, <1>5, <1>7, <2>1, FirstKept DEF TableRead
<1>10. CASE SimpleAt(q, h) /\ Entries(q, h) # Entries(lines, h)
  <2>1. PICK e \in Entries(q, h) : e \notin Entries(lines, h)
    BY <1>10, EntriesGrow
  <2>2. Begins(lines, h, e) /\ Live(q, h) /\ Depth(q, h, n + 1) = 1
    BY <2>1, EntriesGrow
  <2>3. Live(lines, h) /\ SimpleAt(lines, h)
    BY <1>2, <1>6, <1>10, <2>2
  <2>4. PICK d \in Nat : d = Depth(lines, h, n) /\ d >= 1
    <3>1. Depth(lines, h, n) \in Int /\ n \in h .. n
      BY <1>1, Deepens
    <3>2. Depth(lines, h, n) >= 1
      BY <1>1, <2>3, <3>1 DEF Live
    <3>3. QED
      BY <3>1, <3>2
  <2>5. d = 2 /\ line.kind = "next"
    <3>1. d + Change(line) = 1 /\ Change(line) \in {-1, 0, 1}
      BY <1>1, <2>2, <2>4, Changes
    <3>2. line.kind \in {"edit", "end"} => Change(line) # 0
      BY DEF Change
    <3>3. d # 1
      BY <1>1, <2>3, <2>4, <3>1, <3>2 DEF Fits
    <3>4. d = 2 /\ Change(line) = -1
      BY <2>4, <3>1, <3>3
    <3>5. QED
      BY <1>1, <2>3, <2>4, <3>4 DEF Fits, Change
  <2>6. PICK f : OpenFrom(lines, h, f) /\ ReadAs(st.item, lines, h, f)
    BY <1>1, <1>4, <2>3, <2>4, <2>5 DEF InStep
  <2>7. Entries(q, h) = Entries(lines, h) \cup {e}
        /\ (\A g \in Entries(lines, h) : Place(q, h, g) = Place(lines, h, g))
        /\ Cardinality(Entries(q, h)) = Cardinality(Entries(lines, h)) + 1
        /\ Place(q, h, e) = Cardinality(Entries(lines, h)) + 1
        /\ Ranked(q, h)
    BY <1>4, <2>1, PlacesGrow
  <2>8. f = e
    <3>1. f \notin Entries(lines, h)
      <4>1. Body(lines, h) = h .. n /\ f \in h .. n
        BY <1>1, <2>6, InBody DEF OpenFrom, Begins
      <4>2. ASSUME NEW j \in Body(lines, h), j > f PROVE Depth(lines, h, j) # 1
        <5>1. j \in f .. n
          BY <1>1, <4>1, <4>2
        <5>2. Depth(lines, h, j) >= 2
          BY <1>1, <2>6, <5>1 DEF OpenFrom
        <5>3. QED
          BY <5>2
      <4>3. QED
        BY <4>2 DEF Entries
    <3>2. f \in Entries(q, h)
      BY <2>2, <2>6, <3>1, EntriesGrow DEF OpenFrom
    <3>3. QED
      BY <2>7, <3>1, <3>2
  <2>9. st.item # Null /\ ~st.over
    BY <1>4, <2>3, <2>6 DEF ReadAs, BackupAssumption, InStep
  <2>10. st2.items = Append(st.items, st.item)
    <3>1. Becomes(st2, FALSE, Null, Append(st.items, st.item))
      BY <1>1, <1>3, <2>5, <2>9, TableEffect
    <3>2. QED
      BY <3>1 DEF Becomes
  <2>11. PICK c \in Nat : c = Cardinality(Entries(lines, h)) /\ c = Len(st.items)
    BY <1>4, <2>3 DEF Ranked, InStep
  <2>12. /\ Len(st2.items) = c + 1 /\ st2.items[c + 1] = st.item
         /\ \A m \in 1 .. c : st2.items[m] = st.items[m]
    BY <2>10, <2>11 DEF States
  <2>13. Unspoilt(q, h) = Entries(q, h) /\ Unspoilt(lines, h) = Entries(lines, h)
    BY <1>10, <2>3, UnspoiltGrow
  <2>14. EntryAt(q, h, e) = EntryAt(lines, h, e)
    <3>1. /\ EntryAt(q, h, e).name = EntryAt(lines, h, e).name
          /\ EntryAt(q, h, e).data = EntryAt(lines, h, e).data
      BY <2>5, <2>6, <2>8, EntryGrows
    <3>2. QED
      BY <3>1 DEF EntryAt
  <2>15. e \in 1 .. n
    BY <1>1, <2>2, BodyGrows DEF Begins
  <2>16. ReadAs(st2.items[c + 1], q, h, e)
    BY <2>6, <2>8, <2>12, <2>14, <2>15, ReadKept
  <2>17. ASSUME NEW g \in Entries(lines, h)
         PROVE  Place(q, h, g) \in 1 .. c /\ ReadAs(st2.items[Place(q, h, g)], q, h, g)
    <3>1. Place(q, h, g) = Place(lines, h, g) /\ Place(lines, h, g) \in 1 .. c
      BY <1>4, <2>7, <2>11 DEF Ranked
    <3>2. ReadAs(st.items[Place(lines, h, g)], lines, h, g)
      BY <1>4, <2>13 DEF FirstRead
    <3>3. EntryAt(q, h, g) = EntryAt(lines, h, g) /\ g \in 1 .. n
      BY EntryStays, EntriesGrow
    <3>4. ReadAs(st.items[Place(lines, h, g)], q, h, g)
      BY <3>2, <3>3, ReadKept
    <3>5. QED
      BY <2>12, <3>1, <3>4
  <2>18. \A g \in Entries(q, h) : Place(q, h, g) <= c + 1 /\ ReadAs(st2.items[Place(q, h, g)], q, h, g)
    <3>1. \A g \in Entries(lines, h) : Place(q, h, g) <= c + 1 /\ ReadAs(st2.items[Place(q, h, g)], q, h, g)
      BY <2>17
    <3>2. Place(q, h, e) = c + 1 /\ c + 1 <= c + 1
      BY <2>7, <2>11
    <3>3. QED
      BY <2>7, <2>16, <3>1, <3>2
  <2>19. Cardinality(Unspoilt(q, h)) = c + 1 /\ c + 1 \in Nat /\ c + 1 <= c + 1
    BY <2>7, <2>11, <2>13
  <2>20. FirstRead(st2, q, h)
    BY <2>7, <2>12, <2>13, <2>18, <2>19 DEF FirstRead
  <2>21. QED
    BY <1>3, <1>5, <1>7, <2>20 DEF TableRead
<1>11. QED
  BY <1>8, <1>9, <1>10

\* A table that begins.
LEMMA TableBegins ==
  ASSUME NEW s, NEW q, NEW lines, NEW line, NEW n, Grows(q, lines, line, n), line = Config(s)
  PROVE  TableRead(TableLine(s, Start, line), q, n + 1)
<1>1. PICK st2 : st2 = TableLine(s, Start, line)
  OBVIOUS
<1>2. st2 = [Start EXCEPT !.inside = TRUE]
  BY <1>1 DEF TableLine, Start
<1>3. st2.inside /\ ~st2.over /\ st2.item = Null /\ st2.items = << >>
  BY <1>2 DEF Start
<1>4. Entries(q, n + 1) = {} /\ Unspoilt(q, n + 1) = {} /\ Len(q) = n + 1
      /\ Depth(q, n + 1, n + 1) = 1 /\ Live(q, n + 1)
  BY SectionBegins, Grown DEF Unspoilt
<1>5. Cardinality({}) = 0 /\ IsFiniteSet({}) /\ Len(st2.items) = 0
  BY <1>3, FS_EmptySet
<1>6. Ranked(q, n + 1)
  <2>1. Cardinality(Entries(q, n + 1)) = 0 /\ IsFiniteSet(Entries(q, n + 1))
    BY <1>4, <1>5
  <2>2. \A m \in 1 .. 0 : FALSE
    OBVIOUS
  <2>3. QED
    BY <1>4, <2>1, <2>2 DEF Ranked
<1>7. Cardinality(Unspoilt(q, n + 1)) = 0
  BY <1>4, <1>5
<1>8. FirstRead(st2, q, n + 1)
  BY <1>4, <1>5, <1>6, <1>7 DEF FirstRead
<1>9. InStep(st2, q, n + 1)
  BY <1>3, <1>4, <1>5 DEF InStep
<1>10. QED
  BY <1>1, <1>3, <1>8, <1>9 DEF TableRead

\* Before the section begins nothing is known of it.
LEMMA BeforeIt ==
  ASSUME NEW s, NEW line \in Lines, line # Config(s)
  PROVE  TableLine(s, Start, line) = Start /\ FlatLine(s, Start, line) = Start
BY DEF TableLine, FlatLine, Start
-----------------------------------------------------------------------------
(* The invariant.                                                          *)

\* Section s, with its header at h, is where the parser takes it to be, and
\* what was read of it is right.
Follows(s, h, lines, o) ==
  /\ Live(lines, h) =>
       /\ Sits(o, s, Depth(lines, h, Len(lines)), SimpleAt(lines, h))
       /\ s \in Tables /\ Depth(lines, h, Len(lines)) > 2 => ~PlainAt(lines, h)
  /\ s \in Tables /\ PlainAt(lines, h) => SimpleAt(lines, h)
  /\ s \in Tables => TableRead(TableState(s, lines), lines, h)
  /\ s \in Flats => FlatRead(FlatState(s, lines), lines, h)

\* The parser has followed the backup through these lines.
Followed(lines, o) ==
  /\ lines \in Seq(Lines) /\ o \in Opens
  /\ \A s \in Read :
       /\ \A g, h \in Headers(s, lines) : g = h
       /\ Headers(s, lines) = {} => TableState(s, lines) = Start /\ FlatState(s, lines) = Start
       /\ \A h \in Headers(s, lines) : Follows(s, h, lines, o)

\* One more line of a section that has begun, or anything after its end.
LEMMA FollowsStep ==
  ASSUME BackupAssumption,
         NEW q, NEW lines, NEW line, NEW n, Grows(q, lines, line, n),
         NEW o \in Opens, NEW o2, Writes(o, line, o2),
         NEW s \in Read, NEW h \in Headers(s, lines), Follows(s, h, lines, o), line # Config(s)
  PROVE  Follows(s, h, q, o2)
<1>1. /\ n \in Nat /\ line \in Lines /\ Len(lines) = n /\ Len(q) = n + 1 /\ lines \in Seq(Lines)
      /\ q = Append(lines, line)
  BY Grown DEF Grows
<1>2. h \in 1 .. n /\ lines[h] = Config(s) /\ lines[h].kind = "config"
  BY <1>1 DEF Headers, Config, Line
<1>3. Depth(q, h, n + 1) = Depth(lines, h, n) + Change(line)
  BY <1>2, Deepens
<1>4. Live(q, h) <=> Live(lines, h) /\ Depth(lines, h, n) + Change(line) >= 1
  BY <1>2, BodyGrows
<1>5. /\ SimpleAt(q, h) <=>
           SimpleAt(lines, h) /\ (Live(q, h) /\ line.kind = "edit" => Depth(q, h, n + 1) = 2)
      /\ PlainAt(q, h) <=> PlainAt(lines, h) /\ (Live(q, h) => line.kind # "config")
  BY <1>2, NestingGrows
<1>6. PICK simple \in BOOLEAN, simple2 \in BOOLEAN : simple = SimpleAt(lines, h) /\ simple2 = SimpleAt(q, h)
  BY DEF SimpleAt
<1>7. ASSUME Live(lines, h)
      PROVE  \E d \in Nat :
               /\ d = Depth(lines, h, n) /\ d >= 1
               /\ s \in Flats => line.kind \in {"set", "end"} /\ d = 1
               /\ s \in Tables /\ d = 1 => line.kind \in {"edit", "end"}
               /\ s \in Tables /\ d = 2 => line.kind \in {"set", "config", "next"}
               /\ s \in Tables /\ d > 2 /\ SimpleAt(lines, h) => line.kind # "next"
               /\ s \in Tables /\ d > 2 => ~PlainAt(lines, h)
               /\ Live(q, h) => Sits(o2, s, d + Change(line), SimpleAt(q, h))
  <2>1. PICK d \in Nat : d = Depth(lines, h, n) /\ d >= 1
    <3>1. Depth(lines, h, n) \in Int /\ n \in h .. n
      BY <1>1, <1>2, Deepens
    <3>2. Depth(lines, h, n) >= 1
      BY <1>1, <1>7, <3>1 DEF Live
    <3>3. QED
      BY <3>1, <3>2
  <2>2. Sits(o, s, d, simple) /\ (s \in Tables /\ d > 2 => ~PlainAt(lines, h))
    BY <1>1, <1>6, <1>7, <2>1 DEF Follows
  <2>3. simple2 => simple
    BY <1>5, <1>6
  <2>4. line.kind = "edit" /\ d >= 2 => ~simple2
    <3>1. line.kind = "edit" => Change(line) = 1
      BY DEF Change
    <3>2. line.kind = "edit" /\ d >= 2 => Live(q, h) /\ Depth(q, h, n + 1) # 2
      BY <1>3, <1>4, <1>7, <2>1, <3>1
    <3>3. QED
      BY <1>5, <1>6, <3>2
  <2>5. /\ s \in Flats => line.kind \in {"set", "end"} /\ d = 1
        /\ s \in Tables /\ d = 1 => line.kind \in {"edit", "end"}
        /\ s \in Tables /\ d = 2 => line.kind \in {"set", "config", "next"}
        /\ s \in Tables /\ d > 2 /\ simple => line.kind # "next"
        /\ d + Change(line) >= 1 => Sits(o2, s, d + Change(line), simple2)
    BY <1>1, <2>2, <2>3, <2>4, SitsStep
  <2>6. Live(q, h) => d + Change(line) >= 1
    BY <1>4, <2>1
  <2>7. QED
    BY <1>6, <2>1, <2>2, <2>5, <2>6
<1>8. ASSUME Live(q, h)
      PROVE  /\ Sits(o2, s, Depth(q, h, Len(q)), SimpleAt(q, h))
             /\ s \in Tables /\ Depth(q, h, Len(q)) > 2 => ~PlainAt(q, h)
  <2>1. PICK d \in Nat :
          /\ d = Depth(lines, h, n) /\ d >= 1
          /\ s \in Tables /\ d = 1 => line.kind \in {"edit", "end"}
          /\ s \in Tables /\ d = 2 => line.kind \in {"set", "config", "next"}
          /\ s \in Tables /\ d > 2 => ~PlainAt(lines, h)
          /\ Sits(o2, s, d + Change(line), SimpleAt(q, h))
    BY <1>4, <1>7, <1>8
  <2>2. Depth(q, h, Len(q)) = d + Change(line)
    BY <1>1, <1>3, <2>1
  <2>3. ASSUME s \in Tables, d + Change(line) > 2 PROVE ~PlainAt(q, h)
    <3>1. CASE d > 2
      BY <1>5, <2>1, <2>3, <3>1
    <3>2. CASE d <= 2
      <4>1. d = 2 /\ Change(line) = 1
        BY <1>1, <2>1, <2>3, <3>2, Changes
      <4>2. line.kind = "config"
        BY <1>1, <2>1, <2>3, <4>1, Changes
      <4>3. QED
        BY <1>5, <1>8, <4>2
    <3>3. QED
      BY <2>1, <3>1, <3>2
  <2>4. QED
    BY <2>1, <2>2, <2>3
<1>9. ASSUME s \in Tables, PlainAt(q, h) PROVE SimpleAt(q, h)
  <2>1. PlainAt(lines, h) /\ SimpleAt(lines, h)
    BY <1>5, <1>9 DEF Follows
  <2>2. Live(q, h) /\ line.kind = "edit" => Depth(q, h, n + 1) = 2
    <3> SUFFICES ASSUME Live(q, h), line.kind = "edit" PROVE Depth(q, h, n + 1) = 2
      OBVIOUS
    <3>1. PICK d \in Nat :
            /\ d = Depth(lines, h, n) /\ d >= 1
            /\ d = 2 => line.kind \in {"set", "config", "next"}
            /\ d > 2 => ~PlainAt(lines, h)
      BY <1>4, <1>7, <1>9
    <3>2. d = 1 /\ Change(line) = 1
      BY <2>1, <3>1 DEF Change
    <3>3. QED
      BY <1>3, <3>1, <3>2
  <2>3. QED
    BY <1>5, <2>1, <2>2
<1>10. ASSUME s \in Tables PROVE TableRead(TableState(s, q), q, h)
  <2>1. PICK st \in States : st = TableState(s, lines)
    BY <1>1, ParserSteps
  <2>2. TableState(s, q) = TableLine(s, st, line)
    BY <1>1, <2>1, ParserSteps
  <2>3. TableRead(st, lines, h)
    BY <1>10, <2>1 DEF Follows
  <2>4. Fits(lines, h, line)
    BY <1>1, <1>7, <1>10 DEF Fits
  <2>5. QED
    BY <1>2, <2>2, <2>3, <2>4, TableStep
<1>11. ASSUME s \in Flats PROVE FlatRead(FlatState(s, q), q, h)
  <2>1. PICK st \in States : st = FlatState(s, lines)
    BY <1>1, ParserSteps
  <2>2. FlatState(s, q) = FlatLine(s, st, line)
    BY <1>1, <2>1, ParserSteps
  <2>3. FlatRead(st, lines, h)
    BY <1>11, <2>1 DEF Follows
  <2>4. Live(lines, h) => Depth(lines, h, n) = 1 /\ line.kind \in {"set", "end"}
    BY <1>7, <1>11
  <2>5. QED
    BY <1>2, <2>2, <2>3, <2>4, FlatStep
<1>12. QED
  BY <1>8, <1>9, <1>10, <1>11 DEF Follows

\* A section that begins.
LEMMA FollowsBegins ==
  ASSUME NEW q, NEW lines, NEW line, NEW n, Grows(q, lines, line, n),
         NEW o \in Opens, NEW o2, Writes(o, line, o2),
         NEW s \in Read, line = Config(s), TableState(s, lines) = Start, FlatState(s, lines) = Start
  PROVE  Follows(s, n + 1, q, o2)
<1>1. /\ n \in Nat /\ line \in Lines /\ Len(lines) = n /\ Len(q) = n + 1 /\ lines \in Seq(Lines)
      /\ q = Append(lines, line) /\ q[n + 1] = line /\ line.kind = "config" /\ line.key = s
  BY Grown DEF Grows, Config, Line
<1>2. /\ Body(q, n + 1) = {n + 1} /\ Depth(q, n + 1, n + 1) = 1
  BY SectionBegins
<1>3. SimpleAt(q, n + 1)
  BY <1>1, <1>2 DEF SimpleAt
<1>4. Sits(o2, s, 1, SimpleAt(q, n + 1))
  <2>1. PICK k \in Nat : k = Len(o)
    BY DEF Opens
  <2>2. o2 = Append(o, s)
    BY <1>1 DEF Writes
  <2>3. Len(o2) = k + 1 /\ o2[k + 1] = s
    BY <2>1, <2>2 DEF Opens
  <2>4. 1 \in 1 .. k + 1 /\ (k + 1) - 1 + 1 = k + 1 /\ (k + 1) - 1 + 3 .. k + 1 = {}
    BY <2>1
  <2>5. QED
    BY <2>3, <2>4 DEF Sits
<1>5. TableRead(TableState(s, q), q, n + 1) /\ FlatRead(FlatState(s, q), q, n + 1)
  <2>1. TableState(s, q) = TableLine(s, Start, line) /\ FlatState(s, q) = FlatLine(s, Start, line)
    <3>1. /\ TableState(s, Append(lines, line)) = TableLine(s, TableState(s, lines), line)
          /\ FlatState(s, Append(lines, line)) = FlatLine(s, FlatState(s, lines), line)
      BY <1>1, ParserSteps
    <3>2. QED
      BY <1>1, <3>1
  <2>2. QED
    BY <2>1, TableBegins, FlatBegins
<1>6. QED
  BY <1>1, <1>2, <1>3, <1>4, <1>5 DEF Follows

\* One more line that the device writes.
LEMMA FollowedStep ==
  ASSUME BackupAssumption,
         NEW q, NEW lines, NEW line, NEW n, Grows(q, lines, line, n),
         NEW o, NEW o2, Writes(o, line, o2), Followed(lines, o),
         \A s \in Read : line = Config(s) => Headers(s, lines) = {}
  PROVE  Followed(q, o2)
<1>1. /\ n \in Nat /\ line \in Lines /\ Len(lines) = n /\ Len(q) = n + 1
      /\ lines \in Seq(Lines) /\ q \in Seq(Lines) /\ q = Append(lines, line)
      /\ DOMAIN lines = 1 .. n /\ DOMAIN q = 1 .. n + 1
      /\ q[n + 1] = line /\ \A i \in 1 .. n : q[i] = lines[i]
  BY Grown DEF Grows
<1>2. o \in Opens /\ o2 \in Opens
  BY <1>1, OpensTyped DEF Followed
<1>3. ASSUME NEW s \in Read
      PROVE  /\ \A g, h \in Headers(s, q) : g = h
             /\ Headers(s, q) = {} => TableState(s, q) = Start /\ FlatState(s, q) = Start
             /\ \A h \in Headers(s, q) : Follows(s, h, q, o2)
  <2>1. /\ \A g, h \in Headers(s, lines) : g = h
        /\ Headers(s, lines) = {} => TableState(s, lines) = Start /\ FlatState(s, lines) = Start
        /\ \A h \in Headers(s, lines) : Follows(s, h, lines, o)
    BY DEF Followed
  <2>2. CASE line # Config(s)
    <3>1. \A h : h \in Headers(s, q) <=> h \in Headers(s, lines)
      BY <1>1, <2>2 DEF Headers
    <3>2. Headers(s, q) = Headers(s, lines)
      BY <3>1
    <3>3. \A h \in Headers(s, q) : Follows(s, h, q, o2)
      BY <1>2, <2>1, <2>2, <3>2, FollowsStep
    <3>4. ASSUME Headers(s, q) = {} PROVE TableState(s, q) = Start /\ FlatState(s, q) = Start
      <4>1. TableState(s, lines) = Start /\ FlatState(s, lines) = Start
        BY <2>1, <3>2, <3>4
      <4>2. TableLine(s, Start, line) = Start /\ FlatLine(s, Start, line) = Start
        BY <1>1, <2>2, BeforeIt
      <4>3. /\ TableState(s, Append(lines, line)) = TableLine(s, TableState(s, lines), line)
            /\ FlatState(s, Append(lines, line)) = FlatLine(s, FlatState(s, lines), line)
        <5>1. lines \in Seq(Lines) /\ line \in Lines
          BY <1>1
        <5>2. QED
          BY <5>1, ParserSteps
      <4>4. QED
        BY <1>1, <4>1, <4>2, <4>3
    <3>5. QED
      BY <2>1, <3>2, <3>3, <3>4
  <2>3. CASE line = Config(s)
    <3>1. Headers(s, lines) = {}
      BY <2>3
    <3>2. \A h : h \in Headers(s, q) <=> h = n + 1
      BY <1>1, <2>3, <3>1 DEF Headers
    <3>3. Follows(s, n + 1, q, o2)
      BY <1>2, <2>1, <2>3, <3>1, FollowsBegins
    <3>4. QED
      BY <3>2, <3>3
  <2>4. QED
    BY <2>2, <2>3
<1>4. QED
  BY <1>1, <1>2, <1>3 DEF Followed

-----------------------------------------------------------------------------
(* What was followed is read right.                                        *)

\* The entries of a table, in order.
EntriesOf(lines, h) ==
  [m \in 1 .. Cardinality(Entries(lines, h)) |->
     EntryAt(lines, h, CHOOSE e \in Entries(lines, h) : Place(lines, h, e) = m)]

\* A table that was read right, entry by entry.
LEMMA TableRight ==
  ASSUME NEW lines, NEW h, NEW st \in States, TableRead(st, lines, h),
         PlainAt(lines, h) => SimpleAt(lines, h)
  PROVE  /\ Len(EntriesOf(lines, h)) = Cardinality(Entries(lines, h))
         /\ Cardinality(Unspoilt(lines, h)) \in Nat
         /\ Len(st.items) >= Cardinality(Unspoilt(lines, h))
         /\ SimpleAt(lines, h) => Len(st.items) = Len(EntriesOf(lines, h))
         /\ \A m \in 1 .. Cardinality(Unspoilt(lines, h)) :
              /\ st.items[m].name = EntriesOf(lines, h)[m].name
              /\ \A key \in DOMAIN EntriesOf(lines, h)[m].data \ NestedAt(lines, h) :
                   /\ key \in DOMAIN st.items[m].data
                   /\ st.items[m].data[key] = EntriesOf(lines, h)[m].data[key]
         /\ PlainAt(lines, h) => st.items = EntriesOf(lines, h)
<1>1. InStep(st, lines, h) /\ FirstRead(st, lines, h) /\ Ranked(lines, h)
  BY DEF TableRead, FirstRead
<1> DEFINE said == EntriesOf(lines, h)
<1>2. PICK c \in Nat, u \in Nat, k \in Nat :
        /\ c = Cardinality(Entries(lines, h)) /\ u = Cardinality(Unspoilt(lines, h))
        /\ k = Len(st.items) /\ u <= k
  BY <1>1 DEF FirstRead, Ranked, States
<1>3. Len(said) = c /\ DOMAIN said = 1 .. c
  BY <1>2 DEF EntriesOf
<1>4. u <= c
  <2>1. Unspoilt(lines, h) \subseteq Entries(lines, h) /\ IsFiniteSet(Entries(lines, h))
    BY <1>1 DEF Unspoilt, Ranked
  <2>2. QED
    BY <1>2, <2>1, FS_Subset
<1>5. SimpleAt(lines, h) => k = c /\ u = c
  <2>1. SimpleAt(lines, h) => k = c
    BY <1>1, <1>2 DEF InStep
  <2>2. ASSUME SimpleAt(lines, h) PROVE Unspoilt(lines, h) = Entries(lines, h)
    <3>1. \A j \in Body(lines, h) : lines[j].kind = "edit" => ~(Depth(lines, h, j) > 2)
      BY <2>2 DEF SimpleAt
    <3>2. QED
      BY <3>1 DEF Unspoilt
  <2>3. QED
    BY <1>2, <2>1, <2>2
<1>6. ASSUME NEW m \in 1 .. u
      PROVE  \E e : said[m] = EntryAt(lines, h, e) /\ ReadAs(st.items[m], lines, h, e)
  <2>1. m \in 1 .. c
    BY <1>4
  <2>2. PICK e : e = CHOOSE f \in Entries(lines, h) : Place(lines, h, f) = m
    OBVIOUS
  <2>3. \E f \in Entries(lines, h) : Place(lines, h, f) = m
    BY <1>1, <1>2, <2>1 DEF Ranked
  <2>4. e \in Entries(lines, h) /\ Place(lines, h, e) = m
    BY <2>2, <2>3
  <2>5. said[m] = EntryAt(lines, h, e)
    BY <1>2, <2>1, <2>2 DEF EntriesOf
  <2>6. e \in Unspoilt(lines, h)
    BY <1>1, <1>2, <2>4 DEF FirstRead
  <2>7. ReadAs(st.items[m], lines, h, e)
    BY <1>1, <2>4, <2>6 DEF FirstRead
  <2>8. QED
    BY <2>5, <2>7
<1>7. ASSUME NEW m \in 1 .. u
      PROVE  /\ st.items[m].name = said[m].name
             /\ \A key \in DOMAIN said[m].data \ NestedAt(lines, h) :
                  key \in DOMAIN st.items[m].data /\ st.items[m].data[key] = said[m].data[key]
             /\ PlainAt(lines, h) => st.items[m] = said[m]
  <2>1. PICK e : said[m] = EntryAt(lines, h, e) /\ ReadAs(st.items[m], lines, h, e)
    BY <1>6
  <2>2. PICK item, entry : item = st.items[m] /\ entry = said[m]
    OBVIOUS
  <2>3. /\ item \in Entry /\ item.name = lines[e].key
        /\ \A key \in DOMAIN entry.data \ NestedAt(lines, h) :
             key \in DOMAIN item.data /\ item.data[key] = entry.data[key]
        /\ PlainAt(lines, h) => item.data = entry.data
    BY <2>1, <2>2 DEF ReadAs
  <2>4. PICK data : entry = [name |-> lines[e].key, data |-> data]
    BY <2>1, <2>2 DEF EntryAt
  <2>5. item = [name |-> item.name, data |-> item.data]
    BY <2>3 DEF Entry
  <2>6. item.name = entry.name
    BY <2>3, <2>4
  <2>7. PlainAt(lines, h) => item = entry
    BY <2>3, <2>4, <2>5, <2>6
  <2>8. QED
    BY <2>2, <2>3, <2>6, <2>7
<1>8. ASSUME PlainAt(lines, h) PROVE st.items = said
  <2>1. k = c /\ u = c
    BY <1>5, <1>8
  <2>2. \A m \in 1 .. c : st.items[m] = said[m]
    BY <1>7, <1>8, <2>1
  <2>3. st.items = [m \in 1 .. c |-> st.items[m]]
    <3>1. PICK items \in Seq(Entry) : items = st.items
      BY DEF States
    <3>2. Len(items) = c
      BY <1>2, <2>1, <3>1
    <3>3. items = [m \in 1 .. c |-> items[m]]
      BY <3>2
    <3>4. QED
      BY <3>1, <3>3
  <2>4. said = [m \in 1 .. c |-> said[m]]
    BY <1>2 DEF EntriesOf
  <2>5. QED
    BY <2>2, <2>3, <2>4
<1>9. QED
  BY <1>2, <1>3, <1>5, <1>7, <1>8

\* What the parser has followed it has read right.
LEMMA FollowedRight ==
  ASSUME BackupAssumption, NEW lines, NEW o, Followed(lines, o), NEW s \in Read
  PROVE  ReadRight(s, lines)
<1>1. /\ lines \in Seq(Lines)
      /\ \A g, h \in Headers(s, lines) : g = h
      /\ Headers(s, lines) = {} => TableState(s, lines) = Start /\ FlatState(s, lines) = Start
      /\ \A h \in Headers(s, lines) : Follows(s, h, lines, o)
  BY DEF Followed
<1>2. /\ s \in Tables => Parsed(s, lines) = TableState(s, lines).items
      /\ s \in Flats => Parsed(s, lines) = Settings(FlatState(s, lines).data) /\ s \notin Tables
  BY DEF Parsed, TableSection, FlatSection, TableState, FlatState, BackupAssumption
<1>3. s \in Tables \/ s \in Flats
  BY DEF Read
<1>4. CASE Headers(s, lines) = {}
  <2>1. Said(s, lines) = << >>
    BY <1>4 DEF Said
  <2>2. Parsed(s, lines) = << >>
    BY <1>1, <1>2, <1>3, <1>4 DEF Start, Settings
  <2>3. UnspoiltEntries(s, lines) = 0
    <3>1. UNION {Unspoilt(lines, h) : h \in Headers(s, lines)} = {}
      BY <1>4
    <3>2. QED
      BY <3>1, FS_EmptySet DEF UnspoiltEntries
  <2>4. Len(<< >>) = 0 /\ \A m \in 1 .. 0 : FALSE
    OBVIOUS
  <2>5. QED
    BY <2>1, <2>2, <2>3, <2>4 DEF ReadRight
<1>5. CASE Headers(s, lines) # {}
  <2>1. PICK h : h \in Headers(s, lines)
    BY <1>5
  <2>2. Headers(s, lines) = {h} /\ h = CHOOSE g \in Headers(s, lines) : TRUE
    BY <1>1, <2>1
  <2>3. Follows(s, h, lines, o)
    BY <1>1, <2>1
  <2>4. Plain(s, lines) <=> PlainAt(lines, h)
    BY <2>2 DEF Plain, PlainAt
  <2>5. Simple(s, lines) <=> SimpleAt(lines, h)
    BY <2>2 DEF Simple, SimpleAt
  <2>6. NestedKeys(s, lines) = NestedAt(lines, h)
    <3>1. DOMAIN lines = 1 .. Len(lines) /\ h \in 1 .. Len(lines)
      BY <1>1, <2>1 DEF Headers
    <3>2. Body(lines, h) \in SUBSET (1 .. Len(lines))
      BY <1>1, <3>1, InBody
    <3>3. \A k : k \in {k1 \in DOMAIN lines : lines[k1].kind = "set" /\
                   \E g \in Headers(s, lines) : k1 \in Body(lines, g) /\ Depth(lines, g, k1) > 2}
                 <=> k \in DeepAt(lines, h)
      BY <2>2, <3>1, <3>2 DEF DeepAt
    <3>4. {k1 \in DOMAIN lines : lines[k1].kind = "set" /\
             \E g \in Headers(s, lines) : k1 \in Body(lines, g) /\ Depth(lines, g, k1) > 2} = DeepAt(lines, h)
      BY <3>3
    <3>5. QED
      BY <3>4 DEF NestedKeys, NestedAt
  <2>7. UnspoiltEntries(s, lines) = Cardinality(Unspoilt(lines, h))
    <3>1. UNION {Unspoilt(lines, g) : g \in Headers(s, lines)} = Unspoilt(lines, h)
      BY <2>2
    <3>2. QED
      BY <3>1 DEF UnspoiltEntries
  <2>8. CASE s \in Flats
    <3>1. Said(s, lines) = Settings(Meaning(lines, Direct(lines, h)))
      BY <1>2, <1>5, <2>2, <2>8 DEF Said, Direct
    <3>2. Parsed(s, lines) = Said(s, lines)
      BY <1>2, <2>3, <2>8, <3>1 DEF Follows, FlatRead
    <3>3. QED
      BY <1>2, <2>8, <3>2 DEF ReadRight
  <2>9. CASE s \in Tables
    <3>1. Said(s, lines) = EntriesOf(lines, h)
      <4>1. Said(s, lines) = EntriesOf(lines, CHOOSE g \in Headers(s, lines) : TRUE)
        BY <1>5, <2>9, Zenon DEF Said, EntriesOf
      <4>2. QED
        BY <2>2, <4>1
    <3>2. PICK st \in States : st = TableState(s, lines)
      BY <1>1, ParserSteps
    <3>3. TableRead(st, lines, h) /\ (PlainAt(lines, h) => SimpleAt(lines, h))
      BY <2>3, <2>9, <3>2 DEF Follows
    <3>4. Parsed(s, lines) = st.items
      BY <1>2, <2>9, <3>2
    <3>5. /\ Len(EntriesOf(lines, h)) = Cardinality(Entries(lines, h))
          /\ Len(st.items) >= Cardinality(Unspoilt(lines, h))
          /\ SimpleAt(lines, h) => Len(st.items) = Len(EntriesOf(lines, h))
          /\ \A m \in 1 .. Cardinality(Unspoilt(lines, h)) :
               /\ st.items[m].name = EntriesOf(lines, h)[m].name
               /\ \A key \in DOMAIN EntriesOf(lines, h)[m].data \ NestedAt(lines, h) :
                    /\ key \in DOMAIN st.items[m].data
                    /\ st.items[m].data[key] = EntriesOf(lines, h)[m].data[key]
          /\ PlainAt(lines, h) => st.items = EntriesOf(lines, h)
      BY <3>3, TableRight
    <3>6. QED
      BY <2>4, <2>5, <2>6, <2>7, <3>1, <3>4, <3>5 DEF ReadRight
  <2>10. QED
    BY <1>3, <2>8, <2>9
<1>6. QED
  BY <1>4, <1>5

-----------------------------------------------------------------------------
(* The theorem.                                                            *)

\* While nothing is answered the parser follows the backup; the answer gives
\* the verdicts of what it read.
Sound ==
  /\ Followed(text, open)
  /\ answer # Null => \A rule \in DOMAIN answer.findings :
                        answer.findings[rule] = Status(rule, Parsed(SectionOf[rule], text))

\* The device only writes lines that the parser can follow.
LEMMA DeviceWrites ==
  ASSUME BackupAssumption, Followed(text, open),
         OpenSection \/ OpenEntry \/ Setting \/ CloseEntry \/ CloseSection
  PROVE  /\ answer = Null /\ answer' = answer
         /\ \E line \in Lines :
              /\ text' = Append(text, line) /\ Writes(open, line, open')
              /\ \A s \in Read : line = Config(s) => Headers(s, text) = {}
<1>1. /\ text \in Seq(Lines) /\ open \in Seq(Sections \cup {"edit"})
      /\ Null \notin Sections \cup {"edit"} /\ "edit" \notin Sections
      /\ Foreign \subseteq Sections /\ Tables \subseteq Sections /\ Flats \subseteq Sections
  BY DEF Followed, Opens, BackupAssumption, Sections, Read
<1>2. \A s \in Read : ~Contains(text, Config(s)) => Headers(s, text) = {}
  BY <1>1 DEF Contains, Headers
<1>3. /\ open = << >> => Top = Null
      /\ open # << >> => Top = open[Len(open)] /\ Top # Null
  BY <1>1 DEF Top, Last
<1>4. \A name, key, value : Line("edit", name, Null) # Config(key) /\ Line("set", key, value) # Config(name)
                            /\ Line("next", Null, Null) # Config(key) /\ Line("end", Null, Null) # Config(key)
  BY DEF Line, Config
<1>5. CASE OpenSection
  <2>1. PICK s \in Nestable :
          /\ Top = Null \/ Top \in Foreign \cup {"edit"}
          /\ s \in Read => ~Contains(text, Config(s))
          /\ Write(Config(s), Append(open, s))
    BY <1>5 DEF OpenSection
  <2>2. s \in Sections
    BY <1>1 DEF Nestable
  <2>3. /\ Config(s) \in Lines /\ Config(s).kind = "config" /\ Config(s).key = s
        /\ \A s2 : Config(s) = Config(s2) => s2 = s
    BY <2>2 DEF Config, Line, Lines
  <2>4. Writes(open, Config(s), open')
    BY <1>1, <1>3, <2>1, <2>3 DEF Writes, Write
  <2>5. QED
    BY <1>2, <2>1, <2>3, <2>4 DEF Write
<1>6. CASE OpenEntry
  <2>1. PICK name \in Names :
          Top \in Tables \cup Foreign /\ Write(Line("edit", name, Null), Append(open, "edit"))
    BY <1>6 DEF OpenEntry
  <2>2. PICK line : line = Line("edit", name, Null)
    OBVIOUS
  <2>3. line \in Lines /\ line.kind = "edit" /\ \A s : line # Config(s)
    BY <2>2 DEF Line, Lines, Config
  <2>4. Writes(open, line, open')
    BY <1>1, <1>3, <2>1, <2>2, <2>3 DEF Writes, Write
  <2>5. QED
    BY <2>1, <2>2, <2>3, <2>4 DEF Write
<1>7. CASE Setting
  <2>1. PICK key \in Keys, value \in Values :
          Top \in Flats \cup Foreign \cup {"edit"} /\ Write(Line("set", key, value), open)
    BY <1>7 DEF Setting
  <2>2. PICK line : line = Line("set", key, value)
    OBVIOUS
  <2>3. line \in Lines /\ line.kind = "set" /\ \A s : line # Config(s)
    BY <2>2 DEF Line, Lines, Config
  <2>4. Writes(open, line, open')
    BY <1>1, <1>3, <2>1, <2>2, <2>3 DEF Writes, Write
  <2>5. QED
    BY <2>1, <2>2, <2>3, <2>4 DEF Write
<1>8. CASE CloseEntry
  <2>1. PICK line : line = Line("next", Null, Null)
    OBVIOUS
  <2>2. line \in Lines /\ line.kind = "next" /\ \A s : line # Config(s)
    BY <2>1 DEF Line, Lines, Config
  <2>3. Writes(open, line, open')
    BY <1>1, <1>3, <1>8, <2>1, <2>2 DEF CloseEntry, Writes, Write
  <2>4. QED
    BY <1>8, <2>1, <2>2, <2>3 DEF CloseEntry, Write
<1>9. CASE CloseSection
  <2>1. PICK line : line = Line("end", Null, Null)
    OBVIOUS
  <2>2. line \in Lines /\ line.kind = "end" /\ \A s : line # Config(s)
    BY <2>1 DEF Line, Lines, Config
  <2>3. Writes(open, line, open')
    BY <1>1, <1>3, <1>9, <2>1, <2>2 DEF CloseSection, Writes, Write
  <2>4. QED
    BY <1>9, <2>1, <2>2, <2>3 DEF CloseSection, Write
<1>10. QED
  BY <1>5, <1>6, <1>7, <1>8, <1>9

\* Nothing is written or answered yet.
LEMMA SoundInit ==
  ASSUME BackupAssumption, Init
  PROVE  Sound
<1>1. text = << >> /\ open = << >> /\ answer = Null
  BY DEF Init
<1>2. << >> \in Seq(Lines) /\ << >> \in Opens
  BY DEF Opens
<1>3. ASSUME NEW s \in Read
      PROVE  Headers(s, << >>) = {} /\ TableState(s, << >>) = Start /\ FlatState(s, << >>) = Start
  BY ParserSteps DEF Headers
<1>4. Followed(<< >>, << >>)
  BY <1>2, <1>3 DEF Followed
<1>5. QED
  BY <1>1, <1>4 DEF Sound

\* Each step keeps it.
LEMMA SoundStep ==
  ASSUME BackupAssumption, Sound, [Next]_vars
  PROVE  Sound'
<1>1. CASE OpenSection \/ OpenEntry \/ Setting \/ CloseEntry \/ CloseSection
  <2>1. answer = Null /\ answer' = Null /\ Followed(text, open)
    BY <1>1, DeviceWrites DEF Sound
  <2>2. PICK line \in Lines :
          /\ text' = Append(text, line) /\ Writes(open, line, open')
          /\ \A s \in Read : line = Config(s) => Headers(s, text) = {}
    BY <1>1, <2>1, DeviceWrites
  <2>3. PICK q, lines, n, o, o2 : q = text' /\ lines = text /\ n = Len(text) /\ o = open /\ o2 = open'
    OBVIOUS
  <2>4. Grows(q, lines, line, n) /\ Followed(lines, o) /\ Writes(o, line, o2)
        /\ \A s \in Read : line = Config(s) => Headers(s, lines) = {}
    BY <2>1, <2>2, <2>3 DEF Grows, Followed
  <2>5. Followed(q, o2)
    BY <2>4, FollowedStep
  <2>6. Followed(text', open')
    BY <2>3, <2>5
  <2>7. QED
    BY <2>1, <2>6 DEF Sound
<1>2. CASE Upload
  <2>1. text' = text /\ open' = open
    BY <1>2 DEF Upload, Answer
  <2>2. \A rule \in DOMAIN answer'.findings :
          answer'.findings[rule] = Status(rule, Parsed(SectionOf[rule], text))
    <3>1. PICK code, findings :
            /\ answer' = [code |-> code, findings |-> findings]
            /\ \/ findings = << >>
               \/ \E rules \in SUBSET Rules :
                    findings = [rule \in rules |-> Status(rule, Parsed(SectionOf[rule], text))]
      BY <1>2 DEF Upload, Answer
    <3>2. answer'.findings = findings
      BY <3>1
    <3>3. \A rule \in DOMAIN findings : findings[rule] = Status(rule, Parsed(SectionOf[rule], text))
      BY <3>1, NoSettings
    <3>4. QED
      BY <3>2, <3>3
  <2>3. QED
    BY <2>1, <2>2 DEF Sound
<1>3. CASE UNCHANGED vars
  BY <1>3 DEF vars, Sound
<1>4. QED
  BY <1>1, <1>2, <1>3 DEF Next

\* The verdicts are right when what was read is.
LEMMA SoundVerdicts ==
  ASSUME BackupAssumption, Sound
  PROVE  VerdictsFollowTheBackup
<1>1. \A s \in Read : ReadRight(s, text)
  BY FollowedRight DEF Sound
<1>2. ASSUME answer # Null, NEW rule \in DOMAIN answer.findings,
             SectionOf[rule] \in Read, Plain(SectionOf[rule], text)
      PROVE  answer.findings[rule] = Status(rule, Said(SectionOf[rule], text))
  <2>1. Parsed(SectionOf[rule], text) = Said(SectionOf[rule], text)
    BY <1>1, <1>2 DEF ReadRight
  <2>2. QED
    BY <1>2, <2>1 DEF Sound
<1>3. QED
  BY <1>1, <1>2 DEF VerdictsFollowTheBackup

\* The verdicts follow the backup, whatever sections, names, keys and values
\* there are, however long it is and wherever it ends
\* (fortios_conf_parser.py, the flat and table readers; backup_service.py).
THEOREM VerdictsHold == Spec => []VerdictsFollowTheBackup
<1>1. Init => Sound
  BY BackupAssumption, SoundInit
<1>2. Sound /\ [Next]_vars => Sound'
  BY BackupAssumption, SoundStep
<1>3. Sound => VerdictsFollowTheBackup
  BY BackupAssumption, SoundVerdicts
<1>4. QED
  BY <1>1, <1>2, <1>3, PTL DEF Spec
=============================================================================
