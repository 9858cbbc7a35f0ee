----------------------------- MODULE ConfigText -----------------------------
(***************************************************************************)
(* The launcher's editor of YAML (run/launcher.py): the configuration of a *)
(* start is its template with the blocks of a source preset in it and with *)
(* what was selected set in its sections.  The text is edited line by line *)
(* and by indentation, and nothing parses it before the workers do.        *)
(*                                                                         *)
(* A line is a section's header, a scalar, or a note: a comment or an item *)
(* of a list.  Blank lines, which every scan skips, are left out; a level  *)
(* of indentation is two blanks.                                           *)
(***************************************************************************)
EXTENDS Integers, SequencesExt

CONSTANTS Outer, Inner,  \* names of sections, and of sections in them
          Keys,          \* names of scalars
          Preset,        \* the block of the source preset, as lines
          Selected,      \* what is selected: path and key of each scalar, in order
          MaxLines       \* bound: lines of a template

VARIABLES doc,    \* the lines
          built   \* the template that was edited, or << >>

configVars == <<doc, built>>

Section(indent, name) == [indent |-> indent, name |-> name, value |-> "section"]
Scalar(indent, name, value) == [indent |-> indent, name |-> name, value |-> value]
Note(indent) == [indent |-> indent, name |-> "", value |-> "note"]

-----------------------------------------------------------------------------
None == [at |-> 0, to |-> 0]

\* _find_section_bounds: in the block of each section of the path the first header of
\* the next.  A block ends before the next line that is no deeper; when there is none
\* in the block around it, it ends with the text.
Bounds(lines, path) ==
    LET block[n \in 0 .. Len(path)] ==
            IF n = 0 THEN [at |-> 0, to |-> Len(lines)]
            ELSE LET around == block[n - 1]
                     found == {i \in around.at + 1 .. around.to :
                                  lines[i] = Section(n - 1, path[n])}
                     at == Min(found)
                     after == {i \in at + 1 .. around.to : lines[i].indent <= n - 1}
                 IN  IF around = None \/ found = {} THEN None
                     ELSE [at |-> at, to |-> IF after = {} THEN Len(lines) ELSE Min(after) - 1]
    IN  block[Len(path)]

\* The lines of a block that are one level below its header.
Children(lines, path) ==
    {i \in Bounds(lines, path).at + 1 .. Bounds(lines, path).to : lines[i].indent = Len(path)}

\* get_nested_scalar.
Get(lines, path, key) ==
    LET hits == {i \in Children(lines, path) :
                    lines[i].name = key /\ lines[i].value # "section"}
    IN  IF Bounds(lines, path) = None \/ hits = {} THEN "none" ELSE lines[Min(hits)].value

\* (slip: the scalar follows the last line of its level, also when that has lines below it)
PlaceAfter(lines, path) ==
    LET children == Children(lines, path)
    IN  IF children = {} THEN Bounds(lines, path).to + 1 ELSE Max(children) + 1

\* Where a scalar goes that its section does not have: after the last line of its
\* level, before that line when it has others below it.
Place(lines, path) ==
    LET children == Children(lines, path)
        last == Max(children)
    IN  IF children = {} THEN Bounds(lines, path).to + 1
        ELSE IF last < Bounds(lines, path).to /\ lines[last + 1].indent > Len(path) THEN last
        ELSE last + 1

\* set_nested_scalar.  A section that is missing, or whose outer section is, goes to the
\* end of the text with all the headers of its path.
Set(lines, path, key, value) ==
    LET hits == {i \in Children(lines, path) : lines[i].name = key}
        new == Scalar(Len(path), key, value)
    IN  IF Bounds(lines, path) = None
        THEN lines \o [n \in DOMAIN path |-> Section(n - 1, path[n])] \o <<new>>
        ELSE IF hits # {} THEN [lines EXCEPT ![Min(hits)] = new]
        ELSE InsertAt(lines, Place(lines, path), new)

\* set_top_level_block.
SetBlock(lines, block) ==
    LET bounds == Bounds(lines, <<Head(block).name>>)
    IN  IF bounds = None THEN lines \o block
        ELSE SubSeq(lines, 1, bounds.at - 1) \o block \o SubSeq(lines, bounds.to + 1, Len(lines))

\* build_effective_config, with a source preset or without.
Effective(template, preset) ==
    FoldLeft(LAMBDA lines, s : Set(lines, s[1], s[2], "selected"),
             IF preset = <<>> THEN template ELSE SetBlock(template, preset), Selected)

-----------------------------------------------------------------------------
Init == doc = <<>> /\ built = <<>>

\* What the text means: the scalars under the headers they stand below.
Named(lines) == {i \in DOMAIN lines : lines[i].value # "note"}
Path(lines, i) ==
    LET header(n) == Max({j \in Named(lines) : j < i /\ lines[j].indent = n})
    IN  [n \in 1 .. lines[i].indent + 1 |->
            IF n > lines[i].indent THEN lines[i].name ELSE lines[header(n - 1)].name]
Meaning(lines) ==
    {<<Path(lines, i), lines[i].value>> : i \in {j \in Named(lines) : lines[j].value # "section"}}

\* Text that has a meaning: a line is at most one level below the last, and then below
\* a header; and no path occurs twice.
WellFormed(lines) ==
    /\ \A i \in Named(lines) : lines[i].indent > 0 =>
           LET before == {j \in Named(lines) : j < i}
               last == lines[Max(before)]
           IN  before # {} /\ (\/ last.indent >= lines[i].indent
                               \/ last.indent = lines[i].indent - 1 /\ last.value = "section")
    /\ \A i, j \in Named(lines) : Path(lines, i) = Path(lines, j) => i = j

\* Somebody writes a template.
Write ==
    /\ built = <<>> /\ Len(doc) < MaxLines
    /\ \E line \in {Section(0, k) : k \in Outer} \cup {Section(1, k) : k \in Inner}
                    \cup {Scalar(n, k, "written") : n \in 1 .. 2, k \in Keys}
                    \cup {Note(n) : n \in 0 .. 2} :
           doc' = Append(doc, line)
    /\ WellFormed(doc')
    /\ UNCHANGED built

\* A start.
Build ==
    /\ built = <<>> /\ doc # <<>>
    /\ built' = doc
    /\ \E preset \in {<<>>, Preset} : doc' = Effective(doc, preset)

Next == Write \/ Build
Spec == Init /\ [][Next]_configVars

-----------------------------------------------------------------------------
\* Templates the editor can work on.  It takes a note for the end of the sections it is
\* not indented below; a section that is the last of its outer one for reaching to the
\* end of the text, so that it must have what is set in it; and when an inner section is
\* missing it writes the outer one a second time.
Editable(lines) ==
    /\ \A i \in DOMAIN lines \ Named(lines), j \in Named(lines) :
           j > i /\ (\A k \in i + 1 .. j - 1 : k \notin Named(lines))
               => lines[j].indent <= lines[i].indent
    /\ \A n \in DOMAIN Selected :
           LET path == Selected[n][1]  key == Selected[n][2]
               within == Bounds(lines, <<path[1]>>)  bounds == Bounds(lines, path)
           IN  Len(path) > 1 /\ within # None =>
                   bounds # None /\ (bounds.to < within.to \/ <<path \o <<key>>, "written">> \in Meaning(lines))

\* What a start is to make of a template: the block of the preset in the place of its
\* own, what is selected, and the rest as it was.
Wanted(template, preset) ==
    LET name == Head(Preset).name
        selected == {s[1] \o <<s[2]>> : s \in ToSet(Selected)}
        rest == {m \in Meaning(template) : m[1] \notin selected /\ (preset # <<>> => m[1][1] # name)}
    IN  rest \cup Meaning(preset) \cup {<<path, "selected">> : path \in selected}

\* Editing the lines is editing the meaning: whatever the template that can be edited,
\* the text a start writes is well formed and means what it is to mean, each selected
\* scalar is read back from it, and a start from that text changes nothing.
EditsAreLocal ==
    [][built' # built /\ Editable(doc) =>
          /\ WellFormed(doc')
          /\ \E preset \in {<<>>, Preset} :
                 Meaning(doc') = Wanted(doc, preset) /\ Effective(doc', preset) = doc'
          /\ \A s \in ToSet(Selected) : Get(doc', s[1], s[2]) = "selected"]_configVars
=============================================================================
