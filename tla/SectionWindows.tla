--------------------------- MODULE SectionWindows ---------------------------
(***************************************************************************)
(* How a section that is too long for one embedding is cut into windows  *)
(* of tokens that overlap (rag/ingest/section_refiner.py).  Its text         *)
(* may hold the anchors of tables and figures, in square brackets, which    *)
(* stand for the asset at its place: a window never ends inside an anchor,  *)
(* and an anchor belongs to one window only, since an asset is tied to the  *)
(* section that holds its anchor.  Places of a text are numbered from 0.    *)
(***************************************************************************)
EXTENDS Integers, Sequences, FiniteSets, SequencesExt

CONSTANTS
  Texts,      \* the sections: [tokens, anchors, marks], the tokens and anchors as <<start, end>>
              \* in their order, marks[i] the asset the i-th anchor names
  WindowSizes \* the window sizes and overlaps of the configuration, in tokens

VARIABLES
  section,    \* the section at hand, with its window size and overlap
  from,       \* the number of tokens before the next window
  assigned,   \* the assets whose anchor a window holds
  cuts        \* the windows so far: <<start, end>>

windowVars == <<section, from, assigned, cuts>>

Spans(s) == \A k \in DOMAIN s : s[k][1] < s[k][2] /\ (k > 1 => s[k - 1][2] <= s[k][1])
WindowConstants ==
  /\ \A t \in Texts : Spans(t.tokens) /\ Spans(t.anchors) /\ DOMAIN t.anchors = DOMAIN t.marks
  /\ \A w \in WindowSizes : w.size \in Nat \ {0} /\ w.overlap \in 0..(w.size - 1)

Step == section.size - section.overlap

-----------------------------------------------------------------------------
(* One window with the anchors in its way: it takes in the whole of an anchor *)
(* that begins in it, unless an earlier window has it; then it begins after  *)
(* the anchor, ends before it, or, inside it, is no window at all.           *)

Meets(w, a) == w.start < a[2] /\ w.end > a[1]

TakeAnchor(w, a, mark) ==
  CASE ~w.kept \/ ~Meets(w, a) -> w
    [] mark \in w.assigned /\ w.start < a[2] /\ a[2] < w.end -> [w EXCEPT !.start = a[2]]
    [] mark \in w.assigned /\ w.start < a[1] /\ a[1] < w.end /\ a[2] >= w.end -> [w EXCEPT !.end = a[1]]
    [] mark \in w.assigned -> [w EXCEPT !.kept = FALSE]
    [] w.start <= a[1] -> [w EXCEPT !.end = IF a[2] > @ THEN a[2] ELSE @, !.assigned = @ \cup {mark}]
    [] OTHER -> [w EXCEPT !.start = a[2]]

Protected(start, end) ==
  LET taken == FoldLeft(LAMBDA w, k : TakeAnchor(w, section.anchors[k], section.marks[k]),
                        [start |-> start, end |-> end, kept |-> TRUE, assigned |-> assigned],
                        [k \in DOMAIN section.anchors |-> k])
  IN  [taken EXCEPT !.kept = @ /\ taken.start < taken.end]

-----------------------------------------------------------------------------
WindowsInit ==
  /\ \E t \in Texts, w \in WindowSizes :
       section = [tokens |-> t.tokens, anchors |-> t.anchors, marks |-> t.marks,
                  size |-> w.size, overlap |-> w.overlap]
  /\ from = 0 /\ assigned = {} /\ cuts = <<>>

\* A section of at most one window is kept as it is.
Oversized == Len(section.tokens) > section.size

NextWindow ==
  /\ Oversized /\ from < Len(section.tokens)
  /\ LET to == IF from + section.size < Len(section.tokens)
               THEN from + section.size ELSE Len(section.tokens)
         w == Protected(section.tokens[from + 1][1], section.tokens[to][2])
     IN  /\ cuts' = IF w.kept THEN Append(cuts, <<w.start, w.end>>) ELSE cuts
         /\ assigned' = w.assigned
         /\ from' = IF w.kept /\ to = Len(section.tokens) THEN to ELSE from + Step
  /\ UNCHANGED section

\* The sections the document ends up with: the windows if there are two of them.
Refined ==
  IF Len(cuts) <= 1
  THEN {<<section.tokens[1][1], section.tokens[Len(section.tokens)][2]>>}
  ELSE Range(cuts)

WindowsDone == ~Oversized \/ from >= Len(section.tokens)
WindowsNext == NextWindow

-----------------------------------------------------------------------------
Inside(w, s) == w[1] <= s[1] /\ s[2] <= w[2]
Apart(w, s) == w[2] <= s[1] \/ s[2] <= w[1]
TokensIn(w) == {k \in DOMAIN section.tokens : Inside(w, section.tokens[k])}

\* An anchor is shorter than what two windows do not share, the more part of a window.
Roomy ==
  /\ 2 * section.overlap <= section.size
  /\ \A k \in DOMAIN section.anchors : Cardinality(TokensIn(section.anchors[k])) < Step

\* section_refiner.py:137, test_section_refiner.py: cutting a section loses none of its text, no
\* anchor is torn or in two windows, so an asset belongs to one section; the windows follow one
\* another, and only the end of an anchor makes one longer than its size.
WindowsSound ==
  WindowsDone =>
    /\ \A k \in DOMAIN section.tokens : \A place \in section.tokens[k][1]..(section.tokens[k][2] - 1) :
         \E w \in Refined : w[1] <= place /\ place < w[2]
    /\ \A k \in DOMAIN section.anchors :
         /\ \A w \in Refined : Inside(w, section.anchors[k]) \/ Apart(w, section.anchors[k])
         /\ Cardinality({w \in Refined : Inside(w, section.anchors[k])}) = 1
    /\ \A k \in 2..Len(cuts) :
         /\ cuts[k - 1][1] <= cuts[k][1]
         /\ Roomy => cuts[k - 1][2] < cuts[k][2]
    /\ \A k \in DOMAIN cuts :
         \/ Cardinality(TokensIn(cuts[k])) <= section.size
         \/ \E a \in DOMAIN section.anchors :
              /\ cuts[k][2] = section.anchors[a][2]
              /\ Cardinality(TokensIn(<<cuts[k][1], section.anchors[a][1]>>)) < section.size
=============================================================================
