------------------------------ MODULE FileTools ------------------------------
(***************************************************************************)
(* The built-in tools that read, search and edit one workspace file          *)
(* (rag/agent/tools/builtins/filesystem.py, search.py), while somebody else  *)
(* edits it.  A call runs in the event loop, so calls do not interleave and   *)
(* one that only reads is a step; an editor is another process, which may     *)
(* save between the two halves of a patch, and the agent's may die.         *)
(*                                                                         *)
(* A file is a sequence of bytes: letters, "n" for a line feed, "r" for a    *)
(* carriage return and "f" for a form feed.                                 *)
(***************************************************************************)
EXTENDS Naturals, Sequences, FiniteSets, SequencesExt, FiniteSetsExt

CONSTANTS
  Contents,               \* what a file may hold when an editor saves it
  Patches,                \* calls of apply_patch: [old, new, all]
  ByteLimits, LineLimits, \* max_bytes and max_lines of the calls
  Pattern,                \* what is searched for, a byte
  MaxMatches,             \* max_results
  MaxEdits, MaxPatches, MaxDeaths   \* bounds

VARIABLES
  file,
  reading,   \* a file read in chunks: what has been returned, where the next chunk begins
  patching,  \* an edit under way
  temporary, \* the file beside it that is to replace it: a sequence, or "none"
  edits, patches, deaths

fileVars == <<file, reading, patching, temporary, edits, patches, deaths>>

NoReading == [at |-> "idle"]
NoPatch == [at |-> "idle"]
Nowhere == 0   \* a next_offset or next_line of None

FilesInit ==
  /\ file \in Contents
  /\ reading = NoReading /\ patching = NoPatch /\ temporary = "none"
  /\ edits = 0 /\ patches = 0 /\ deaths = 0

-----------------------------------------------------------------------------
(* read_file.  A result has the bytes returned, the position of the byte     *)
(* that follows them and the number of the line that does.                  *)

Chunk(bytes, next, line) == [bytes |-> bytes, next |-> next, line |-> line]
Sorted(S) == SetToSortSeq(S, <)
Least(a, b) == IF a < b THEN a ELSE b

ReadBytes(f, from, max) ==
  LET upto == Least(Len(f), from + max - 1)
  IN Chunk(SubSeq(f, from, upto), IF upto < Len(f) THEN upto + 1 ELSE Nowhere, Nowhere)

\* Where readline begins a line.
LineStarts(f) == Sorted({i \in 1..Len(f) : i = 1 \/ f[i - 1] = "n"})

\* Lines from number start on: whole ones while they fit, then what fits of the next one.
ReadLines(f, start, max_lines, max_bytes) ==
  LET starts == Append(LineStarts(f), Len(f) + 1)
      from == starts[Least(start, Len(starts))]
      Fits(k) == /\ start + k <= Len(starts)
                 /\ starts[start + k] - from <= max_bytes
      complete == IF start >= Len(starts) THEN 0
                  ELSE Max({0} \cup {k \in 1..max_lines : Fits(k)})
      cut == complete < max_lines /\ start + complete < Len(starts)
      upto == IF cut THEN from + max_bytes - 1
              ELSE IF complete = 0 THEN from - 1 ELSE starts[start + complete] - 1
      more == upto < Len(f)
  IN Chunk(SubSeq(f, from, upto), IF more THEN upto + 1 ELSE Nowhere,
           IF more /\ ~cut THEN start + complete ELSE Nowhere)

\* same (history): nobody has changed the file since the first chunk.
Read(chunk, before, same) ==
  reading' = [at |-> IF chunk.next = Nowhere THEN "read" ELSE "reading",
              bytes |-> before \o chunk.bytes, next |-> chunk.next, line |-> chunk.line,
              same |-> same]
Changed(r) == IF r.at = "idle" THEN r ELSE [r EXCEPT !.same = FALSE]

\* A reader starts, and goes on from next_line when it reads lines and has one, else next_offset.
StartReading ==
  /\ reading.at = "idle"
  /\ \E max \in ByteLimits :
       \/ Read(ReadBytes(file, 1, max), <<>>, TRUE)
       \/ \E lines \in LineLimits : Read(ReadLines(file, 1, lines, max), <<>>, TRUE)
  /\ UNCHANGED <<file, patching, temporary, edits, patches, deaths>>

KeepReading ==
  /\ reading.at = "reading"
  /\ \E max \in ByteLimits :
       \/ Read(ReadBytes(file, reading.next, max), reading.bytes, reading.same)
       \/ /\ reading.line # Nowhere
          /\ \E lines \in LineLimits :
               Read(ReadLines(file, reading.line, lines, max), reading.bytes, reading.same)
  /\ UNCHANGED <<file, patching, temporary, edits, patches, deaths>>

StopReading ==
  /\ reading.at \in {"reading", "read"} /\ reading' = NoReading
  /\ UNCHANGED <<file, patching, temporary, edits, patches, deaths>>

-----------------------------------------------------------------------------
(* search_text. *)

\* Where splitlines begins a line.
SplitStarts(f) ==
  Sorted({i \in 1..Len(f) : \/ i = 1 \/ f[i - 1] \in {"n", "f"}
                            \/ f[i - 1] = "r" /\ f[i] # "n"})
LineOf(f, starts, k) ==
  LET upto == IF k = Len(starts) THEN Len(f) ELSE starts[k + 1] - 1
  IN SelectSeq(SubSeq(f, starts[k], upto), LAMBDA b : b \notin {"n", "r", "f"})

\* The numbers of the lines that match, the first max_results of them, and whether there were more.
Search(f) ==
  LET starts == SplitStarts(f)
      matching == Sorted({k \in DOMAIN starts : Pattern \in ToSet(LineOf(f, starts, k))})
  IN [lines |-> SubSeq(matching, 1, Least(MaxMatches, Len(matching))),
      truncated |-> Len(matching) > MaxMatches]

-----------------------------------------------------------------------------
(* apply_patch. *)

OccursAt(f, old, i) == i + Len(old) - 1 <= Len(f) /\ SubSeq(f, i, i + Len(old) - 1) = old

\* str.count and str.replace take occurrences from the left, none overlapping another.
Occurrences(f, old) ==
  FoldLeft(LAMBDA taken, i :
             IF OccursAt(f, old, i) /\ \A j \in taken : j + Len(old) <= i THEN taken \cup {i} ELSE taken,
           {}, [i \in 1..Len(f) |-> i])

Replaced(f, old, new, starts) ==
  FlattenSeq([i \in 1..Len(f) |->
    IF i \in starts THEN new
    ELSE IF \E j \in starts : j < i /\ i < j + Len(old) THEN <<>> ELSE <<f[i]>>])

\* read_text gives every line ending as a line feed.
ReadText(f) ==
  FlattenSeq([i \in 1..Len(f) |->
    IF f[i] # "r" THEN <<f[i]>>
    ELSE IF i < Len(f) /\ f[i + 1] = "n" THEN <<>> ELSE <<"n">>])

\* Exactly once, or all of them if asked; otherwise the call is refused.
Patchable(p, found) == found # {} /\ (p.all \/ Cardinality(found) = 1)

\* alone (history): no editor has saved the file since it was read.
StartPatch(p) ==
  /\ patching.at = "idle" /\ patches < MaxPatches /\ patches' = patches + 1
  /\ LET current == ReadText(file)
         found == Occurrences(current, p.old)
     IN IF Patchable(p, found)
          THEN /\ temporary' = Replaced(current, p.old, p.new, IF p.all THEN found ELSE {Min(found)})
               /\ patching' = [at |-> "install", patch |-> p, of |-> file, alone |-> TRUE]
          ELSE UNCHANGED <<temporary, patching>>
  /\ UNCHANGED <<file, reading, edits, deaths>>

\* os.replace: the whole file at once.
InstallPatch ==
  /\ patching.at = "install"
  /\ file' = temporary /\ temporary' = "none" /\ patching' = [patching EXCEPT !.at = "installed"]
  /\ reading' = Changed(reading)
  /\ UNCHANGED <<edits, patches, deaths>>

\* The temporary file cannot be written or installed: it is removed and the call fails.
PatchFails ==
  /\ patching.at = "install"
  /\ temporary' = "none" /\ patching' = NoPatch
  /\ UNCHANGED <<file, reading, edits, patches, deaths>>

ReturnPatch ==
  /\ patching.at = "installed" /\ patching' = NoPatch
  /\ UNCHANGED <<file, reading, temporary, edits, patches, deaths>>

\* Somebody else saves the file.
Edit ==
  /\ edits < MaxEdits /\ edits' = edits + 1
  /\ \E f \in Contents \ {file} : file' = f
  /\ reading' = Changed(reading)
  /\ patching' = IF patching.at = "idle" THEN patching ELSE [patching EXCEPT !.alone = FALSE]
  /\ UNCHANGED <<temporary, patches, deaths>>

\* The agent's process dies: the temporary file stays, under a name nobody uses again.
Dies ==
  /\ deaths < MaxDeaths /\ deaths' = deaths + 1
  /\ reading' = NoReading /\ patching' = NoPatch /\ temporary' = "none"
  /\ UNCHANGED <<file, edits, patches>>

FilesNext ==
  \/ StartReading \/ KeepReading \/ StopReading \/ InstallPatch \/ PatchFails \/ ReturnPatch
  \/ \E p \in Patches : StartPatch(p)
  \/ Edit \/ Dies

FilesSpec == FilesInit /\ [][FilesNext]_fileVars

-----------------------------------------------------------------------------
(* Properties. *)

\* filesystem.py:98, 156: of a file nobody changed, the chunks a reader got by following next_line
\* or next_offset, in whatever mixture, are its beginning, without gap or overlap, and the whole
\* of it when there is no next one.
ChunksCover ==
  reading.at # "idle" /\ reading.same =>
    /\ IsPrefix(reading.bytes, file)
    /\ reading.at = "read" => reading.bytes = file

\* filesystem.py:501: who takes every line ending as one sees in what was installed what was read with
\* the old text replaced, once or everywhere, and nothing else changed; in a file without
\* carriage returns every other byte is as it was.
PatchIsExact ==
  patching.at = "installed" /\ patching.alone =>
    LET p == patching.patch
        text == ReadText(patching.of)
        found == Occurrences(text, p.old)
        exact == Replaced(text, p.old, p.new, found)
    IN /\ found # {} /\ (Cardinality(found) = 1 \/ p.all)
       /\ ReadText(file) = exact
       /\ text = patching.of => file = exact

\* filesystem.py:113: "Pass search_text.line_number here": a match is a line that read_file finds under
\* the number it is given as, and without truncation every line that matches is there.  The tool
\* says so of every file.
LineNumbersAgree ==
  LET search == Search(file)
      Line(k) == ReadLines(file, k, 1, Len(file)).bytes
      numbers == 1..Len(LineStarts(file))
  IN /\ \A i \in DOMAIN search.lines : Pattern \in ToSet(Line(search.lines[i]))
     /\ ~search.truncated => \A k \in numbers : Pattern \in ToSet(Line(k)) => k \in ToSet(search.lines)

\* search.py:198: it is so of a file whose lines end in line feeds, with a carriage return before
\* them or without.
SameLines(f) == \A i \in DOMAIN f : f[i] # "f" /\ (f[i] = "r" => i < Len(f) /\ f[i + 1] = "n")
MatchesCanBeRead == SameLines(file) => LineNumbersAgree

FilesSound == ChunksCover /\ PatchIsExact /\ MatchesCanBeRead

\* filesystem.py:312: "Edit an existing UTF-8 workspace file by exact text replacement".  It is not so of
\* every file: the bytes that were not replaced are as they were.
PatchKeepsBytes ==
  patching.at = "installed" /\ patching.alone =>
    LET p == patching.patch
    IN file = Replaced(patching.of, p.old, p.new, Occurrences(patching.of, p.old))
=============================================================================
