------------------------------ MODULE Formulas ------------------------------
(***************************************************************************)
(* The values of formulas a workbook was saved without                        *)
(* (excel_formula_evaluator.py).  A cell is asked for; the cells its formula  *)
(* names are asked for in turn, each kept once it is known.  A cell under way *)
(* is empty to whoever asks for it, and a formula that goes wrong is empty,   *)
(* as is the last of more formulas than the stack can hold.                   *)
(*                                                                         *)
(* Numbers are whole, and texts have no order.  Dates, TEXT and ROUND, ranges *)
(* of whole columns and the reading of a formula's tokens are left out.        *)
(***************************************************************************)
EXTENDS Integers, Sequences, FiniteSets, FiniteSetsExt, SequencesExt

CONSTANTS
    Formulae,   \* workbooks: of each cell what it holds, and the value saved with it
    Nesting     \* formulas under way that Python's stack has room for

VARIABLES
    grid,       \* the workbook
    memo        \* _cache: the cells asked for, with their values

formulaVars == <<grid, memo>>

\* A value is of a kind; a numeral is a text that reads as a number.
Blank == [kind |-> "none", n |-> 0, text |-> ""]
Whole(n) == [kind |-> "int", n |-> n, text |-> ""]
Float(n) == [kind |-> "float", n |-> n, text |-> ""]
Truth(b) == [kind |-> "bool", n |-> IF b THEN 1 ELSE 0, text |-> ""]
Failure == [kind |-> "failure"]

Empty(v) == v.kind = "none"
Numeral(v) == v.kind \in {"none", "int", "float", "bool", "digits"}
Number(v) == IF Numeral(v) THEN v.n ELSE 0
Figure(v) == v.kind \in {"int", "float", "bool"}

\* str(): a number with a fraction part differs from the same one without.
AsText(v) == IF v.kind = "digits" THEN Whole(v.n) ELSE v
Truthy(v) ==
    IF v.kind = "range" THEN v.rows # <<>> ELSE IF Figure(v) THEN v.n # 0 ELSE v.kind # "none"

Flat(values) ==
    FlattenSeq([i \in DOMAIN values |->
        IF values[i].kind = "range" THEN FlattenSeq(values[i].rows) ELSE <<values[i]>>])
Numerals(values) == [i \in DOMAIN Flat(values) |-> Number(Flat(values)[i])]
Sum(numbers) == FoldLeft(LAMBDA a, b : a + b, 0, numbers)

\* A criterion is a comparison with a value; any other value must be written alike.
Compared(v, c) ==
    LET numeric == Numeral(v) /\ Numeral(c.with)
        same == IF numeric THEN v.n = c.with.n ELSE AsText(v) = AsText(c.with)
    IN  CASE c.op = "=" -> same [] c.op = "<>" -> ~same [] OTHER -> numeric /\ v.n > c.with.n
Matches(v, c) == IF c.kind = "criterion" THEN Compared(v, c) ELSE AsText(v) = AsText(c)

SumIf(range, c, target) ==
    LET tested == Flat(<<range>>) summed == Flat(<<target>>)
    IN  Float(Sum([i \in 1..Min({Len(tested), Len(summed)}) |->
                     IF Matches(tested[i], c) THEN Number(summed[i]) ELSE 0]))

Lookup(v, table, column) ==
    LET rows == IF table.kind = "range" THEN table.rows ELSE <<>>
        at == {i \in DOMAIN rows : rows[i] # <<>> /\ AsText(rows[i][1]) = AsText(v)}
        c == Max({1, Number(column)})
    IN  IF at = {} \/ c > Len(rows[Min(at)]) THEN Blank ELSE rows[Min(at)][c]

\* Python's operators on the values: a blank cell is no zero.
Same(a, b) == IF Figure(a) /\ Figure(b) THEN a.n = b.n ELSE a = b
Infix(f, a, b) ==
    CASE f = "=" -> Truth(Same(a, b))
      [] f # "=" /\ ~(Figure(a) /\ Figure(b)) -> Failure
      [] f = "/" /\ Figure(a) /\ Figure(b) -> IF b.n = 0 THEN Failure ELSE Float(a.n \div b.n)
      [] OTHER -> LET n == IF f = "+" THEN a.n + b.n ELSE a.n - b.n
                  IN  IF "float" \in {a.kind, b.kind} THEN Float(n) ELSE Whole(n)

Supported == {"+", "-", "/", "=", "SUM", "SUMIF", "VLOOKUP", "IF", "IFERROR", "AND", "OR", "ABS", "MAX", "MIN"}
Apply(f, v) ==
    CASE f \in {"+", "-", "/", "="} -> Infix(f, v[1], v[2])
      [] f = "SUM" -> IF Flat(v) = <<>> THEN Whole(0) ELSE Float(Sum(Numerals(v)))
      [] f = "SUMIF" -> SumIf(v[1], v[2], IF Len(v) > 2 THEN v[3] ELSE v[1])
      [] f = "VLOOKUP" -> Lookup(v[1], v[2], v[3])
      [] f = "IF" -> IF Truthy(v[1]) THEN v[2] ELSE IF Len(v) > 2 THEN v[3] ELSE Blank
      [] f = "IFERROR" -> IF v[1].kind = "none" THEN v[2] ELSE v[1]
      [] f = "AND" -> Truth(\A i \in DOMAIN v : Truthy(v[i]))
      [] f = "OR" -> Truth(\E i \in DOMAIN v : Truthy(v[i]))
      [] f = "ABS" -> Float(IF Number(v[1]) < 0 THEN -Number(v[1]) ELSE Number(v[1]))
      [] f = "MAX" -> Float(Max(ToSet(Numerals(v)) \cup IF Flat(v) = <<>> THEN {0} ELSE {}))
      [] f = "MIN" -> Float(Min(ToSet(Numerals(v)) \cup IF Flat(v) = <<>> THEN {0} ELSE {}))

\* What a sheet holds of a cell, nothing outside of it.
Held(at) ==
    IF at \in DOMAIN grid THEN grid[at] ELSE [holds |-> [op |-> "value", value |-> Blank], saved |-> Blank]

-----------------------------------------------------------------------------
(* Evaluation: what is known goes from term to term, in their order, up to    *)
(* the first that fails.                                                    *)

Keeping(at, v, known) == [c \in DOMAIN known \cup {at} |-> IF c = at THEN v ELSE known[c]]

RECURSIVE Cell(_, _, _), Term(_, _, _)

Terms(terms, known, open) ==
    FoldLeft(LAMBDA all, e :
                 IF all.failed THEN all
                 ELSE LET r == Term(e, all.known, open)
                      IN  [failed |-> r.value = Failure, known |-> r.known, values |-> Append(all.values, r.value)],
             [failed |-> FALSE, known |-> known, values |-> <<>>], terms)

\* cell_value, with the cells under way.
Cell(at, known, open) ==
    IF at \in DOMAIN known THEN [value |-> known[at], known |-> known]
    ELSE IF at \in open THEN [value |-> Blank, known |-> known]
    ELSE IF Cardinality(open) = Nesting THEN [value |-> Failure, known |-> known]
    ELSE IF ~Empty(Held(at).saved) THEN [value |-> Held(at).saved, known |-> Keeping(at, Held(at).saved, known)]
    ELSE LET r == Term(Held(at).holds, known, open \cup {at})
             v == IF r.value = Failure THEN Blank ELSE r.value
         IN  [value |-> v, known |-> Keeping(at, v, r.known)]

Term(e, known, open) ==
    CASE e.op = "value" -> [value |-> e.value, known |-> known]
      [] e.op = "ref" -> Cell(e.at, known, open)
      [] e.op = "range" ->
           LET cells == [i \in DOMAIN e.cells |-> [op |-> "ref", at |-> e.cells[i]]]
               all == Terms(cells, known, open)
               row(i) == SubSeq(all.values, (i - 1) * e.width + 1, i * e.width)
           IN  [value |-> IF all.failed THEN Failure
                          ELSE [kind |-> "range", rows |-> [i \in 1..(Len(cells) \div e.width) |-> row(i)]],
                known |-> all.known]
      [] e.op = "call" ->
           LET all == Terms(e.args, known, open)
           IN  IF e.f \notin Supported THEN [value |-> Failure, known |-> known]
               ELSE [value |-> IF all.failed THEN Failure ELSE Apply(e.f, all.values), known |-> all.known]

-----------------------------------------------------------------------------
FormulasInit == grid \in Formulae /\ memo = <<>>

Evaluate(at) ==
    /\ at \notin DOMAIN memo
    /\ memo' = Cell(at, memo, {}).known
    /\ UNCHANGED grid

FormulasNext == \E at \in DOMAIN grid : Evaluate(at)

FormulasDone == DOMAIN grid \subseteq DOMAIN memo

FormulasSpec == FormulasInit /\ [][FormulasNext]_formulaVars

-----------------------------------------------------------------------------
FormulaConstants ==
    /\ \A g \in Formulae : \A c \in DOMAIN g : {"holds", "saved"} \subseteq DOMAIN g[c]
    /\ Nesting \in Nat \ {0}

\* The cells a formula names, and what they all come to, by what the formula says alone.
RECURSIVE Names(_), Meaning(_), Means(_)
Names(e) ==
    CASE e.op = "value" -> {}
      [] e.op = "ref" -> {e.at}
      [] e.op = "range" -> ToSet(e.cells)
      [] e.op = "call" -> IF e.f \notin Supported THEN {} ELSE UNION {Names(e.args[i]) : i \in DOMAIN e.args}
Needs(at) == IF ~Empty(Held(at).saved) THEN {} ELSE Names(Held(at).holds)

RECURSIVE Longest(_, _)
Longest(at, path) == 1 + Max({0} \cup {Longest(c, path \cup {at}) : c \in Needs(at) \ (path \cup {at})})
RECURSIVE Circular(_, _)
Circular(at, path) == \E c \in Needs(at) : c \in path \cup {at} \/ Circular(c, path \cup {at})

Meaning(at) ==
    IF ~Empty(Held(at).saved) THEN Held(at).saved
    ELSE LET v == Means(Held(at).holds) IN IF v = Failure THEN Blank ELSE v
Means(e) ==
    CASE e.op = "value" -> e.value
      [] e.op = "ref" -> Meaning(e.at)
      [] e.op = "range" -> [kind |-> "range", rows |-> [i \in 1..(Len(e.cells) \div e.width) |->
                                [j \in 1..e.width |-> Meaning(e.cells[(i - 1) * e.width + j])]]]
      [] e.op = "call" -> LET v == [i \in DOMAIN e.args |-> Means(e.args[i])]
                          IN  IF e.f \notin Supported \/ Failure \in ToSet(v) THEN Failure ELSE Apply(e.f, v)

\* excel_formula_evaluator.py:31: whatever order cells are asked for in, by the parser or by the
\* pipeline, a cell that does not hang on itself has the value its formula gives, in a workbook
\* whose formulas do not nest deeper than the stack.
FormulasSound ==
    (\A c \in DOMAIN grid : Longest(c, {}) <= Nesting) =>
        \A c \in DOMAIN memo : ~Circular(c, {}) => memo[c] = Meaning(c)
=============================================================================
