----------------------------- MODULE LineTools -----------------------------
(***************************************************************************)
(* The tools of a file of their own that work on lines: tac, rev, nl,      *)
(* paste, comm, cmp, diff, split, fold, fmt and seq.                       *)
(***************************************************************************)
EXTENDS Texts

Space(n) == [k \in 1 .. (IF n > 0 THEN n ELSE 0) |-> SP]
Largest(a, b) == IF a > b THEN a ELSE b

\* A line keeps its newline, so that one without is glued to what comes behind it.
TacPrintReversed(t) == Joined(Reverse(Lines(t)))
Tac(o) == EachFile(o, LAMBDA i : TacPrintReversed(o.files[i].text))
RevStream(t) == Joined([i \in DOMAIN Lines(t) |-> Reverse(Body(Lines(t)[i])) \o Newline(Lines(t)[i])])
Rev(o) == EachFile(o, LAMBDA i : RevStream(o.files[i].text))

\* nl: the last operand only; w is -w, list is -s, and a line without a number is indented by as much.
NlLine(o, st, text) ==
  LET line == CString(Body(text))
      numbered == Has(o, "a") \/ line # <<>>
  IN [n |-> IF numbered THEN st.n + 1 ELSE st.n,
      out |-> st.out \o (IF numbered THEN <<Number(st.n + 1)>> \o o.list \o line ELSE Space(o.w + Len(o.list)))
              \o Newline(text)]
Nl(o) ==
  LET f == Last(o.files)
  IN IF ~f.opens THEN Usage(1)
     ELSE Outcome(FoldLeft(LAMBDA st, text : NlLine(o, st, text), [n |-> 0, out |-> <<>>], Lines(f.text)).out, 0)

\* paste: list is what -d gives.
PasteDelimAt(delims, i) == IF delims = <<>> THEN TAB ELSE delims[(i % Len(delims)) + 1]
PasteSerial(o, f) ==
  LET lines == Lines(f.text)
  IN IF ~f.opens \/ lines = <<>> THEN <<>>
     ELSE Joined([k \in DOMAIN lines |->
                    (IF k > 1 THEN <<PasteDelimAt(o.list, k - 2)>> ELSE <<>>) \o CString(Body(lines[k]))]) \o <<NL>>
PasteParallel(o, columns) ==
  LET rows == FoldLeft(LAMBDA n, column : Largest(n, Len(column)), 0, columns)
      cell(i, r) == IF r > Len(columns[i]) THEN <<>> ELSE CString(Body(columns[i][r]))
      row(r) == Joined([i \in DOMAIN columns |-> (IF i > 1 THEN <<PasteDelimAt(o.list, i - 2)>> ELSE <<>>) \o cell(i, r)])
  IN Joined([r \in 1 .. rows |-> row(r) \o <<NL>>])
Paste(o) ==
  Outcome(IF Has(o, "s") THEN Joined([i \in DOMAIN o.files |-> PasteSerial(o, o.files[i])])
          ELSE PasteParallel(o, [i \in DOMAIN o.files |-> Lines(o.files[i].text)]),
          IF \E i \in DOMAIN o.files : ~o.files[i].opens THEN 1 ELSE 0)

\* comm: two sorted files, in three columns.
CommColumn(o, k, line) ==
  LET tabs == CASE k = "1" -> 0 [] k = "2" -> Cardinality({"1"} \ o.flags) [] OTHER -> Cardinality({"1", "2"} \ o.flags)
  IN IF Has(o, k) THEN <<>> ELSE [i \in 1 .. tabs |-> TAB] \o line \o <<NL>>
RECURSIVE CommMerge(_, _, _)
CommMerge(o, a, b) ==
  LET cmp == IF a = <<>> THEN 1 ELSE IF b = <<>> THEN -1 ELSE Compare(a[1], b[1])
  IN CASE a = <<>> /\ b = <<>> -> <<>>
       [] a \o b # <<>> /\ cmp < 0 -> CommColumn(o, "1", a[1]) \o CommMerge(o, Tail(a), b)
       [] a \o b # <<>> /\ cmp > 0 -> CommColumn(o, "2", b[1]) \o CommMerge(o, a, Tail(b))
       [] OTHER -> CommColumn(o, "3", a[1]) \o CommMerge(o, Tail(a), Tail(b))
Strings(t) == [i \in DOMAIN Lines(t) |-> CString(Body(Lines(t)[i]))]
Comm(o) ==
  IF Len(o.files) # 2 \/ \E i \in DOMAIN o.files : ~o.files[i].opens THEN Usage(1)
  ELSE Outcome(CommMerge(o, Strings(o.files[1].text), Strings(o.files[2].text)), 0)

\* cmp: one that ends before the other differs from it, whatever was printed.
CmpLineAt(t, n) == 1 + Cardinality({i \in 1 .. n - 1 : t[i] = NL})
CmpCompare(o, a, b) ==
  LET both == 1 .. (IF Len(a) < Len(b) THEN Len(a) ELSE Len(b))
      differ == {i \in both : a[i] # b[i]}
      first == CHOOSE i \in differ : \A j \in differ : i <= j
      list == Joined([i \in both |-> IF i \in differ THEN <<Number(i), Number(a[i]), Number(b[i]), NL>> ELSE <<>>])
  IN CASE Has(o, "l") -> Outcome(list, IF differ # {} \/ Len(a) # Len(b) THEN 1 ELSE 0)
       [] ~Has(o, "l") /\ differ # {} ->
            Outcome(IF Has(o, "s") THEN <<>> ELSE <<Label(1), SP, Label(2), Number(first), Number(CmpLineAt(a, first)), NL>>, 1)
       [] OTHER -> Outcome(<<>>, IF Len(a) # Len(b) THEN 1 ELSE 0)
Cmp(o) ==
  CASE {"s", "l"} \subseteq o.flags \/ Len(o.files) # 2 -> Usage(2)
    [] Len(o.files) = 2 /\ Has(o, "stdin") /\ ~({"s", "l"} \subseteq o.flags) -> Usage(0)    \* both are standard input
    [] OTHER -> IF \E i \in DOMAIN o.files : ~o.files[i].opens THEN Usage(2)
                ELSE CmpCompare(o, o.files[1].text, o.files[2].text)

-----------------------------------------------------------------------------
(* diff: the lines without their newlines, and the edits that lead from    *)
(* one file to the other by a table of longest common subsequences.        *)
DiffRow(above, x, b) ==
  FoldLeft(LAMBDA row, j : Append(row, IF Compare(x, b[j]) = 0 THEN above[j] + 1 ELSE Largest(above[j + 1], Last(row))),
           <<0>>, [j \in DOMAIN b |-> j])
DiffTable(a, b) ==
  FoldLeft(LAMBDA table, x : Append(table, DiffRow(Last(table), x, b)), <<[j \in 1 .. Len(b) + 1 |-> 0]>>, a)
RECURSIVE DiffBacktrack(_, _, _, _, _)
DiffBacktrack(dp, a, b, i, j) ==
  CASE i = 0 /\ j = 0 -> <<>>
    [] i > 0 /\ j > 0 /\ Compare(a[i], b[j]) = 0 ->
         Append(DiffBacktrack(dp, a, b, i - 1, j - 1), [op |-> "equal", a |-> i, b |-> j])
    [] j > 0 /\ (i = 0 \/ (Compare(a[i], b[j]) # 0 /\ dp[i + 1][j] >= dp[i][j + 1])) ->
         Append(DiffBacktrack(dp, a, b, i, j - 1), [op |-> "insert", a |-> 0, b |-> j])
    [] OTHER -> Append(DiffBacktrack(dp, a, b, i - 1, j), [op |-> "delete", a |-> i, b |-> 0])
DiffComputeEditScript(a, b) == DiffBacktrack(DiffTable(a, b), a, b, Len(a), Len(b))

\* A hunk starts with up to three equal lines; fewer than seven equal lines
\* between two changes do not end it.
DiffContext == 3
Least(set) == CHOOSE n \in set : \A m \in set : n <= m
HunkStart(ops, k) == Least({s \in 1 .. k : k - s <= DiffContext /\ \A i \in s .. k - 1 : ops[i].op = "equal"})
RECURSIVE HunkEnd(_, _)
HunkEnd(ops, end) ==      \* the place behind the hunk
  LET changes == {i \in end .. Len(ops) : ops[i].op # "equal"}
      probe == IF changes = {} THEN Len(ops) + 1 ELSE Least(changes)
      run == probe - end
  IN CASE end > Len(ops) -> end
       [] end <= Len(ops) /\ (probe > Len(ops) \/ run > 2 * DiffContext) -> end + (IF run < DiffContext THEN run ELSE DiffContext)
       [] OTHER -> HunkEnd(ops, probe + 1)
DiffHunk(ops) ==
  LET side(k, op) == SelectSeq(ops, LAMBDA x : x.op \in {"equal", op})
      old == side("a", "delete")
      new == side("b", "insert")
  IN [aStart |-> IF old = <<>> THEN 0 ELSE old[1].a, aCount |-> Len(old),
      bStart |-> IF new = <<>> THEN 0 ELSE new[1].b, bCount |-> Len(new), ops |-> ops]
RECURSIVE DiffHunks(_, _)
DiffHunks(ops, from) ==
  LET changes == {i \in from .. Len(ops) : ops[i].op # "equal"}
      k == Least(changes)
      end == HunkEnd(ops, k)
  IN IF changes = {} THEN <<>> ELSE <<DiffHunk(SubSeq(ops, HunkStart(ops, k), end - 1))>> \o DiffHunks(ops, end)
DiffPrintHunk(hunk, a, b) ==
  LET line(x) == CASE x.op = "equal" -> <<SP>> \o a[x.a] [] x.op = "delete" -> <<45>> \o a[x.a] [] OTHER -> <<43>> \o b[x.b]
  IN <<64, Number(hunk.aStart), Number(hunk.aCount), Number(hunk.bStart), Number(hunk.bCount), NL>>
     \o Joined([k \in DOMAIN hunk.ops |-> line(hunk.ops[k]) \o <<NL>>])
Diff(o) ==
  LET a == Strings(o.files[1].text)
      b == Strings(o.files[2].text)
      hunks == DiffHunks(DiffComputeEditScript(a, b), 1)
      printed == IF Has(o, "q") THEN <<Label(1), Label(2), NL>>
                 ELSE <<45, Label(1), NL, 43, Label(2), NL>> \o Joined([k \in DOMAIN hunks |-> DiffPrintHunk(hunks[k], a, b)])
  IN CASE Len(o.files) # 2 \/ \E i \in DOMAIN o.files : o.files[i].dir \/ ~o.files[i].opens -> Usage(2)
       [] OTHER -> IF hunks = <<>> THEN Usage(0) ELSE Outcome(printed, 1)

-----------------------------------------------------------------------------
\* split: the letters behind the prefix count in base 26, two of them or as many as it takes.
SplitLength(index) == IF index < 676 THEN 2 ELSE IF index < 17576 THEN 3 ELSE 4
SplitSuffix(index) ==
  LET len == SplitLength(index)
      power(i) == IF i = 0 THEN 1 ELSE IF i = 1 THEN 26 ELSE IF i = 2 THEN 676 ELSE 17576
  IN [k \in 1 .. len |-> 97 + ((index \div power(len - k)) % 26)]
\* n: -b or -l.  m: the piece, if any, that cannot be written; the others are.
Split(o) ==
  LET f == o.files[1]
      byLines == Pieces(Lines(f.text), IF o.n <= 0 THEN 1000 ELSE o.n)
      pieces == IF Has(o, "b") THEN Pieces(f.text, o.n) ELSE [k \in DOMAIN byLines |-> Joined(byLines[k])]
  IN IF ~f.opens \/ (Has(o, "b") /\ o.n <= 0) THEN Usage(1)
     ELSE [out |-> <<>>, made |-> [k \in DOMAIN pieces |-> IF k = o.m THEN <<>> ELSE pieces[k]],
           status |-> IF o.m \in DOMAIN pieces THEN 1 ELSE 0]

\* fold: pieces of at most the width, with -s up to the last white byte in it.
RECURSIVE FoldWrapLine(_, _)
FoldWrapLine(o, line) ==
  LET white == {i \in 1 .. o.w : line[i] \in White}
      break == IF Has(o, "s") /\ white # {} THEN CHOOSE i \in white : \A j \in white : j <= i ELSE o.w
  IN IF Len(line) <= o.w THEN line ELSE UpTo(line, break) \o <<NL>> \o FoldWrapLine(o, From(line, break + 1))
FoldStream(o, t) ==   \* the newline that was there ends the last piece
  Joined([i \in DOMAIN Lines(t) |-> FoldWrapLine(o, Body(Lines(t)[i])) \o Newline(Lines(t)[i])])
Fold(o) == IF o.w <= 0 THEN Usage(1) ELSE EachFile(o, LAMBDA i : FoldStream(o, o.files[i].text))

\* fmt: as many words on a line as fit; a line of white bytes ends a paragraph and becomes an empty one.
RECURSIVE Tokens(_)
Tokens(line) ==
  LET text == Skip(line, {SP, TAB})
      rest == SkipTo(text, {SP, TAB})
  IN IF text = <<>> THEN <<>> ELSE <<UpTo(text, Len(text) - Len(rest))>> \o Tokens(rest)
FmtFlushParagraph(words, width) ==
  LET word(st, w) ==
        CASE st.col = 0 -> [out |-> st.out \o w, col |-> Len(w)]
          [] st.col > 0 /\ st.col + 1 + Len(w) <= width -> [out |-> st.out \o <<SP>> \o w, col |-> st.col + 1 + Len(w)]
          [] OTHER -> [out |-> st.out \o <<NL>> \o w, col |-> Len(w)]
      laid == FoldLeft(word, [out |-> <<>>, col |-> 0], words)
  IN IF words = <<>> THEN <<>> ELSE laid.out \o <<NL>>
FmtLine(o, st, line) ==
  IF Skip(line, White) # <<>> THEN [st EXCEPT !.words = @ \o Tokens(line)]
  ELSE [out |-> st.out \o FmtFlushParagraph(st.words, o.w) \o <<NL>>, words |-> <<>>]
FmtStream(o, t) ==
  LET st == FoldLeft(LAMBDA s, line : FmtLine(o, s, line), [out |-> <<>>, words |-> <<>>], Strings(t))
  IN st.out \o FmtFlushParagraph(st.words, o.w)
Fmt(o) == IF o.w <= 0 THEN Usage(1) ELSE EachFile(o, LAMBDA i : FmtStream(o, o.files[i].text))

\* seq from n by m to w, in units of the last decimal that is given ("float": there is one, and -w is
\* ignored); list stands between two numbers.
Zeros(n) == [k \in 1 .. (IF n > 0 THEN n ELSE 0) |-> 48]
Padded(v, width) ==       \* the zeros stand behind the sign
  LET digits == Decimal(IF v < 0 THEN -v ELSE v)
      sign == IF v < 0 THEN <<45>> ELSE <<>>
  IN sign \o Zeros(width - Len(sign) - Len(digits)) \o digits
RECURSIVE SeqValues(_, _, _)
SeqValues(value, inc, last) ==
  IF (inc > 0 /\ value > last) \/ (inc < 0 /\ value < last) THEN <<>> ELSE <<value>> \o SeqValues(value + inc, inc, last)
Seq_(o) ==
  LET values == SeqValues(o.n, o.m, o.w)
      width == IF Has(o, "w") /\ ~Has(o, "float") THEN Largest(Len(Decimal(o.n)), Len(Decimal(o.w))) ELSE 0
  IN CASE o.m = 0 -> Usage(1)
       [] o.m # 0 /\ values = <<>> -> Usage(0)
       [] OTHER -> Outcome(Joined([k \in DOMAIN values |-> (IF k > 1 THEN o.list ELSE <<>>) \o Padded(values[k], width)])
                           \o <<NL>>, 0)
=============================================================================
