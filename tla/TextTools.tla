----------------------------- MODULE TextTools -----------------------------
(***************************************************************************)
(* The text tools of core.c: cat, head, tail, sort, uniq, cut, tr, wc and  *)
(* grep, each from its request to its outcome.  Where a tool goes through  *)
(* strings of C a line ends at its first NUL, and where it goes through    *)
(* getline the last line may lack its newline.                             *)
(***************************************************************************)
EXTENDS Texts

\* cat: bytes as they are, or line by line with a count that runs on over
\* the operands.
Control(c) == IF c = 127 THEN <<94, 63>> ELSE IF c < 32 THEN <<94, c + 64>> ELSE <<c>>
Shown(o, c) ==
  CASE c = TAB -> IF Has(o, "T") THEN <<94, 73>> ELSE <<TAB>>
    [] c # TAB /\ ~Has(o, "v") -> <<c>>
    [] OTHER -> (IF c >= 128 THEN <<77, 45>> ELSE <<>>) \o Control(c % 128)
CatLine(o, st, line) ==
  LET blank == Body(line) = <<>>
      numbered == (Has(o, "b") /\ ~blank) \/ (Has(o, "n") /\ ~Has(o, "b"))
      body == Body(line)
  IN IF Has(o, "s") /\ blank /\ st.blank THEN st
     ELSE [blank |-> blank, n |-> IF numbered THEN st.n + 1 ELSE st.n,
           out |-> st.out \o (IF numbered THEN <<Number(st.n + 1), TAB>> ELSE <<>>)
                   \o Joined([i \in DOMAIN body |-> Shown(o, body[i])])
                   \o (IF Has(o, "E") THEN <<36>> ELSE <<>>) \o Newline(line)]
Readable(o) == SelectSeq(o.files, LAMBDA f : f.opens)
Cat(o) ==
  LET lines == Joined([i \in DOMAIN Readable(o) |-> Lines(Readable(o)[i].text)])
      formatted == FoldLeft(LAMBDA st, line : CatLine(o, st, line), [blank |-> FALSE, n |-> 0, out |-> <<>>], lines)
  IN IF o.flags = {} THEN EachFile(o, LAMBDA i : o.files[i].text)
     ELSE EachFile([o EXCEPT !.files = <<Holding(formatted.out)>> \o SelectSeq(@, LAMBDA f : ~f.reads)],
                   LAMBDA i : IF i = 1 THEN formatted.out ELSE <<>>)

\* head and tail.  With several operands each has a header, and a blank line
\* before it unless it is the first.
Headed(o, Do(_)) ==
  EachFile(o, LAMBDA i :
    (IF Len(o.files) = 1 THEN <<>> ELSE (IF i > 1 THEN <<NL>> ELSE <<>>) \o <<Label(i), NL>>) \o Do(o.files[i].text))
HeadStream(t, n) == Joined(AtMost(Lines(t), IF n < 0 THEN 0 ELSE n))
HeadStreamAllButLast(t, n) ==
  LET lines == Lines(t)
  IN IF n <= 0 THEN t ELSE Joined([i \in 1 .. (IF Len(lines) > n THEN Len(lines) - n ELSE 0) |-> CString(lines[i])])
TailStream(t, n) ==
  LET lines == Lines(t)
      start == IF Len(lines) > n THEN Len(lines) - n ELSE 0
  IN IF n <= 0 THEN <<>> ELSE Joined([i \in 1 .. Len(lines) - start |-> CString(lines[start + i])])
TailStreamFromLine(t, n) == Joined(From(Lines(t), IF n < 1 THEN 1 ELSE n))
Head_(o) == Headed(o, LAMBDA t : IF Has(o, "-") THEN HeadStreamAllButLast(t, o.n) ELSE HeadStream(t, o.n))
Tail_(o) == Headed(o, LAMBDA t : IF Has(o, "+") THEN TailStreamFromLine(t, o.n) ELSE TailStream(t, o.n))

\* sort.  The key is the line, or the line from field n on (m is the separator,
\* 0 for white space).
NextField(t, sep) ==
  IF sep = 0 THEN Skip(SkipTo(Skip(t, White), White), White)
  ELSE LET rest == SkipTo(t, {sep}) IN IF rest = <<>> THEN <<>> ELSE Tail(rest)
RECURSIVE FieldsOn(_, _, _)
FieldsOn(t, n, sep) == IF n <= 1 \/ t = <<>> THEN t ELSE FieldsOn(NextField(t, sep), n - 1, sep)
SortKeyOf(o, line) == IF Has(o, "k") THEN FieldsOn(line, o.n, o.m) ELSE line
SortCompareKeys(o, a, b) ==
  LET l == SortKeyOf(o, a)
      r == SortKeyOf(o, b)
  IN CASE Has(o, "n") -> LET x == Strtol(l).v - Strtol(r).v IN IF x < 0 THEN -1 ELSE IF x > 0 THEN 1 ELSE 0
       [] ~Has(o, "n") /\ Has(o, "f") -> Compare(AllUpper(l), AllUpper(r))
       [] OTHER -> Compare(l, r)
SortCompare(o, a, b) ==
  LET keys == SortCompareKeys(o, a, b)
  IN IF keys # 0 \/ Has(o, "s") THEN keys ELSE Compare(a, b)
RECURSIVE SortStableMerge(_, _, _)
SortStableMerge(o, a, b) ==
  CASE a = <<>> -> b
    [] b = <<>> -> a
    [] OTHER -> IF SortCompare(o, a[1], b[1]) <= 0 THEN <<a[1]>> \o SortStableMerge(o, Tail(a), b)
                ELSE <<b[1]>> \o SortStableMerge(o, a, Tail(b))
RECURSIVE SortStable(_, _)
SortStable(o, lines) ==
  LET mid == Len(lines) \div 2
  IN IF Len(lines) < 2 THEN lines
     ELSE SortStableMerge(o, SortStable(o, UpTo(lines, mid)), SortStable(o, From(lines, mid + 1)))
SortCheckOrder(o, lines) ==
  IF \E i \in 2 .. Len(lines) :
       LET order == SortCompare(o, lines[i - 1], lines[i]) IN IF Has(o, "r") THEN order < 0 ELSE order > 0
  THEN 1 ELSE 0
\* -u keeps a line unless its key is that of the last line printed.
SortPrinted(o, lines) ==
  FoldLeft(LAMBDA kept, line :
             IF Has(o, "u") /\ kept # <<>> /\ SortCompareKeys(o, Last(kept), line) = 0 THEN kept
             ELSE Append(kept, line),
           <<>>, IF Has(o, "r") THEN Reverse(lines) ELSE lines)
Sort(o) ==
  LET lines == Joined([i \in DOMAIN o.files |-> Lines(o.files[i].text)])
      strings == [i \in DOMAIN lines |-> CString(lines[i])]
  IN CASE \E i \in DOMAIN o.files : ~o.files[i].reads -> Usage(1)
       [] (\A i \in DOMAIN o.files : o.files[i].reads) /\ Has(o, "c") -> Usage(SortCheckOrder(o, strings))
       [] OTHER -> Outcome(Joined(SortPrinted(o, SortStable(o, strings))), 0)

\* uniq: repeated lines next to each other are one group, of the first of them.  The key leaves out n
\* fields and then m bytes, and w bytes of it count (0: all).
RECURSIVE UniqSkipFields(_, _)
UniqSkipFields(t, n) ==
  IF n <= 0 THEN t ELSE UniqSkipFields(SkipTo(Skip(t, {SP, TAB}), {SP, TAB}), n - 1)
UniqComparisonKey(o, line) ==
  LET fields == UniqSkipFields(line, o.n)
      key == From(fields, (IF o.m < Len(fields) THEN o.m ELSE Len(fields)) + 1)
      counted == IF o.w > 0 THEN AtMost(key, o.w) ELSE key
  IN IF Has(o, "i") THEN AllLower(counted) ELSE counted
UniqCompareLines(o, a, b) == Compare(UniqComparisonKey(o, a), UniqComparisonKey(o, b))
UniqEmit(o, line, count) ==
  IF (Has(o, "d") /\ count < 2) \/ (Has(o, "u") /\ count > 1) THEN <<>>
  ELSE (IF Has(o, "c") THEN <<Number(count), SP>> ELSE <<>>) \o line
UniqLine(o, st, line) ==
  IF st.count > 0 /\ UniqCompareLines(o, st.prev, line) = 0 THEN [st EXCEPT !.count = @ + 1]
  ELSE [prev |-> line, count |-> 1,
        out |-> IF st.count > 0 THEN st.out \o UniqEmit(o, st.prev, st.count) ELSE st.out]
\* Slip: the end of the input forgets the group that is being counted.
UniqForgetsLast(o, t) ==
  FoldLeft(LAMBDA s, line : UniqLine(o, s, CString(line)), [prev |-> <<>>, count |-> 0, out |-> <<>>], Lines(t)).out
UniqStream(o, t) ==
  LET st == FoldLeft(LAMBDA s, line : UniqLine(o, s, CString(line)), [prev |-> <<>>, count |-> 0, out |-> <<>>], Lines(t))
  IN IF st.count > 0 THEN st.out \o UniqEmit(o, st.prev, st.count) ELSE <<>>
Uniq(o) == EachFile(o, LAMBDA i : UniqStream(o, o.files[i].text))

-----------------------------------------------------------------------------
(* cut: the list is N, N-M, N- or -M behind commas; what stands right      *)
(* behind an entry is read as the next one.                                *)
Comma == 44
Dash == 45
CutEntry(t) ==   \* [ok, start, end (-1: no end), rest] of the entry at the start of t
  LET first == Strtol(t)
      bound == Strtol(Tail(first.rest))
      upTo == Strtol(Tail(t))
      open == first.rest # <<>> /\ first.rest[1] = Dash
  IN CASE t[1] = Dash -> [ok |-> upTo.ok, start |-> 1, end |-> upTo.v, rest |-> upTo.rest]
       [] t[1] # Dash /\ ~open -> [ok |-> first.ok /\ first.v > 0, start |-> first.v, end |-> first.v, rest |-> first.rest]
       [] t[1] # Dash /\ open /\ (Len(first.rest) = 1 \/ first.rest[2] = Comma) ->
            [ok |-> first.ok /\ first.v > 0, start |-> first.v, end |-> -1, rest |-> Tail(first.rest)]
       [] OTHER -> [ok |-> first.ok /\ first.v > 0 /\ bound.ok, start |-> first.v, end |-> bound.v, rest |-> bound.rest]
RECURSIVE CutEntries(_, _)
CutEntries(t, ranges) ==
  LET text == Skip(t, {Comma})
      entry == CutEntry(text)
  IN IF text = <<>> THEN ranges
     ELSE IF ~entry.ok THEN <<>> ELSE CutEntries(entry.rest, Append(ranges, [start |-> entry.start, end |-> entry.end]))
CutParseList(t) == CutEntries(t, <<>>)   \* none: the list is invalid
CutRangesContain(ranges, k) ==
  \E i \in DOMAIN ranges : k >= ranges[i].start /\ (ranges[i].end = -1 \/ k <= ranges[i].end)
Selected(o, k) == CutRangesContain(CutParseList(o.list), k) # Has(o, "complement")

\* The fields of a line between separators.
RECURSIVE Fields(_, _)
Fields(t, sep) ==
  IF Contains(t, sep) THEN <<UpTo(t, Place(sep, t) - 1)>> \o Fields(From(t, Place(sep, t) + 1), sep) ELSE <<t>>
RECURSIVE Behind(_, _)
Behind(parts, sep) == IF Len(parts) <= 1 THEN Joined(parts) ELSE parts[1] \o sep \o Behind(Tail(parts), sep)
Which(t, Test(_)) == LET at == SelectSeq([i \in DOMAIN t |-> i], Test) IN [k \in DOMAIN at |-> t[at[k]]]
Terminator(o) == IF Has(o, "z") THEN <<NUL>> ELSE <<NL>>
CutPrintFields(o, line) ==   \* m: the separator; sets[1], if any, stands between the fields that are printed
  IF ~Contains(line, o.m) THEN IF Has(o, "s") THEN <<>> ELSE line \o Terminator(o)
  ELSE Behind(Which(Fields(line, o.m), LAMBDA k : Selected(o, k)), IF o.sets = <<>> THEN <<o.m>> ELSE o.sets[1])
       \o Terminator(o)
CutPrintChars(o, line) == Which(line, LAMBDA k : Selected(o, k)) \o Terminator(o)
CutStream(o, t) ==
  Joined([i \in DOMAIN Lines(t) |->
            LET line == CString(Body(Lines(t)[i])) IN IF Has(o, "f") THEN CutPrintFields(o, line) ELSE CutPrintChars(o, line)])
Cut(o) ==
  IF CutParseList(o.list) = <<>> \/ Cardinality(o.flags \cap {"b", "c", "f"}) # 1 \/ (Has(o, "s") /\ ~Has(o, "f")) THEN Usage(1)
  ELSE EachFile(o, LAMBDA i : CutStream(o, o.files[i].text))

-----------------------------------------------------------------------------
(* tr.  A class such as [:upper:] is one symbol of a set.                  *)
Class(k) == 2000 + k
ClassMembers(k) == <<Lower \cup Upper, Digits, Upper, Lower, White>>[k]   \* alpha, digit, upper, lower, space
Ascending(set) == SelectSeq([k \in 1 .. 256 |-> k - 1], LAMBDA c : c \in set)
Backslash == 92
TrEscape(c) == CASE c = 110 -> NL [] c = 116 -> TAB [] c = 114 -> 13 [] c = 48 -> NUL [] OTHER -> c
RepeatEnd(t) ==   \* where [c*n] ends; 0: t does not start with one
  LET rest == Skip(From(t, 4), Digits) IN
  IF Len(t) > 3 /\ t[1] = 91 /\ t[3] = 42 /\ rest # <<>> /\ rest[1] = 93 THEN Len(t) - Len(rest) + 1 ELSE 0
RECURSIVE TrExpandSet(_)
TrExpandSet(t) ==
  LET times == Strtol(From(t, 4))
      range == Len(t) > 2 /\ t[2] = Dash /\ t[1] # Backslash /\ t[1] <= t[3]
  IN CASE t = <<>> -> <<>>
       [] t # <<>> /\ t[1] > 2000 -> Ascending(ClassMembers(t[1] - 2000)) \o TrExpandSet(Tail(t))
       [] t # <<>> /\ t[1] <= 2000 /\ RepeatEnd(t) > 0 ->
            [k \in 1 .. (IF times.ok THEN times.v ELSE 1) |-> t[2]] \o TrExpandSet(From(t, RepeatEnd(t) + 1))
       [] t # <<>> /\ t[1] <= 2000 /\ RepeatEnd(t) = 0 /\ range -> [k \in 1 .. t[3] - t[1] + 1 |-> t[1] + k - 1] \o TrExpandSet(From(t, 4))
       [] t # <<>> /\ RepeatEnd(t) = 0 /\ ~range /\ t[1] = Backslash /\ Len(t) > 1 -> <<TrEscape(t[2])>> \o TrExpandSet(From(t, 3))
       [] OTHER -> <<t[1]>> \o TrExpandSet(Tail(t))

TrSet1(o) ==
  LET set == TrExpandSet(o.sets[1]) IN IF Has(o, "c") THEN Ascending((0 .. 255) \ Range(set)) ELSE set
TrMap(from, to, c) ==   \* the last place of a byte in the first set counts
  IF to = <<>> \/ ~Contains(from, c) THEN c
  ELSE LET i == CHOOSE k \in DOMAIN from : from[k] = c /\ \A j \in k + 1 .. Len(from) : from[j] # c
       IN to[IF i <= Len(to) THEN i ELSE Len(to)]
\* One byte: what was squeezed last (-1: nothing that can repeat) and what was written.
TrByte(o, from, to, st, c0) ==
  LET both == Len(o.sets) > 1
      c == IF ~Has(o, "d") /\ both THEN TrMap(from, to, c0) ELSE c0
      candidate == Has(o, "s") /\ (IF both THEN Contains(to, c) ELSE ~Has(o, "d") /\ Contains(from, c))
  IN IF (Has(o, "d") /\ Contains(from, c)) \/ (candidate /\ st.last = c) THEN st
     ELSE [out |-> Append(st.out, c), last |-> IF candidate THEN c ELSE -1]
Tr(o) ==
  LET from == TrSet1(o)
      to == IF Len(o.sets) > 1 THEN TrExpandSet(o.sets[2]) ELSE <<>>
  IN IF o.sets = <<>> \/ (Len(o.sets) = 1 /\ o.flags \cap {"d", "s"} = {}) THEN Usage(1)
     ELSE Outcome(FoldLeft(LAMBDA st, c : TrByte(o, from, to, st, c), [out |-> <<>>, last |-> -1], o.files[1].text).out,
                  IF o.files[1].reads THEN 0 ELSE 1)

-----------------------------------------------------------------------------
(* The tools that go through a stream and keep an account of it: wc, grep,  *)
(* sum and tee.                                                            *)

\* wc.  A word begins at each byte that is not white and follows one that is, or nothing.
WcFast(t) ==
  [lines |-> Cardinality({i \in DOMAIN t : t[i] = NL}),
   words |-> Cardinality({i \in DOMAIN t : t[i] \notin White /\ (i = 1 \/ t[i - 1] \in White)}),
   bytes |-> Len(t), chars |-> Len(t), width |-> 0]

\* A locale with characters of one and of two bytes.  -2: s ends within a
\* character; -1: no character; owed: the last call left a character half read.
Lead == 192 .. 223
Continuation == 128 .. 191
mbrtowc(s, owed) ==
  CASE owed -> IF s[1] \in Continuation THEN 1 ELSE -1
    [] ~owed /\ s[1] \in Lead /\ Len(s) = 1 -> -2
    [] ~owed /\ s[1] \in Lead /\ Len(s) > 1 -> IF s[2] \in Continuation THEN 2 ELSE -1
    [] OTHER -> IF s[1] < 128 THEN 1 ELSE -1
WcColumn(st, c) ==
  CASE c = NL -> [st EXCEPT !.width = IF st.column > @ THEN st.column ELSE @, !.column = 0]
    [] c = TAB -> [st EXCEPT !.column = (@ \div 8 + 1) * 8]
    [] OTHER -> [st EXCEPT !.column = @ + 1]
\* What a read brought, behind what the read before left over.
RECURSIVE WcDecode(_, _)
WcDecode(st, s) ==
  LET rc == mbrtowc(s, st.owed)
      next == WcColumn([st EXCEPT !.chars = @ + 1, !.owed = FALSE], IF rc = 1 THEN s[1] ELSE -1)
  IN CASE s = <<>> -> [st EXCEPT !.carry = <<>>]
       [] s # <<>> /\ rc = -2 -> [st EXCEPT !.carry = s, !.owed = TRUE]
       [] OTHER -> WcDecode(next, From(s, IF rc = 2 THEN 3 ELSE 2))
Reads(t, size) == IF size = 0 THEN <<t>> ELSE Pieces(t, size)
WcWide(t, size) ==
  LET st == FoldLeft(LAMBDA s, read : WcDecode(s, s.carry \o read),
                     [chars |-> 0, column |-> 0, width |-> 0, carry |-> <<>>, owed |-> FALSE], Reads(t, size))
  IN [WcFast(t) EXCEPT !.chars = st.chars, !.width = IF st.column > st.width THEN st.column ELSE st.width]

\* w: what a read brings at most (0: everything).
WcShown(o) == IF o.flags \cap {"l", "w", "m", "c", "L"} = {} THEN {"l", "w", "c"} ELSE o.flags
WcProcessFile(o, f) == IF o.flags \cap {"m", "L"} # {} THEN WcWide(f.text, o.w) ELSE WcFast(f.text)
WcPrint(o, counts, label) ==
  Joined([i \in 1 .. 5 |->
            IF <<"l", "w", "m", "c", "L">>[i] \in WcShown(o)
            THEN <<Number(<<counts.lines, counts.words, counts.chars, counts.bytes, counts.width>>[i])>> ELSE <<>>])
  \o label \o <<NL>>
WcTotal(a, b) ==
  [lines |-> a.lines + b.lines, words |-> a.words + b.words, bytes |-> a.bytes + b.bytes, chars |-> a.chars + b.chars,
   width |-> IF b.width > a.width THEN b.width ELSE a.width]
Wc(o) ==
  LET counts == [i \in DOMAIN o.files |-> WcProcessFile(o, o.files[i])]
      read == SelectSeq([i \in DOMAIN o.files |-> i], LAMBDA i : o.files[i].reads)
      total == FoldLeft(LAMBDA sum, i : WcTotal(sum, counts[i]), WcFast(<<>>), read)
  IN Outcome(Joined([k \in DOMAIN read |-> WcPrint(o, counts[read[k]], IF Has(o, "stdin") THEN <<>> ELSE <<SP, Label(read[k])>>)])
             \o (IF Len(o.files) > 1 THEN WcPrint(o, total, <<SP, Label(0)>>) ELSE <<>>),
             IF Len(read) < Len(o.files) THEN 1 ELSE 0)

-----------------------------------------------------------------------------
(* grep.  The patterns are literal texts with an anchor at either end; so  *)
(* and eo are the places before the first and at the last byte of a match. *)
Caret == 94
Dollar == 36
Colon == 58
Escape(k) == 3000 + k      \* what switches a colour on or off
Folded(o, t) == IF Has(o, "i") THEN AllLower(t) ELSE t
Anchored(o, p, c, i) == ~Has(o, "F") /\ p # <<>> /\ p[i] = c
\* Where a pattern matches in s: all pairs [so, eo].
MatchesOf(o, p, s, notbol) ==
  LET front == Anchored(o, p, Caret, 1)
      back == Anchored(o, p, Dollar, Len(p))
      text == Folded(o, SubSeq(p, IF front THEN 2 ELSE 1, IF back THEN Len(p) - 1 ELSE Len(p)))
  IN {m \in {[so |-> i, eo |-> i + Len(text)] : i \in 0 .. Len(s)} :
        /\ m.eo <= Len(s) /\ Folded(o, SubSeq(s, m.so + 1, m.eo)) = text
        /\ front => m.so = 0 /\ ~notbol
        /\ back => m.eo = Len(s)}
NoMatch == [so |-> -1, eo |-> -1]
\* The leftmost match, and the longest there; the string ends at a NUL.
regexec(o, line, offset, notbol) ==
  LET s == CString(From(line, offset + 1))
      all == UNION {MatchesOf(o, o.sets[k], s, notbol) : k \in DOMAIN o.sets}
  IN IF all = {} THEN NoMatch
     ELSE CHOOSE m \in all : \A other \in all : m.so < other.so \/ (m.so = other.so /\ m.eo >= other.eo)
Shifted(m, offset) == [so |-> m.so + offset, eo |-> m.eo + offset]
Past(m, offset) == IF m.eo > offset THEN m.eo ELSE offset + 1     \* where the search goes on
IsWordChar(c) == c \in Lower \cup Upper \cup Digits \cup {95}
WordBounded(line, m) ==
  /\ m.so = 0 \/ ~IsWordChar(line[m.so])
  /\ m.eo = Len(line) \/ ~IsWordChar(line[m.eo + 1])

RECURSIVE GrepFindWordMatch(_, _, _)
GrepFindWordMatch(o, line, offset) ==
  LET m == regexec(o, line, offset, offset > 0)
  IN CASE offset > Len(line) -> FALSE
       [] offset <= Len(line) /\ m = NoMatch -> FALSE
       [] OTHER -> WordBounded(line, Shifted(m, offset)) \/ GrepFindWordMatch(o, line, Past(Shifted(m, offset), offset))
GrepMatchesEx(o, line) ==
  LET m == regexec(o, line, 0, FALSE)
  IN CASE Has(o, "x") -> m = [so |-> 0, eo |-> Len(line)]
       [] ~Has(o, "x") /\ Has(o, "w") -> GrepFindWordMatch(o, line, 0)
       [] OTHER -> m # NoMatch
\* -o: every match of its own, one behind the other.
RECURSIVE GrepPrintAllMatches(_, _, _, _)
GrepPrintAllMatches(o, before, line, offset) ==
  LET found == regexec(o, line, offset, offset > 0)
      m == Shifted(found, offset)
      ok == IF Has(o, "x") THEN m = [so |-> 0, eo |-> Len(line)] ELSE ~Has(o, "w") \/ WordBounded(line, m)
  IN CASE offset > Len(line) -> <<>>
       [] offset <= Len(line) /\ found = NoMatch -> <<>>
       [] OTHER -> (IF ok /\ m.eo > m.so THEN before \o SubSeq(line, m.so + 1, m.eo) \o <<NL>> ELSE <<>>)
                   \o GrepPrintAllMatches(o, before, line, Past(m, offset))
\* --color=always: every match, with no regard to -w and -x.
RECURSIVE GrepHighlightMatches(_, _, _)
GrepHighlightMatches(o, line, cursor) ==
  LET found == regexec(o, line, cursor, cursor > 0)
      m == Shifted(found, cursor)
      painted == SubSeq(line, cursor + 1, m.so) \o <<Escape(1)>> \o SubSeq(line, m.so + 1, m.eo) \o <<Escape(0)>>
  IN CASE found = NoMatch -> From(line, cursor + 1)
       [] found # NoMatch /\ m.so >= Len(line) -> From(line, cursor + 1)
       [] OTHER -> IF m.eo = m.so THEN painted \o <<line[m.so + 1]>> \o GrepHighlightMatches(o, line, m.so + 1)
                   ELSE painted \o GrepHighlightMatches(o, line, m.eo)

\* What stands before a line that is printed: the name of the file and the number of the line.
GrepBefore(prefix, n, first, second, colon) ==
  (IF prefix = <<>> THEN <<>> ELSE first \o prefix \o colon) \o (IF n = 0 THEN <<>> ELSE second \o <<Number(n)>> \o colon)
GrepPrintMatch(o, prefix, n, line) ==
  IF Has(o, "color") /\ ~Has(o, "v")
  THEN GrepBefore(prefix, n, <<Escape(2)>>, <<Escape(3)>>, <<Escape(4), Colon, Escape(0)>>) \o GrepHighlightMatches(o, line, 0)
  ELSE GrepBefore(prefix, n, <<>>, <<>>, <<Colon>>) \o line
Silent(o) == o.flags \cap {"q", "l", "L"} # {}
GrepLine(o, prefix, st, text) ==
  LET line == Body(text)
      n == IF Has(o, "n") THEN st.n + 1 ELSE 0
      read == [st EXCEPT !.n = @ + 1]
      found == [read EXCEPT !.status = 0, !.count = @ + 1, !.stop = Silent(o) \/ (o.m > 0 /\ st.count + 1 >= o.m)]
  IN CASE st.stop -> st
       [] ~st.stop /\ GrepMatchesEx(o, line) = Has(o, "v") -> read
       [] ~st.stop /\ GrepMatchesEx(o, line) # Has(o, "v") /\ (Silent(o) \/ Has(o, "c")) -> found
       [] OTHER ->
            [found EXCEPT !.out = @ \o
               (IF Has(o, "o") /\ ~Has(o, "v")
                THEN GrepPrintAllMatches(o, GrepBefore(prefix, n, <<>>, <<>>, <<Colon>>), line, 0)
                ELSE GrepPrintMatch(o, prefix, n, line) \o Newline(text))]
\* m: -m.  What a file gives at its end is for the first of -q, -l, -L and -c.
GrepScanStream(o, prefix, label, t) ==
  LET st == FoldLeft(LAMBDA s, text : GrepLine(o, prefix, s, text),
                     [out |-> <<>>, status |-> 1, count |-> 0, n |-> 0, stop |-> FALSE], Lines(t))
      named(wanted) == IF (st.status = 0) = wanted THEN <<label, NL>> ELSE <<>>
      count == (IF prefix = <<>> THEN <<>> ELSE prefix \o <<Colon>>) \o <<Number(st.count), NL>>
  IN [out |-> st.out \o
              CASE Has(o, "q") -> <<>>
                [] ~Has(o, "q") /\ Has(o, "l") -> named(TRUE)
                [] ~Has(o, "q") /\ ~Has(o, "l") /\ Has(o, "L") -> named(FALSE)
                [] OTHER -> IF Has(o, "c") THEN count ELSE <<>>,
      status |-> IF Has(o, "L") THEN 1 - st.status ELSE st.status]
GrepPrefixed(o) == IF Has(o, "H") THEN TRUE ELSE ~Has(o, "h") /\ (Len(o.files) > 1 \/ Has(o, "r"))
\* From here on st is the output and the status so far.
\* Slip: a failure counts more than a match.
FailedAlways(st) == [st EXCEPT !.status = 2]
Failed(st) == [st EXCEPT !.status = IF @ = 0 THEN 0 ELSE 2]
RECURSIVE GrepWalkPath(_, _, _, _)
GrepWalkPath(o, st, f, label) ==
  LET scan == GrepScanStream(o, IF GrepPrefixed(o) THEN <<label>> ELSE <<>>, label, IF f.reads THEN f.text ELSE <<>>)
  IN CASE ~f.opens \/ (f.dir /\ ~Has(o, "r")) -> Failed(st)
       [] f.dir /\ Has(o, "r") ->
            FoldLeft(LAMBDA s, k : GrepWalkPath(o, s, f.entries[k], 10 * label - k), st, [k \in DOMAIN f.entries |-> k])
       [] OTHER -> [out |-> st.out \o scan.out,
                    status |-> IF scan.status = 0 THEN 0 ELSE IF st.status # 0 THEN 1 ELSE 0]
Grep(o) ==
  LET st == IF Has(o, "stdin") THEN GrepScanStream(o, <<>>, Label(0), o.files[1].text)
            ELSE FoldLeft(LAMBDA s, i : GrepWalkPath(o, s, o.files[i], Label(i)), [out |-> <<>>, status |-> 1],
                          [i \in DOMAIN o.files |-> i])
  IN IF o.sets = <<>> THEN Usage(1) ELSE Outcome(st.out, st.status)

-----------------------------------------------------------------------------
(* sum: a checksum of 16 bits and the number of blocks.                    *)
Word == 65536
BsdSum(t) == FoldLeft(LAMBDA sum, c : (sum \div 2 + (sum % 2) * (Word \div 2) + c) % Word, 0, t)
SysvSum(t) ==
  LET sum == FoldLeft(LAMBDA s, c : s + c, 0, t)
      once == (sum % Word) + (sum \div Word)
  IN ((once % Word) + (once \div Word)) % Word
Blocks(t, size) == (Len(t) + size - 1) \div size
SumOf(o, f) ==
  IF Has(o, "s") THEN <<Number(SysvSum(f.text)), SP, Number(Blocks(f.text, 512))>>
  ELSE <<Number(BsdSum(f.text)), SP, Number(Blocks(f.text, 1024))>>
Sum(o) ==
  Outcome(Joined([i \in DOMAIN o.files |->
                    IF ~o.files[i].opens THEN <<>>
                    ELSE SumOf(o, o.files[i]) \o (IF Has(o, "stdin") THEN <<>> ELSE <<SP, Label(i)>>) \o <<NL>>]),
          0)

(* tee: sets[1] is what it reads, up to a failure if it is cut.  A file    *)
(* that opens and does not read stands here for one that cannot be         *)
(* written: it is given up at the first write, and so is a closed output.  *)
Tee(o) ==
  LET input == o.sets[1]
      written(f) == IF f.opens /\ f.reads THEN (IF Has(o, "a") THEN f.text ELSE <<>>) \o input ELSE <<>>
      refused == Has(o, "closed") \/ \E i \in DOMAIN o.files : o.files[i].opens /\ ~o.files[i].reads
  IN [out |-> IF Has(o, "closed") THEN <<>> ELSE input, made |-> [i \in DOMAIN o.files |-> written(o.files[i])],
      status |-> IF Has(o, "cut") \/ (input # <<>> /\ refused) THEN 1 ELSE 0]
=============================================================================
