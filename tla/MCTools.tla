------------------------------ MODULE MCTools ------------------------------
(***************************************************************************)
(* The text tools held against each other: what two of them, or two        *)
(* options of one, must make of the same small text, and what becomes of a *)
(* tool one of whose files fails.                                          *)
(***************************************************************************)
EXTENDS TextTools, LineTools, DataTools, ArgTools

VARIABLE asked    \* the law that is tried, and on what

Case(law, a, b, k) == [law |-> law, a |-> a, b |-> b, k |-> k, tool |-> "", files |-> <<>>]
On(t) == [Request EXCEPT !.files = <<Holding(t)>>]
Both(a, b) == [Request EXCEPT !.files = <<Holding(a), Holding(b)>>]
Flagged(o, flags) == [o EXCEPT !.flags = flags]
SeqsTo(set, n) == UNION {[1 .. k -> set] : k \in 0 .. n}
AllEnded(t) == t = <<>> \/ Last(t) = NL
SetOf(s) == {s[i] : i \in DOMAIN s}
Total(s) == FoldLeft(LAMBDA sum, n : sum + n, 0, s)
Occurs(s, x) == Cardinality({i \in DOMAIN s : s[i] = x})
Permuted(s, t) == Len(s) = Len(t) /\ \A x \in SetOf(s) : Occurs(s, x) = Occurs(t, x)
Counted(t, set) == Cardinality({i \in DOMAIN t : t[i] \in set})
Without(t, set) == SelectSeq(t, LAMBDA c : c \notin set)
Numbers(t) == LET n == SelectSeq(t, LAMBDA c : c >= Number(0)) IN [i \in DOMAIN n |-> n[i] - Number(0)]

-----------------------------------------------------------------------------
(* The laws.                                                               *)

\* What head leaves is what tail prints.
HeadLaw(t, k) ==
  LET head(flags, n) == Head_([Flagged(On(t), flags) EXCEPT !.n = n]).out
      tail(flags, n) == Tail_([Flagged(On(t), flags) EXCEPT !.n = n]).out
  IN /\ head({}, k) \o tail({"+"}, k + 1) = t
     /\ head({"-"}, k) \o tail({}, k) = t
     /\ Len(Lines(tail({}, k))) <= k
TwoBlank(t) == \E i \in 2 .. Len(Lines(t)) : SubSeq(Lines(t), i - 1, i) = <<<<NL>>, <<NL>>>>
\* cat of two files is their texts; its numbers are nl's; it squeezes what was squeezed no further.
CatLaw(a, b) ==
  LET cat(flags) == Cat(Flagged(On(a \o b), flags)).out
  IN /\ Cat(Both(a, b)).out = a \o b
     /\ cat({"n"}) = Nl([Flagged(On(a \o b), {"a"}) EXCEPT !.list = <<TAB>>]).out
     /\ cat({"b"}) = Without(Nl([On(a \o b) EXCEPT !.list = <<TAB>>]).out, {SP})
     /\ Without(cat({"E"}), {36}) = a \o b /\ Counted(cat({"E"}), {36}) = Len(Lines(a \o b))
     /\ Cat(Flagged(On(cat({"s"})), {"s"})).out = cat({"s"})
     /\ ~TwoBlank(cat({"s"})) /\ (TwoBlank(a \o b) \/ cat({"s"}) = a \o b)
     /\ AllEnded(a) => Cat(Flagged(Both(a, b), {"n"})).out = cat({"n"})
\* sort permutes and orders, is stable with -s, and agrees with uniq, tac and its own -c.
SortLaw(t, flags) ==
  LET sort(extra) == Sort(Flagged(On(t), flags \cup extra)).out
      inOrder(text, extra) == Sort(Flagged(On(text), flags \cup extra \cup {"c"})).status = 0
      lines == Lines(t)
      same(line) == SelectSeq(lines, LAMBDA l : AllUpper(l) = AllUpper(line))
      folds == "f" \in flags
  IN /\ Permuted(lines, Lines(sort({})))
     /\ inOrder(sort({}), {}) /\ inOrder(sort({"r"}), {"r"})
     /\ inOrder(t, {}) = (sort({}) = t)
     /\ Tac(On(sort({}))).out = sort({"r"})
     /\ sort({"u"}) = Uniq(Flagged(On(sort({})), IF folds THEN {"i"} ELSE {})).out
     /\ folds => \A line \in SetOf(lines) :
                   SelectSeq(Lines(sort({"s"})), LAMBDA l : AllUpper(l) = AllUpper(line)) = same(line)
\* uniq: -d and -u share the groups out between them, -c counts every line.
UniqLaw(t) ==
  LET uniq(flags) == Uniq(Flagged(On(t), flags)).out
      once == Lines(uniq({}))
  IN /\ Uniq(On(uniq({}))).out = uniq({})
     /\ Len(Lines(uniq({"d"}))) + Len(Lines(uniq({"u"}))) = Len(once)
     /\ Total(Numbers(uniq({"c"}))) = Len(Lines(t))
     /\ SetOf(once) = SetOf(Lines(t))
     /\ \A i \in 2 .. Len(once) : once[i] # once[i - 1]
\* cut: a list and its complement are the whole line, whatever the order of the list.
Lists == <<<<49>>, <<50, 45>>, <<45, 50>>, <<49, 44, 51>>, <<51, 44, 49>>, <<50, 45, 51>>>>   \* 1 2- -2 1,3 3,1 2-3
CutLaw(t, k) ==
  LET cut(flags, list) == Cut([Flagged(On(t), flags) EXCEPT !.list = list, !.m = 58]).out
      kept(flags) == cut(flags, Lists[k])
      left(flags) == cut(flags \cup {"complement"}, Lists[k])
  IN /\ Permuted(Without(kept({"c"}) \o left({"c"}), {NL}), Without(t, {NL}))
     /\ cut({"f"}, Lists[4]) = cut({"f"}, Lists[5])
     /\ Len(Lines(kept({"f"}))) = Len(Lines(t))
     /\ \A i \in DOMAIN Lines(t) :
          Contains(Lines(t)[i], 58) =>
            Permuted(Without(Lines(kept({"f"}))[i] \o Lines(left({"f"}))[i], {NL, 58}), Without(Lines(t)[i], {NL, 58}))
     /\ (\A i \in DOMAIN Lines(t) : Contains(Lines(t)[i], 58)) /\ AllEnded(t) =>
          Paste([Both(cut({"f"}, <<49>>), cut({"f"}, <<50, 45>>)) EXCEPT !.list = <<58>>]).out = t
\* tr: what -d drops -cd keeps, -s leaves no pair, and letters changed there and back are lower letters.
Sets == <<<<97>>, <<97, 45, 98>>, <<2000 + 4>>, <<91, 97, 42, 50, 93, 66>>, <<92, 110, 97>>>>   \* a a-b [:lower:] [a*2]B \na
TrLaw(t, k) ==
  LET tr(text, flags, sets) == Tr([Flagged(On(text), flags) EXCEPT !.sets = sets]).out
      set == SetOf(TrExpandSet(Sets[k]))
      squeezed == tr(t, {"s"}, <<Sets[k]>>)
  IN /\ tr(t, {"d"}, <<Sets[k]>>) = Without(t, set)
     /\ Len(tr(t, {"d"}, <<Sets[k]>>)) + Len(tr(t, {"c", "d"}, <<Sets[k]>>)) = Len(t)
     /\ tr(squeezed, {"s"}, <<Sets[k]>>) = squeezed
     /\ \A i \in 2 .. Len(squeezed) : squeezed[i] = squeezed[i - 1] => squeezed[i] \notin set
     /\ tr(tr(t, {}, <<<<2000 + 4>>, <<2000 + 3>>>>), {}, <<<<2000 + 3>>, <<2000 + 4>>>>) = AllLower(t)
     /\ tr(t, {"s"}, <<Sets[k], <<88>>>>) = tr(tr(t, {}, <<Sets[k], <<88>>>>), {"s"}, <<<<88>>>>)
\* wc: the words fmt would lay out, the lines and bytes of any cut into two files, and the same
\* characters however the text is read, unless a read ends within one.
Splits(t, size) == size > 0 /\ \E i \in DOMAIN t : i % size = 0 /\ i < Len(t) /\ t[i] \in Lead /\ t[i + 1] \in Continuation
WcLaw(t, k) ==
  LET wc(flags) == Wc(Flagged(On(t), flags)).out[1] - Number(0)
      halves == Numbers(Wc(Flagged(Both(AtMost(t, k), From(t, k + 1)), {"l", "c"})).out)
  IN /\ wc({"w"}) = Len(SelectSeq(Lines(Fmt([On(t) EXCEPT !.w = 1]).out), LAMBDA line : line # <<NL>>))
     /\ wc({"l"}) = Counted(t, {NL}) /\ wc({"c"}) = Len(t)
     /\ wc({"l"}) + (IF AllEnded(t) THEN 0 ELSE 1) = Numbers(Grep([Flagged(On(t), {"c"}) EXCEPT !.sets = <<<<>>>>]).out)[1]
     /\ k <= Len(t) => SubSeq(halves, 5, 6) = <<wc({"l"}), Len(t)>>
     /\ ~Splits(t, k) => WcWide(t, k) = WcWide(t, 0)
     /\ Splits(t, k) => WcWide(t, k).chars > WcWide(t, 0).chars
     /\ wc({"m"}) = Len(t) - Cardinality({i \in 2 .. Len(t) : t[i - 1] \in Lead /\ t[i] \in Continuation})
                    - (IF t # <<>> /\ Last(t) \in Lead THEN 1 ELSE 0)
\* grep: -v prints the other lines, and every option tells the same story.
Patterns == <<<<<<97>>>>, <<<<97, 98>>>>, <<<<94, 97>>>>, <<<<98, 36>>>>, <<<<>>>>, <<<<98, 98>>, <<94, 97>>>>, <<<<94, 36>>>>>>
GrepLaw(t, k) ==
  LET grep(flags) == Grep([Flagged(On(t), flags) EXCEPT !.sets = Patterns[k]])
      first(n) == Grep([On(t) EXCEPT !.sets = Patterns[k], !.m = n]).out
      printed == Lines(grep({}).out)
      count(flags) == Numbers(grep(flags \cup {"c"}).out)[1]
  IN /\ Permuted(printed \o Lines(grep({"v"}).out), Lines(t))
     /\ count({}) = Len(printed) /\ count({}) + count({"v"}) = Len(Lines(t))
     /\ grep({}).status = (IF printed = <<>> THEN 1 ELSE 0)
     /\ \A flag \in {"q", "c", "n", "l", "o"} : grep({flag}).status = grep({}).status
     /\ grep({"L"}).status = 1 - grep({}).status
     /\ (grep({"l"}).out = <<>>) # (grep({"L"}).out = <<>>)
     /\ \A n \in 1 .. 2 : first(n) = Head_([On(grep({}).out) EXCEPT !.n = n]).out
     /\ SelectSeq(grep({"color"}).out, LAMBDA c : c < Escape(0)) = grep({}).out
     /\ Patterns[k] = <<<<94, 97>>>> => Len(Lines(grep({"o"}).out)) = count({})
     /\ count({"x"}) <= count({"w"}) /\ count({"w"}) <= count({})
     /\ count({"i"}) = Numbers(Grep([Flagged(On(AllLower(t)), {"c"}) EXCEPT !.sets = Patterns[k]]).out)[1]
     /\ \A i \in DOMAIN Lines(grep({"o"}).out) :
          Grep([Flagged(On(Lines(grep({"o"}).out)[i]), {"x"}) EXCEPT !.sets = Patterns[k]]).status = 0
     /\ Numbers(grep({"n"}).out) =
          SelectSeq([i \in DOMAIN Lines(t) |-> i],
                    LAMBDA i : Grep([On(Lines(t)[i]) EXCEPT !.sets = Patterns[k]]).status = 0)

\* tac and rev undo themselves; tac leaves the lines whole when the last one is.
TacLaw(t) ==
  /\ Rev(On(Rev(On(t)).out)).out = t
  /\ AllEnded(t) => Tac(On(Tac(On(t)).out)).out = t
  /\ Permuted(Tac(On(t)).out, t)
\* comm: columns one and three are the first file, two and three the second.
CommLaw(a, b) ==
  LET first == Sort(On(a)).out
      second == Sort(On(b)).out
      comm(flags) == Lines(Comm(Flagged(Both(first, second), flags)).out)
  IN /\ Permuted(comm({"2", "3"}) \o comm({"1", "2"}), Lines(first))
     /\ Permuted(comm({"1", "3"}) \o comm({"1", "2"}), Lines(second))
     /\ Permuted([i \in DOMAIN comm({}) |-> Without(comm({})[i], {TAB})],
                 comm({"2", "3"}) \o comm({"1", "3"}) \o comm({"1", "2"}))
     /\ comm({"1", "2", "3"}) = <<>>
     /\ SetOf(comm({"2", "3"})) \cap SetOf(comm({"1", "3"})) = {}
\* cmp: 0 for the same text and no other, and -l starts where the plain form stops.
CmpLaw(a, b) ==
  LET cmp(flags) == Cmp(Flagged(Both(a, b), flags))
  IN /\ \A flags \in {{}, {"s"}, {"l"}} : cmp(flags).status = IF a = b THEN 0 ELSE 1
     /\ cmp({}).out # <<>> => Numbers(cmp({}).out)[1] = Numbers(cmp({"l"}).out)[1]
     /\ (cmp({}).out = <<>>) = (cmp({"l"}).out = <<>>)
     /\ a = b => Diff(Both(a, b)).status = 0
\* diff: its hunks lead from one file to the other and leave as much as can be left.
Greatest(set) == CHOOSE n \in set : \A m \in set : m <= n
Subsequences(s) == {Which(s, LAMBDA k : k \in kept) : kept \in SUBSET DOMAIN s}
Patched(hunks, a, b) ==
  LET patch(st, h) ==
        LET start == IF h.aCount = 0 THEN h.aStart + 1 ELSE h.aStart
            new == SelectSeq(h.ops, LAMBDA x : x.op # "delete")
            old == SelectSeq(h.ops, LAMBDA x : x.op # "insert")
            out == st.out \o SubSeq(a, st.at, start - 1)
        IN [at |-> start + h.aCount,
            out |-> out \o [k \in DOMAIN new |-> IF new[k].op = "equal" THEN a[new[k].a] ELSE b[new[k].b]],
            ok |-> /\ st.ok /\ st.at <= start
                   /\ [k \in DOMAIN old |-> a[old[k].a]] = SubSeq(a, start, start + h.aCount - 1)
                   /\ h.bCount > 0 => h.bStart = Len(out) + 1]
      all == FoldLeft(patch, [at |-> 1, out |-> <<>>, ok |-> TRUE], hunks)
  IN [ok |-> all.ok, out |-> all.out \o From(a, all.at)]
\* A hunk has up to three equal lines around its changes, and two changes share one if at most six lines part them.
Contexts(hunk, before, behind) ==
  LET changes == {i \in DOMAIN hunk.ops : hunk.ops[i].op # "equal"}
      smaller(n) == IF n < 3 THEN n ELSE 3
  IN Least(changes) - 1 = smaller(before) /\ Len(hunk.ops) - Greatest(changes) = smaller(behind)
Apart(script) ==
  LET changes == {i \in DOMAIN script : script[i].op # "equal"}
  IN {i \in changes : \A j \in changes : j > i => j - i > 7}
DiffLaw(s, t) ==
  LET a == Strings(s)
      b == Strings(t)
      script == DiffComputeEditScript(a, b)
      common == {Len(c) : c \in Subsequences(a) \cap Subsequences(b)}
  IN /\ Diff(Both(s, t)).status = (IF a = b THEN 0 ELSE 1)
     /\ Diff(Flagged(Both(s, t), {"q"})).status = Diff(Both(s, t)).status
     /\ Patched(DiffHunks(script, 1), a, b) = [ok |-> TRUE, out |-> b]
     /\ Len(DiffHunks(script, 1)) = Cardinality(Apart(script))
     /\ Len(DiffHunks(script, 1)) = 1 =>
          LET changes == {i \in DOMAIN script : script[i].op # "equal"}
          IN Contexts(DiffHunks(script, 1)[1], Least(changes) - 1, Len(script) - Greatest(changes))
     /\ Len(a) < 5 => \A n \in common : n <= Len(SelectSeq(script, LAMBDA x : x.op = "equal"))
\* fold: every byte, in lines that fit and that fold leaves alone; without -s every line is filled.
FoldLaw(t, k) ==
  LET fold(flags) == Fold([Flagged(On(t), flags) EXCEPT !.w = k]).out
      filled(line) == IF Len(Body(line)) = 0 THEN 1 ELSE (Len(Body(line)) + k - 1) \div k
  IN /\ \A flags \in {{}, {"s"}} :
          /\ Without(fold(flags), {NL}) = Without(t, {NL})
          /\ \A i \in DOMAIN Lines(fold(flags)) : Len(Body(Lines(fold(flags))[i])) <= k
          /\ Fold([Flagged(On(fold(flags)), flags) EXCEPT !.w = k]).out = fold(flags)
     /\ Len(Lines(fold({}))) = Total([i \in DOMAIN Lines(t) |-> filled(Lines(t)[i])])
\* fmt: the words in their order, on lines that fit and take no word more.
FmtLaw(t, k) ==
  LET out == Fmt([On(t) EXCEPT !.w = k]).out
      line(i) == Body(Lines(out)[i])
      blank(text) == Len(SelectSeq(Lines(text), LAMBDA l : Skip(l, White) = <<>>))
      words(text) == Tokens([i \in DOMAIN text |-> IF text[i] = NL THEN SP ELSE text[i]])
  IN /\ words(out) = words(t) /\ blank(out) = blank(t)
     /\ \A i \in DOMAIN Lines(out) : Len(line(i)) <= k \/ Len(Tokens(line(i))) = 1
     /\ \A i \in 2 .. Len(Lines(out)) :
          line(i) # <<>> /\ line(i - 1) # <<>> => Len(line(i - 1)) + 1 + Len(Tokens(line(i))[1]) > k
     /\ Fmt([On(out) EXCEPT !.w = k]).out = out
\* seq: as many numbers as there are steps, the same backwards, and of one length with -w.
SeqLaw(n, m, w) ==
  LET seq(flags, from, by, to) == Seq_([Flagged(Request, flags) EXCEPT !.n = from, !.m = by, !.w = to, !.list = <<NL>>])
      out == seq({}, n, m, w).out
      padded == Lines(seq({"w"}, n, m, w).out)
      steps == (IF m > 0 THEN w - n ELSE n - w) \div (IF m > 0 THEN m ELSE -m)
      last == n + steps * m
      there == (m > 0 /\ n <= w) \/ (m < 0 /\ n >= w)
  IN IF m = 0 THEN seq({}, n, m, w).status = 1
     ELSE /\ Len(Lines(out)) = (IF there THEN steps + 1 ELSE 0)
          /\ there => Lines(out) = Reverse(Lines(seq({}, last, -m, n).out))
          /\ \A i, j \in DOMAIN padded : Len(padded[i]) = Len(padded[j])
          /\ seq({"w", "float"}, n, m, w) = seq({"float"}, n, m, w)
          /\ [i \in DOMAIN padded |-> Strtol(Body(padded[i])).v] = [i \in DOMAIN Lines(out) |-> Strtol(Body(Lines(out)[i])).v]
\* split: cat joins what it cut, every piece but the last is full, and the names ascend (see README: up to zz).
SplitLaw(t, k) ==
  LET split(flags) == Split([Flagged(On(t), flags) EXCEPT !.n = k]).made
      full(made, size(_)) == \A i \in 1 .. Len(made) : size(made[i]) = k \/ (i = Len(made) /\ size(made[i]) \in 1 .. k)
  IN /\ Cat([Request EXCEPT !.files = [i \in DOMAIN split({}) |-> Holding(split({})[i])]]).out = t
     /\ Joined(split({"b"})) = t
     /\ full(split({"b"}), Len) /\ full(split({}), LAMBDA piece : Len(Lines(piece)))
SuffixLaw(k) ==
  /\ \A i \in 0 .. 701 : i # k => SplitSuffix(i) # SplitSuffix(k)
  /\ Compare(SplitSuffix(k), SplitSuffix(k + 1)) = (IF k = 675 THEN 1 ELSE -1)
\* base64: what was encoded is decoded; a byte of no value stops it unless it is ignored.
Base64Law(t, k) ==
  LET code == Base64([On(t) EXCEPT !.w = k]).out
      spoilt == AtMost(code, 1) \o <<33>> \o From(code, 2)
  IN /\ Base64(Flagged(On(code), {"d"})) = Outcome(t, 0)
     /\ Len(Without(code, {NL})) = 4 * ((Len(t) + 2) \div 3)
     /\ k > 0 => \A i \in DOMAIN Lines(code) : Len(Body(Lines(code)[i])) <= k
     /\ Base64(Flagged(On(spoilt), {"d", "i"})).out = t
     /\ Base64(Flagged(On(spoilt), {"d"})).status = 1
\* od: the bytes can be had back from every type, and the addresses count them.
OdLaw(t) ==
  LET od(type) == Numbers(Od([On(t) EXCEPT !.list = type, !.sets = <<<<110>>>>]).out)
      unit(w, i) == [k \in 1 .. w |-> IF (i - 1) * w + k > Len(t) THEN 0 ELSE t[(i - 1) * w + k]]
      units(w) == (Len(t) + w - 1) \div w
      addresses == Numbers(Od([On(t) EXCEPT !.list = <<99>>]).out)
  IN /\ od(<<117, 49>>) = t
     /\ od(<<120>>) = [i \in 1 .. units(2) |-> unit(2, i)[1] + 256 * unit(2, i)[2]]
     /\ od(<<111, 52>>) = [i \in 1 .. units(4) |-> unit(4, i)[1] + 256 * (unit(4, i)[2] + 256 * (unit(4, i)[3] + 256 * unit(4, i)[4]))]
     /\ LET signed == Od([On(t) EXCEPT !.list = <<100, 49>>, !.sets = <<<<110>>>>]).out
            values == SelectSeq(signed, LAMBDA c : c > 500)
        IN [i \in DOMAIN values |-> (values[i] - Number(0)) % 256] = t
     /\ Last(addresses) = Len(t)
\* dd: two halves make the whole, in the order in which they are put down.
DdLaw(t, k) ==
  LET dd(from, old, n, skip, seek, flags) ==
        Dd([Flagged(Both(from, old), flags) EXCEPT !.list = Decimal(k), !.n = n, !.m = skip, !.w = seek]).made[1]
      front == dd(t, <<>>, 1, 0, 0, {})
      back == dd(t, <<>>, -1, 1, 0, {})
  IN /\ front \o back = t
     /\ dd(back, front, -1, 0, 1, {"notrunc"}) = (IF Len(t) < k THEN front ELSE t)
     /\ dd(front, dd(back, <<>>, -1, 0, 1, {}), -1, 0, 0, {"notrunc"}) = t
\* sum: zeros in front change nothing and sixteen behind go round once; the other sum has no order.
SumLaw(t) ==
  /\ BsdSum(<<NUL>> \o t) = BsdSum(t) /\ BsdSum(t \o [k \in 1 .. 16 |-> NUL]) = BsdSum(t)
  /\ SysvSum(Reverse(t)) = SysvSum(t) /\ SysvSum(t) < Word
\* tee: what comes in goes out and into every file, behind what was there with -a.
TeeLaw(a, b) ==
  LET tee(flags) == Tee([Flagged(Both(b, <<>>), flags) EXCEPT !.sets = <<a>>])
  IN /\ tee({}) = [out |-> a, made |-> <<a, a>>, status |-> 0]
     /\ tee({"a"}).made[1] = Cat(Both(b, a)).out

\* expr: the value its precedence and its associativity give.
Rank(tok) ==   \* | & < = + - * / %, from the weakest
  CASE tok = <<124>> -> 1 [] tok = <<38>> -> 2 [] tok \in {<<60>>, <<61>>} -> 3 [] tok \in {<<43>>, <<45>>} -> 4
    [] tok \in {<<42>>, <<47>>, <<37>>} -> 5 [] OTHER -> 0
Depth(ts, i) == Counted(UpTo(ts, i - 1), {Open}) - Counted(UpTo(ts, i), {Close})
Division(a, b) == CHOOSE q \in -20 .. 20 : LET r == a - q * b IN r * r < b * b /\ (r = 0 \/ (r < 0) = (a < 0))
Applied(op, a, b) ==
  CASE op = Or -> IF a # 0 THEN a ELSE b
    [] op = And -> IF a # 0 /\ b # 0 THEN a ELSE 0
    [] op = <<60>> -> IF a < b THEN 1 ELSE 0
    [] op = <<61>> -> IF a = b THEN 1 ELSE 0
    [] op = <<43>> -> a + b
    [] op = <<45>> -> a - b
    [] op = <<42>> -> a * b
    [] op = <<47>> -> Division(a, b)
    [] OTHER -> a - b * Division(a, b)
RECURSIVE Worth(_)
Worth(ts) ==
  LET ops == {i \in DOMAIN ts : Rank(ts[i]) > 0 /\ Depth(ts, i) = 0}
      i == CHOOSE i \in ops : \A j \in ops : Rank(ts[i]) < Rank(ts[j]) \/ (Rank(ts[i]) = Rank(ts[j]) /\ j <= i)
      l == Worth(UpTo(ts, i - 1))
      r == Worth(From(ts, i + 1))
  IN CASE ops = {} /\ ts[1] = Open -> Worth(SubSeq(ts, 2, Len(ts) - 1))
       [] ops = {} /\ ts[1] # Open -> [err |-> FALSE, v |-> Strtol(ts[1]).v]
       [] OTHER -> IF l.err \/ r.err \/ (ts[i] \in {<<47>>, <<37>>} /\ r.v = 0) THEN [err |-> TRUE, v |-> 0]
                   ELSE [err |-> FALSE, v |-> Applied(ts[i], l.v, r.v)]
ExprLaw(ts) ==
  LET wanted == Worth(ts)
  IN Expr([Request EXCEPT !.sets = ts]) =
       IF wanted.err THEN Usage(2) ELSE Outcome(Append(Decimal(wanted.v), NL), IF wanted.v = 0 THEN 1 ELSE 0)

\* telnet: what the server said is shown and answered in its order however the reads cut it, the user's
\* bytes go out whole and between two answers, and the end of his input ends the sending and nothing else.
RECURSIVE Heard(_), BehindSB(_)
BehindSB(s) ==
  IF s = <<>> THEN <<>>
  ELSE IF s[1] # IAC THEN BehindSB(Tail(s))
  ELSE IF Len(s) > 1 /\ s[2] # SE THEN BehindSB(From(s, 3)) ELSE From(s, 3)
Heard(s) ==
  LET command == Len(s) > 1 /\ s[1] = IAC
      said(data, replies, rest) == [data |-> data \o Heard(rest).data, replies |-> replies \o Heard(rest).replies]
  IN IF s \in {<<>>, <<IAC>>} THEN [data |-> <<>>, replies |-> <<>>]
     ELSE CASE ~command -> said(<<s[1]>>, <<>>, Tail(s))
            [] command /\ s[2] = IAC -> said(<<IAC>>, <<>>, From(s, 3))
            [] command /\ s[2] \in WILL .. DONT ->
                 LET no == IF s[2] = DO THEN WONT ELSE DONT     \* DONT and WONT are taken without a word
                 IN said(<<>>, IF Len(s) > 2 /\ s[2] \in {DO, WILL} THEN <<<<IAC, no, s[3]>>>> ELSE <<>>, From(s, 4))
            [] command /\ s[2] = SB -> said(<<>>, <<>>, BehindSB(From(s, 3)))
            [] OTHER -> said(<<>>, <<>>, From(s, 3))
TelnetLaw(s, k) ==
  LET sock(t) == IF t = <<>> THEN Idle ELSE Bytes(t)
      turn(server, user) == [sock |-> server, stdin |-> user, deaf |-> FALSE, gone |-> FALSE]
      user == Bytes(<<97, NL>>)
      heard == Heard(s)
      part == Heard(AtMost(s, k))
      shows(i) == IF i = 1 THEN part.data # <<>> ELSE part.data # heard.data
      turns == <<turn(sock(AtMost(s, k)), user), turn(sock(From(s, k + 1)), Ending), turn(Idle, Ending), turn(Ending, Ending)>>
      end == Telnet(turns)
      cut(i, deaf, gone) == Telnet([turns EXCEPT ![i].deaf = deaf, ![i].gone = gone])
  IN /\ end.shown = heard.data
     /\ end.sent = part.replies \o <<user.bytes>> \o From(heard.replies, Len(part.replies) + 1)
     /\ ~end.running /\ end.status = 0 /\ end.shutdowns = 3
     /\ cut(1, FALSE, TRUE).status = 1 /\ cut(1, FALSE, TRUE).shown = part.data
     /\ \A i \in 1 .. 2 : IF shows(i) THEN cut(i, TRUE, FALSE).status = 1 ELSE cut(i, TRUE, FALSE) = end
     /\ Telnet(<<turns[2], turns[1]>>).status = 1

-----------------------------------------------------------------------------
(* What becomes of a tool one of whose files fails.                        *)

Outcomes(tool, files) ==
  LET o == [Request EXCEPT !.files = files, !.n = 1, !.w = 1, !.list = <<49>>]
  IN CASE tool = "cat" -> Cat(o)
       [] tool = "cat -n" -> Cat(Flagged(o, {"n"}))
       [] tool = "tac" -> Tac(o)
       [] tool = "rev" -> Rev(o)
       [] tool = "uniq" -> Uniq([o EXCEPT !.n = 0, !.w = 0])
       [] tool = "cut" -> Cut(Flagged(o, {"c"}))
       [] tool = "fold" -> Fold(o)
       [] tool = "fmt" -> Fmt(o)
       [] tool = "head" -> Head_(o)
       [] tool = "tail" -> Tail_(o)
       [] tool = "wc" -> Wc([o EXCEPT !.w = 0])
       [] tool = "sort" -> Sort(o)
       [] tool = "sum" -> Sum(o)
       [] tool = "grep" -> Grep([o EXCEPT !.sets = <<<<97>>>>, !.m = 0])
       [] tool = "paste" -> Paste(o)
       [] tool = "comm" -> Comm(o)
       [] tool = "cmp" -> Cmp(o)
       [] tool = "diff" -> Diff(o)
       [] tool = "base64" -> Base64(o)
       [] tool = "base64 -d" -> Base64(Flagged(o, {"d"}))
       [] tool = "nl" -> Nl(o)
       [] tool = "od" -> Od([o EXCEPT !.list = <<99>>])
       [] tool = "split" -> Split(o)
       [] tool = "dd" -> Dd(o)
       [] OTHER -> Tee([o EXCEPT !.sets = <<<<97, NL>>>>])

Some(files, Test(_)) == \E i \in DOMAIN files : Test(files[i])
Good(files) == SelectSeq(files, LAMBDA f : f.reads)
Gone(f) == ~f.opens
Unread(f) == f.opens /\ ~f.reads
\* An operand that broke is one that was empty.
Emptied(files) == [i \in DOMAIN files |-> IF files[i].opens /\ ~files[i].dir THEN Holding(files[i].text) ELSE files[i]]
Matching(f) == f.reads /\ Contains(f.text, 97)
Told(out) == SelectSeq(out, LAMBDA c : c > NL)
Honest(tool, files) ==
  LET r == Outcomes(tool, files)
      alone(k) == Outcomes(tool, <<Good(files)[k]>>)
  IN CASE tool \in {"cat", "cat -n", "tac", "rev", "uniq", "cut", "fold", "fmt"} ->
            /\ (r.status # 0) = Some(files, LAMBDA f : ~f.reads)
            /\ r.out = Outcomes(tool, Good(files)).out
       [] tool \in {"head", "tail"} ->
            /\ (r.status # 0) = Some(files, LAMBDA f : ~f.reads)
            /\ Told(r.out) = Joined([k \in DOMAIN Good(files) |-> Told(alone(k).out)])
       [] tool = "wc" ->
            /\ (r.status # 0) = Some(files, LAMBDA f : ~f.reads)
            /\ \A n \in 1 .. 3 :
                 LET sums == Numbers(r.out)
                 IN Len(files) > 1 => sums[Len(sums) - 3 + n] = Total([k \in DOMAIN Good(files) |-> Numbers(alone(k).out)[n]])
       [] tool = "sort" -> Some(files, LAMBDA f : ~f.reads) => r = Usage(1)
       [] tool = "grep" ->
            /\ (r.status = 0) = Some(files, Matching)
            /\ r.status = 2 => Some(files, LAMBDA f : Gone(f) \/ f.dir)
            /\ Gone(Last(files)) \/ Last(files).dir => r.status # 1
       [] tool = "sum" ->     \* what fails it does not tell: see README
            /\ r.status = 0
            /\ Len(Numbers(r.out)) = 2 * Len(SelectSeq(files, LAMBDA f : f.opens))
       [] tool = "tee" ->     \* nor does it tell what cannot be opened
            /\ (r.status # 0) = Some(files, Unread)
            /\ r.out = <<97, NL>>
            /\ \A i \in DOMAIN files : files[i].reads => r.made[i] = <<97, NL>>
       [] tool \in {"paste", "comm", "cmp", "diff"} ->
            /\ Some(files, Gone) \/ (tool = "diff" /\ Some(files, LAMBDA f : f.dir)) =>
                 r.status = IF tool \in {"cmp", "diff"} THEN 2 ELSE 1
            /\ r = Outcomes(tool, Emptied(files))
       [] OTHER ->            \* of these one file is read
            LET f == IF tool = "nl" THEN Last(files) ELSE files[1]
            IN /\ Gone(f) => r = Usage(1)
               /\ tool \in {"base64", "dd"} => (r.status # 0) = ~f.reads
               /\ tool \notin {"base64", "dd"} => r = Outcomes(tool, Emptied(files))

-----------------------------------------------------------------------------
(* The laws of the commands of ArgTools.                                  *)

\* getopts: called until it says no more, it gives the options that the words spell when they are
\* read from left to right, leaves OPTIND at the first operand and its place where a new scan starts.
RECURSIVE Scan(_, _, _), Spelled(_, _, _), InGroup(_, _, _, _)
Scan(g, spec, args) ==
  LET h == Getopts(g, spec, args)
  IN IF h.rc = 1 THEN [found |-> <<>>, last |-> h]
     ELSE LET more == Scan(h, spec, args) IN [more EXCEPT !.found = <<[name |-> h.name, arg |-> h.arg]>> \o @]
InGroup(letters, spec, args, ind) ==
  LET silent == spec # <<>> /\ spec[1] = 58
      one == <<letters[1]>>
      known == letters[1] # 58 /\ \E i \in DOMAIN spec : spec[i] = letters[1]
      wants == \E i \in 1 .. Len(spec) - 1 : spec[i] = letters[1] /\ spec[i + 1] = 58
      found(name, arg, rest) == [rest EXCEPT !.found = <<[name |-> name, arg |-> arg]>> \o @]
      blame(name) == IF silent THEN [name |-> name, arg |-> one] ELSE [name |-> <<63>>, arg |-> Unset]
  IN IF letters = <<>> THEN Spelled(spec, args, ind + 1)
     ELSE IF ~known THEN found(<<63>>, blame(<<63>>).arg, InGroup(Tail(letters), spec, args, ind))
     ELSE IF ~wants THEN found(one, Unset, InGroup(Tail(letters), spec, args, ind))
     ELSE IF Len(letters) > 1 THEN found(one, Tail(letters), Spelled(spec, args, ind + 1))
     ELSE IF ind < Len(args) THEN found(one, args[ind + 1], Spelled(spec, args, ind + 2))
     ELSE found(blame(<<58>>).name, blame(<<58>>).arg, Spelled(spec, args, ind + 1))
Spelled(spec, args, ind) ==
  IF ind > Len(args) \/ ~IsGroup(args[ind]) THEN [found |-> <<>>, ind |-> ind]
  ELSE IF args[ind] = LastOption THEN [found |-> <<>>, ind |-> ind + 1]
  ELSE InGroup(Tail(args[ind]), spec, args, ind)
GetoptsLaw(spec, args) ==
  LET scan == Scan(Fresh, spec, args)
      wanted == Spelled(spec, args, 1)
  IN /\ scan.found = wanted.found
     /\ scan.last.ind = wanted.ind /\ scan.last.pos = 1

\* test: the applet, the builtin and the truth of an expression agree, -o binding less than -a; only the
\* builtin knows parentheses, and it refuses those that do not match.
TrueTerms == {<<"x">>, <<"-z", "">>, <<"-f", "f">>, <<"f", "-nt", "g">>, <<"f", "-ef", "f">>, <<"x", "=", "x">>, <<"0", "-lt", "1">>}
FalseTerms == {<<"">>, <<"-n", "">>, <<"-d", "f">>, <<"-e", "g">>, <<"f", "-nt", "d">>, <<"d", "-ot", "f">>, <<"x", "!=", "x">>, <<"1", "-le", "0">>}
TermsHold(terms, connectors) ==
  LET value(i) == (terms[i].term \in TrueTerms) # terms[i].not
      starts == {1} \cup {i + 1 : i \in {i \in DOMAIN connectors : connectors[i] = "-o"}}
      upto(i) == {j \in DOMAIN terms : j >= i /\ \A k \in i .. j - 1 : connectors[k] = "-a"}
  IN \E i \in starts : \A j \in upto(i) : value(j)
Spoken(terms, connectors) ==
  FlattenSeq([i \in DOMAIN terms |-> (IF i = 1 THEN <<>> ELSE <<connectors[i - 1]>>)
                                     \o (IF terms[i].not THEN <<"!">> ELSE <<>>) \o terms[i].term])
TestLaw(terms, connectors) ==
  LET words == Spoken(terms, connectors)
      status == IF TermsHold(terms, connectors) THEN 0 ELSE 1
  IN /\ TestWithArgs(words) = status
     /\ builtinTest(words) = status
     /\ builtinTest(<<"(">> \o words \o <<")">>) = status
     /\ builtinTest(<<"(">> \o words) = 2 /\ builtinTest(words \o <<")">>) = 2

\* printf: the format is gone through until the arguments are used up, a missing one being empty; the
\* builtin and the applet print the same, but for %c without an argument.
Directives(format) == SelectSeq(format, LAMBDA c : c \in Conversions)
RECURSIVE Filled(_, _)
Filled(format, args) ==
  LET c == format[1]
      arg == IF args = <<>> THEN <<>> ELSE args[1]
  IN IF format = <<>> THEN <<>>
     ELSE IF c \in Conversions THEN Directive(c, arg) \o Filled(Tail(format), IF args = <<>> THEN args ELSE Tail(args))
     ELSE (IF c = "%%" THEN <<"%">> ELSE <<EscapeB(c)>>) \o Filled(Tail(format), args)
PrintfLaw(format, args) ==
  LET n == Len(Directives(format))
      passes == IF n = 0 \/ args = <<>> THEN <<<<>>>> ELSE Pieces(args, n)
      wanted == FlattenSeq([i \in DOMAIN passes |-> Filled(format, passes[i])])
      shell == builtinPrintf(format, args)
      odd == {i \in DOMAIN Directives(format) : Directives(format)[i] = "%d" /\
                \E k \in DOMAIN passes : i <= Len(passes[k]) /\ passes[k][i] \notin {<<>>, <<"7">>}}
  IN /\ PrintfApplet(format, args) = [out |-> wanted, rc |-> 0]
     /\ shell.out = SelectSeq(wanted, LAMBDA c : c # "NUL") \/ \E i \in DOMAIN args : args[i] = <<>>
     /\ (shell.rc = 1) = (odd # {})
     /\ builtinPrintf(format \o <<"\\c", "a">>, args).out = SelectSeq(Filled(format, args), LAMBDA c : c # "NUL")
          \/ \E i \in DOMAIN args : args[i] = <<>>

\* xargs: the command gets the words in their order, as many at once as it may; a word that was quoted
\* is one word; -I runs it for every line that is not empty; the status tells if one run failed.
Quoted(word, how) ==
  CASE how = 0 /\ ~Contains(word, 39) -> <<39>> \o word \o <<39>>
    [] how = 1 \/ word = <<>> -> <<34>> \o word \o <<34>>
    [] OTHER -> FlattenSeq([i \in DOMAIN word |-> <<92, word[i]>>])
QuotedAll(words, how) == FlattenSeq([i \in DOMAIN words |-> Quoted(words[i], (how + i) % 3) \o (IF i % 2 = 1 THEN <<SP>> ELSE <<NL, TAB>>)])
Command == <<<<120>>>>
Place0 == <<123, 125>>     \* {}
XargsLaw(words, n, how) ==
  LET ask(flags, text) == Xargs([Request EXCEPT !.flags = flags, !.n = n, !.sets = Command, !.files = <<Holding(text)>>])
      r == ask({}, QuotedAll(words, how))
      nul == ask({"0"}, FlattenSeq([i \in DOMAIN words |-> Append(words[i], NUL)]))
      each == Xargs([Request EXCEPT !.flags = {"I"}, !.sets = <<<<120>>, <<97>> \o Place0 \o <<98>> \o Place0>>, !.list = Place0,
                                    !.files = <<Holding(FlattenSeq([i \in DOMAIN words |-> Append(words[i], NL)]))>>])
      full == SelectSeq(words, LAMBDA w : w # <<>>)
  IN /\ FlattenSeq([i \in DOMAIN r.runs |-> Tail(r.runs[i])]) = words
     /\ FlattenSeq([i \in DOMAIN nul.runs |-> Tail(nul.runs[i])]) = words
     /\ \A i \in DOMAIN r.runs : Head(r.runs[i]) = <<120>> /\ (n > 0 => (Len(r.runs[i]) = n + 1 \/ i = Len(r.runs)))
     /\ n = 0 => Len(r.runs) = 1
     /\ (n > 0 /\ words = <<>>) => r.runs = <<>>
     /\ r.status = IF \E i \in DOMAIN words : words[i] = <<98>> THEN 1 ELSE 0
     /\ ask({}, QuotedAll(words, how) \o <<39>>) = [runs |-> <<>>, status |-> 1]
     /\ each.runs = [i \in DOMAIN full |-> <<<<120>>, <<97>> \o full[i] \o <<98>> \o full[i]>>]

\* env -S: words that were quoted come back whole, a variable is its value, a comment and what stands
\* behind \c is nothing, and a quote that does not end is an error.
EnvQuoted(word, how) ==
  CASE how = 0 -> <<39>> \o FlattenSeq([i \in DOMAIN word |-> IF word[i] \in {39, 92} THEN <<92, word[i]>> ELSE <<word[i]>>]) \o <<39>>
    [] OTHER -> <<34>> \o FlattenSeq([i \in DOMAIN word |-> CASE word[i] \in {34, 92, 36} -> <<92, word[i]>>
                                                             [] word[i] = TAB -> <<92, 116>> [] word[i] = SP /\ how = 2 -> <<92, 95>>
                                                             [] OTHER -> <<word[i]>>]) \o <<34>>
EnvLaw(words, how) ==
  LET all == FlattenSeq([i \in DOMAIN words |-> EnvQuoted(words[i], (how + i) % 3) \o (IF i % 2 = 1 THEN <<SP>> ELSE <<92, 95>>)])
      right == [err |-> FALSE, words |-> words]
      variable == <<36, 123, 86, 125>>
  IN /\ EnvSplit(all) = right
     /\ EnvSplit(all \o <<35, 39, 97>>) = right
     /\ EnvSplit(all \o <<97, 35>>) = [right EXCEPT !.words = Append(@, <<97, 35>>)]
     /\ EnvSplit(all \o <<92, 99, 39, 97>>) = right
     /\ EnvSplit(all \o <<34, 97, 92, 99, 39>>) = [right EXCEPT !.words = Append(@, <<97>>)]
     /\ EnvSplit(all \o <<97>> \o variable \o variable) = [right EXCEPT !.words = Append(@, <<97, 97, SP, 97, SP>>)]
     /\ EnvSplit(all \o <<39>> \o variable \o <<39>>) = [right EXCEPT !.words = Append(@, variable)]
     /\ \A bad \in {<<39>>, <<34, 92, 97, 34>>, <<36, 123, 86>>, <<36, 123, 125>>} : EnvSplit(all \o bad).err

\* find: an expression is written with the parentheses it needs and none more.
Primary(w) == [op |-> "leaf", word |-> w]
Not(e) == [op |-> "not", r |-> e]
Binary(op, l, r) == [op |-> op, l |-> l, r |-> r]
Strength(e) == CASE e.op = "or" -> 1 [] e.op = "and" -> 2 [] OTHER -> 3
RECURSIVE Written_(_, _)
Written_(e, aloud) ==
  LET part(x, least) == IF Strength(x) < least THEN <<<<"(">>>> \o Written_(x, aloud) \o <<<<")">>>> ELSE Written_(x, aloud)
  IN CASE e.op = "leaf" -> <<e.word>>
       [] e.op = "not" -> <<<<"!">>>> \o part(e.r, 3)
       [] e.op = "and" -> part(e.l, 2) \o (IF aloud THEN <<<<"-a">>>> ELSE <<>>) \o part(e.r, 3)
       [] e.op = "or" -> part(e.l, 1) \o <<<<"-o">>>> \o part(e.r, 2)
\* What takes part of a block takes a block, and part of a day is none.
Sized(sign, n, unit, size) ==
  CASE unit = "k" -> FindCompareSigned(sign, size, 1024 * n)
    [] sign = "+" -> size > 512 * n [] sign = "-" -> size <= 512 * (n - 1) [] OTHER -> size \in 512 * (n - 1) + 1 .. 512 * n
RECURSIVE Meets(_, _, _)
Meets(e, path, st) ==
  CASE e.op = "leaf" /\ e.word[1] = "-size" -> Sized(e.word[2], e.word[3], e.word[4], st.size)
    [] e.op = "leaf" /\ e.word[1] # "-size" -> FindTestMatches(e.word, path, st)
    [] e.op = "not" -> ~Meets(e.r, path, st)
    [] e.op = "and" -> Meets(e.l, path, st) /\ Meets(e.r, path, st) [] e.op = "or" -> Meets(e.l, path, st) \/ Meets(e.r, path, st)
Stat(type, size, age) == [type |-> type, size |-> size, age |-> age, shut |-> FALSE]
Walked ==
  [p \in {<<"s">>, <<"s", "a">>, <<"s", "b">>, <<"s", "d">>, <<"s", "d", "a">>, <<"s", "d", "e">>, <<"s", "d", "e", "b">>} |->
     CASE p \in {<<"s">>, <<"s", "d">>, <<"s", "d", "e">>} -> Stat("d", 4096, 0)
       [] p = <<"s", "a">> -> Stat("f", 0, 86400) [] p = <<"s", "b">> -> Stat("l", 1, 86399)
       [] p = <<"s", "d", "a">> -> Stat("f", 513, 172800) [] OTHER -> Stat("f", 1024, 100)]
Under(p, q) == Len(q) > Len(p) /\ UpTo(q, Len(p)) = p
FindLaw(e, min, max) ==
  LET depths == <<<<"-mindepth", min>>, <<"-maxdepth", max>>>>
      find(words) == Find(<<"s">>, words \o depths, Walked)
      seen == {p \in DOMAIN Walked : Len(p) - 1 >= min /\ (max < 0 \/ Len(p) - 1 <= max)}
      met == {p \in seen : Meets(e, p, Walked[p])}
      once(s, set) == /\ Len(s) = Cardinality(set) /\ {s[i] : i \in DOMAIN s} = set
                      /\ \A i, j \in DOMAIN s : i < j => ~Under(s[i], s[j])
      printed == find(Written_(e, FALSE))
      act(word) == Primary(<<word>>)
      split == find(Written_(Binary("or", Binary("and", e, act("-print")), act("-exec")), TRUE))
      deleted == find(Written_(Binary("and", e, act("-delete")), FALSE))
      stays == {p \in DOMAIN Walked : p \notin met \/ \E q \in DOMAIN Walked : Under(p, q) /\ q \notin met}
      wrong(words) == find(words) = [tree |-> Walked, out |-> <<>>, ran |-> <<>>, status |-> 1]
  IN /\ once(printed.out, met) /\ printed.status = 0
     /\ find(Written_(e, TRUE)) = printed
     /\ once(split.out, met) /\ once(split.ran, seen \ met)
     /\ DOMAIN deleted.tree = stays
     /\ deleted.status = IF met \cap stays = {} THEN 0 ELSE 1
     /\ \A bad \in {<<<<"(">>>>, <<<<"!">>>>, <<<<"-o">>>>} : wrong(bad \o <<<<")">>>>) /\ wrong(Written_(e, TRUE) \o bad)
     /\ wrong(<<<<"(">>>> \o Written_(e, TRUE)) /\ wrong(Written_(e, TRUE) \o <<<<")">>>>)
\* A shut directory is itself found, what is in it is not, and the status tells.
ShutLaw ==
  LET tree == [Walked EXCEPT ![<<"s", "d">>].shut = TRUE]
      r == Find(<<"s">>, <<>>, tree)
  IN /\ r.status = 1 /\ {r.out[i] : i \in DOMAIN r.out} = {p \in DOMAIN Walked : ~Under(<<"s", "d">>, p)}
     /\ Find(<<"g">>, <<>>, tree).status = 1

\* The expressions that find is asked for.
Singles ==
  LET leaves == {Primary(w) : w \in {<<"-name", "a">>, <<"-type", "d">>, <<"-size", "+", 1, "">>, <<"-size", "-", 1, "k">>,
                                  <<"-mtime", "", 0>>, <<"-newer", 86400>>}}
  IN leaves \cup {Not(x) : x \in leaves}
Ops == {"and", "or"}
Pairs == {Binary(op, x, y) : op \in Ops, x \in Singles, y \in Singles}
Triples ==
  LET few == {Primary(<<"-name", "a">>), Not(Primary(<<"-type", "d">>)), Primary(<<"-mtime", "-", 1>>)}
      two == {Binary(op, x, y) : op \in Ops, x \in few, y \in few}
  IN {Binary(op, x, y) : op \in Ops, x \in two, y \in two \cup few} \cup {Not(x) : x \in two}

-----------------------------------------------------------------------------
(* What is asked.                                                          *)

Ask(law, as, bs, ks) == \E a \in as, b \in bs, k \in ks : asked' = Case(law, a, b, k)
NoText == {<<>>}
Plain3 == SeqsTo({97, 98, NL}, 3)
Plain4 == SeqsTo({97, 98, NL}, 4)
EndedLines(lines, n) == {Joined(s) : s \in SeqsTo({Append(line, NL) : line \in lines}, n)}
Mixed == EndedLines({<<>>, <<97>>, <<65>>, <<98>>}, 4)
Worded == SeqsTo({97, SP, NL}, 5)
Rows(n) == [i \in 1 .. n |-> <<99, NL>>]
\* Long files with a line that is there once on one side and another on the other side.
Marked(at) == Joined([i \in 1 .. 11 |-> IF i = at THEN <<100, NL>> ELSE <<99, NL>>])
Literals == {<<48>>, <<50>>, <<45, 51>>}
Operators == {Or, And, <<60>>, <<61>>, <<43>>, <<45>>, <<42>>, <<47>>, <<37>>}
Expressions ==
  {<<x, op, y>> : x \in Literals, op \in Operators, y \in Literals}
  \cup {<<x, op, y, sub, z>> : x \in Literals, op \in Operators, y \in Literals, sub \in Operators, z \in Literals}
  \cup {<<x, op, Open, y, sub, z, Close>> : x \in Literals, op \in Operators, y \in {<<50>>}, sub \in Operators, z \in Literals}

AskCore ==
  \/ Ask("head", Plain4, NoText, 0 .. 3) \/ Ask("cat", Plain3, Plain3, {0})
  \/ Ask("sort", Mixed, NoText, {0, 1}) \/ Ask("uniq", Mixed, NoText, {0})
  \/ Ask("cut", SeqsTo({97, 58, NL}, 5), NoText, DOMAIN Lists)
  \/ Ask("tr", SeqsTo({97, 98, 66, NL}, 3), NoText, DOMAIN Sets)
AskScan ==
  \/ Ask("wc", SeqsTo({97, 195, 169, NL, SP}, 4), NoText, {0, 2})
  \/ Ask("grep", Plain4, NoText, DOMAIN Patterns)
  \/ Ask("sum", SeqsTo({0, 1, 255}, 3), NoText, {0}) \/ Ask("tee", Plain3, Plain3, {0})
AskLines ==
  \/ Ask("tac", Plain4, NoText, {0}) \/ Ask("cmp", Plain3, Plain3, {0})
  \/ Ask("comm", EndedLines({<<>>, <<97>>, <<98>>}, 3), EndedLines({<<97>>, <<98>>}, 3), {0})
  \/ Ask("diff", EndedLines({<<97>>, <<98>>}, 4), EndedLines({<<97>>, <<98>>}, 3), {0})
  \/ Ask("diff", {Marked(i) : i \in 0 .. 11}, {Marked(i) : i \in 0 .. 11}, {0})
  \/ Ask("fold", Worded, NoText, 1 .. 3) \/ Ask("fmt", Worded, NoText, 1 .. 4)
  \/ Ask("seq", {<<n, m, w>> : n \in -3 .. 2, m \in -2 .. 2, w \in {-12, -3, 0, 2, 11}}, NoText, {0})
  \/ Ask("split", Plain4, NoText, 1 .. 3) \/ Ask("suffix", NoText, NoText, {0, 25, 26, 674, 675, 676, 701})
AskData ==
  \/ Ask("base64", SeqsTo({0, 97, 255}, 4), NoText, {0, 1, 5})
  \/ Ask("od", SeqsTo({0, 1, 65, 127}, 4), NoText, {0})
  \/ Ask("od", {[i \in 1 .. n |-> IF i % 4 = 0 THEN 1 ELSE 200] : n \in 14 .. 34}, NoText, {0})
  \/ Ask("dd", Plain4, NoText, 1 .. 3)
  \/ Ask("expr", Expressions, NoText, {0})

AskArgs ==
  \/ Ask("getopts", {<<97, 98>>, <<97, 58, 98>>, <<58, 97, 98, 58>>, <<58>>},
         SeqsTo({<<45, 97>>, <<45, 98, 97>>, <<45, 45>>, <<45>>, <<120>>, <<45, 97, 120>>, <<45, 58, 98>>}, 3), {0})
  \/ \E n \in 1 .. 2 : Ask("test", [1 .. n -> [term : TrueTerms \cup FalseTerms, not : BOOLEAN]], [1 .. n - 1 -> {"-a", "-o"}], {0})
  \/ Ask("test", [1 .. 4 -> [term : {<<"x">>, <<"">>}, not : {FALSE}]], [1 .. 3 -> {"-a", "-o"}], {0})
  \/ Ask("printf", SeqsTo({"%s", "%d", "%c", "%b", "%%", "a"}, 3), SeqsTo({<<>>, <<"7">>, <<"\\n", "z">>}, 2), {0})
  \/ \E n \in 0 .. 2 : Ask("xargs", SeqsTo({<<>>, <<97>>, <<98>>, <<97, SP>>, <<39, 92>>}, 3), {<<n>>}, 0 .. 2)
  \/ Ask("env", SeqsTo({<<>>, <<97>>, <<SP, TAB>>, <<39, 92>>, <<34, 36, 35>>}, 3), NoText, 0 .. 2)
AskWalks ==
  \/ Ask("find", Singles \cup Pairs \cup Triples, {<<0, -1>>}, {0})
  \/ \E min \in 0 .. 2, max \in -1 .. 2 : Ask("find", Singles, {<<min, max>>}, {0})
  \/ Ask("shut", NoText, NoText, {0})
  \/ Ask("telnet", SeqsTo({65, IAC, DO, WILL, SB, SE}, 4), NoText, 0 .. 3)
  \/ Ask("telnet", {<<IAC, SB>> \o s : s \in SeqsTo({65, IAC, SE}, 5)}, NoText, 2 .. 6)

Inputs == {Missing, Unreadable, Folder(<<>>), Holding(<<97, NL>>), Holding(<<98, NL, 97, NL>>), Holding(<<98>>)}
AskFailing ==
  \/ \E tool \in {"cat", "cat -n", "tac", "rev", "uniq", "cut", "fold", "fmt", "head", "tail", "wc", "sort", "grep", "sum",
                  "paste", "tee"}, files \in SeqsTo(Inputs, 3) \ {<<>>} :
       asked' = [Case("failing", <<>>, <<>>, 0) EXCEPT !.tool = tool, !.files = files]
  \/ \E tool \in {"comm", "cmp", "diff", "base64", "base64 -d", "nl", "od", "split", "dd"}, files \in Inputs \X Inputs :
       asked' = [Case("failing", <<>>, <<>>, 0) EXCEPT !.tool = tool, !.files = files]

Agrees(c) ==
  CASE c.law = "head" -> HeadLaw(c.a, c.k)
    [] c.law = "cat" -> CatLaw(c.a, c.b)
    [] c.law = "sort" -> SortLaw(c.a, IF c.k = 1 THEN {"f"} ELSE {})
    [] c.law = "uniq" -> UniqLaw(c.a)
    [] c.law = "cut" -> CutLaw(c.a, c.k)
    [] c.law = "tr" -> TrLaw(c.a, c.k)
    [] c.law = "wc" -> WcLaw(c.a, c.k)
    [] c.law = "grep" -> GrepLaw(c.a, c.k)
    [] c.law = "sum" -> SumLaw(c.a)
    [] c.law = "tee" -> TeeLaw(c.a, c.b)
    [] c.law = "tac" -> TacLaw(c.a)
    [] c.law = "cmp" -> CmpLaw(c.a, c.b)
    [] c.law = "comm" -> CommLaw(c.a, c.b)
    [] c.law = "diff" -> DiffLaw(c.a, c.b)
    [] c.law = "fold" -> FoldLaw(c.a, c.k)
    [] c.law = "fmt" -> FmtLaw(c.a, c.k)
    [] c.law = "seq" -> SeqLaw(c.a[1], c.a[2], c.a[3])
    [] c.law = "split" -> SplitLaw(c.a, c.k)
    [] c.law = "suffix" -> SuffixLaw(c.k)
    [] c.law = "base64" -> Base64Law(c.a, c.k)
    [] c.law = "od" -> OdLaw(c.a)
    [] c.law = "dd" -> DdLaw(c.a, c.k)
    [] c.law = "expr" -> ExprLaw(c.a)
    [] c.law = "getopts" -> GetoptsLaw(c.a, c.b)
    [] c.law = "test" -> TestLaw(c.a, c.b)
    [] c.law = "printf" -> PrintfLaw(c.a, c.b)
    [] c.law = "xargs" -> XargsLaw(c.a, c.b[1], c.k)
    [] c.law = "env" -> EnvLaw(c.a, c.k)
    [] c.law = "find" -> FindLaw(c.a, c.b[1], c.b[2])
    [] c.law = "shut" -> ShutLaw
    [] c.law = "telnet" -> TelnetLaw(c.a, c.k)
    [] OTHER -> TRUE

Nothing == Case("none", <<>>, <<>>, 0)
ToolsInit == asked = Nothing
ToolsNext == asked.law = "none" /\ (AskCore \/ AskScan \/ AskLines \/ AskData \/ AskArgs \/ AskWalks \/ AskFailing)
toolVars == <<asked>>
\* The text tools agree with each other and with themselves: what head leaves tail prints, sort -u is
\* uniq of sort, a cut and its complement are the line, what base64, dd, split and fold take apart can
\* be put together, diff's hunks lead from one file to the other, wc counts what fmt lays out, grep's
\* options tell one story, expr gives the value of its precedence; and getopts, test, printf, xargs, env -S
\* and find do what their words spell, telnet what the server and the user said, however either is cut
\* (core.c:4440-4625, 6470-6677, 18120-18311, 18729-25392, 29398-29538, sh_builtins.c:136-583 and
\* 1560-1679, and the *_app.c).
ToolsAgree == [][Agrees(asked')]_toolVars
\* A tool that could not read one of its files says so with its status and prints what the others give,
\* but for those that are known to keep quiet (sum, tee, a read error of paste, comm, cmp, diff, nl, od
\* and split, grep after a file that could be scanned), of which it says exactly what they do
\* (core.c:23952-24003, 14988-15056, the loops over the operands of every tool).
FailuresAreReported == [][asked'.law = "failing" => Honest(asked'.tool, asked'.files)]_toolVars
=============================================================================
