----------------------------- MODULE DataTools -----------------------------
(***************************************************************************)
(* The tools that turn bytes into something else: base64, od, dd, expr,    *)
(* and telnet between a user and a server.                                 *)
(***************************************************************************)
EXTENDS Texts

\* base64: a byte of the alphabet for every six bits, in groups of four.
Alphabet == [v \in 0 .. 63 |-> IF v < 26 THEN 65 + v ELSE IF v < 52 THEN 71 + v ELSE IF v < 62 THEN v - 4 ELSE IF v = 62 THEN 43 ELSE 47]
Equals == 61
Base64DecodeChar(c) == IF \E v \in 0 .. 63 : Alphabet[v] = c THEN CHOOSE v \in 0 .. 63 : Alphabet[v] = c ELSE -1
Base64Group(b) ==
  LET byte(k) == IF k <= Len(b) THEN b[k] ELSE 0
  IN <<Alphabet[byte(1) \div 4], Alphabet[(byte(1) % 4) * 16 + (byte(2) \div 16)],
       IF Len(b) > 1 THEN Alphabet[(byte(2) % 16) * 4 + (byte(3) \div 64)] ELSE Equals,
       IF Len(b) > 2 THEN Alphabet[byte(3) % 64] ELSE Equals>>
Base64Encode(t, wrap) ==  \* wrap: the bytes of a line (none: 0)
  LET code == Joined([k \in DOMAIN Pieces(t, 3) |-> Base64Group(Pieces(t, 3)[k])])
  IN IF wrap <= 0 THEN code ELSE Joined([k \in DOMAIN Pieces(code, wrap) |-> Append(Pieces(code, wrap)[k], NL)])
Base64Bytes(v) ==         \* the bytes of two to four values
  SubSeq(<<v[1] * 4 + (v[2] \div 16),
           IF Len(v) > 2 THEN (v[2] % 16) * 16 + (v[3] \div 4) ELSE 0,
           IF Len(v) > 3 THEN (v[3] % 4) * 64 + v[4] ELSE 0>>, 1, Len(v) - 1)
\* What stands before the first = or, unless garbage is ignored, before the first byte of no value.
Base64Decode(o, t) ==
  LET ends == {i \in DOMAIN t : t[i] = Equals}
      bad == {i \in DOMAIN t : t[i] \notin {Equals, NL, 13, SP, TAB} /\ Base64DecodeChar(t[i]) < 0}
      stops == ends \cup (IF Has(o, "i") THEN {} ELSE bad)
      stop == IF stops = {} THEN Len(t) + 1 ELSE CHOOSE i \in stops : \A j \in stops : i <= j
      read == SelectSeq(UpTo(t, stop - 1), LAMBDA c : Base64DecodeChar(c) >= 0)
      groups == Pieces([i \in DOMAIN read |-> Base64DecodeChar(read[i])], 4)
      invalid == stop \in bad /\ stop \in stops
      kept == SelectSeq(groups, LAMBDA v : Len(v) = 4 \/ (Len(v) > 1 /\ ~invalid))
  IN Outcome(Joined([k \in DOMAIN kept |-> Base64Bytes(kept[k])]),
             IF invalid \/ (Len(read) % 4) = 1 THEN 1 ELSE 0)
\* Only the first operand counts, and decoding takes a read error for the end.
Base64(o) ==
  LET f == o.files[1]
  IN CASE ~f.opens -> Usage(1)
       [] f.opens /\ Has(o, "d") -> Base64Decode(o, f.text)
       [] OTHER -> Outcome(Base64Encode(f.text, o.w), IF f.reads THEN 0 ELSE 1)

-----------------------------------------------------------------------------
(* od: rows of sixteen bytes, in units of w bytes, the least significant   *)
(* first; a unit cut short by the end is filled with zeros.  list is the   *)
(* type, sets[1] the radix of the addresses.                               *)
OdRow == 16
OdParseType(spec) ==      \* the letter and the size of a type; none: it is invalid
  LET size == IF Len(spec) < 2 THEN 2 ELSE spec[2] - 48
  IN CASE spec = <<>> -> <<>>
       [] spec # <<>> /\ spec[1] = 99 -> <<99, 1>>                       \* c
       [] spec # <<>> /\ spec[1] \in {120, 111, 100, 117} /\ size \in {1, 2, 4} -> <<spec[1], size>>
       [] OTHER -> <<>>
\* Of four bytes the highest bit is clear (MaxInt of the checker).
OdSigned(v, w) == LET half == IF w = 1 THEN 128 ELSE 32768 IN IF w < 4 /\ v >= half THEN v - 2 * half ELSE v
OdCharRepr(b) == IF b < SP \/ b > 126 \/ b = 92 THEN Number(b) ELSE b   \* an escape, \ included
OdPrintValue(type, unit) ==
  LET v == FoldLeft(LAMBDA sum, c : 256 * sum + c, 0, Reverse(unit))
  IN CASE type[1] = 99 -> OdCharRepr(unit[1])
       [] type[1] = 100 -> Number(OdSigned(v, type[2]))
       [] OTHER -> Number(v)
OdPrintAddress(o, addr) == IF o.sets # <<>> /\ o.sets[1] = <<110>> THEN <<>> ELSE <<Number(addr)>>
OdRowText(o, type, row, addr) ==
  LET units == Pieces(row, type[2])
      padding == [k \in 1 .. (OdRow \div type[2]) - Len(units) |-> SP]
  IN OdPrintAddress(o, addr) \o [k \in DOMAIN units |-> OdPrintValue(type, units[k])] \o padding \o <<NL>>
Od(o) ==
  LET f == o.files[1]
      type == OdParseType(o.list)
      rows == Pieces(f.text, OdRow)
  IN IF ~f.opens \/ type = <<>> \/ (o.sets # <<>> /\ o.sets[1] \notin {<<100>>, <<111>>, <<120>>, <<110>>}) THEN Usage(1)
     ELSE Outcome(Joined([k \in DOMAIN rows |-> OdRowText(o, type, rows[k], (k - 1) * OdRow)])
                  \o OdPrintAddress(o, Len(f.text)) \o <<NL>>, 0)

\* dd: list is bs, n the number of blocks (-1: all), m of blocks passed over in the input, w in the output.
DdParseSize(t) ==
  LET size == Strtol(t)
      unit == IF size.rest = <<>> THEN NUL ELSE size.rest[1]
  IN size.v * (CASE unit \in {107, 75} -> 1024                           \* k
                 [] unit \in {77, 109} -> 1048576                        \* M
                 [] unit \in {71, 103} -> 1073741824                     \* G
                 [] unit = 98 -> 512                                     \* b
                 [] unit = 119 -> 2                                      \* w
                 [] OTHER -> 1)
DdWritten(old, seek, t) ==     \* a gap behind the end is filled with zeros
  LET gap == [k \in 1 .. (IF seek > Len(old) THEN seek - Len(old) ELSE 0) |-> NUL]
  IN IF t = <<>> THEN old ELSE AtMost(old, seek) \o gap \o t \o From(old, seek + Len(t) + 1)
Dd(o) ==
  LET bs == DdParseSize(o.list)
      from == o.files[1]
      to == o.files[2]
      rest == From(from.text, o.m * bs + 1)
      copied == IF o.n < 0 THEN rest ELSE AtMost(rest, o.n * bs)
      old == IF to.opens /\ Has(o, "notrunc") THEN to.text ELSE <<>>
  IN IF bs <= 0 \/ ~from.opens \/ Has(o, "denied") THEN Usage(1)
     ELSE [out |-> <<>>, made |-> <<DdWritten(old, o.w * bs, copied)>>, status |-> IF from.reads THEN 0 ELSE 1]

-----------------------------------------------------------------------------
(* expr: sets holds the tokens.  A parser is [at, v, err, quit]: where it  *)
(* is, the value read, whether anything went wrong.                        *)
Or == <<124>>
And == <<38>>
Comparisons == {<<61>>, <<61, 61>>, <<33, 61>>, <<60>>, <<60, 61>>, <<62>>, <<62, 61>>}
Sums == {<<43>>, <<45>>}
Products == {<<42>>, <<47>>, <<37>>}
MatchOp == <<58>>
Open == <<40>>
Close == <<41>>
One == <<49>>
Zero == <<48>>
ExprLength == <<108>>     \* the words length, index, substr and match
ExprIndex == <<105>>
ExprSubstr == <<115>>
ExprMatch_ == <<109>>
ExprIsInteger(s) == Strtol(s).ok /\ Strtol(s).rest = <<>>
ExprIsFalsey(s) == s = <<>> \/ (ExprIsInteger(s) /\ Strtol(s).v = 0)
\* The pattern is literal text, with or without a group around all of it (its
\* first byte is then that of Open); it matches at the beginning.
ExprMatch(s, p) ==
  LET group == p # <<>> /\ p[1] = 40
      text == IF group THEN Tail(p) ELSE p
      matches == AtMost(s, Len(text)) = text
  IN IF group THEN (IF matches THEN text ELSE <<>>) ELSE IF matches THEN Decimal(Len(text)) ELSE Zero
Truth(b) == IF b THEN One ELSE Zero
\* C's division cuts towards zero.
Quotient(a, b) == LET q == (IF a < 0 THEN -a ELSE a) \div (IF b < 0 THEN -b ELSE b) IN IF (a < 0) = (b < 0) THEN q ELSE -q
ExprOrder(l, r) ==
  IF ExprIsInteger(l) /\ ExprIsInteger(r)
  THEN (IF Strtol(l).v < Strtol(r).v THEN -1 ELSE IF Strtol(l).v > Strtol(r).v THEN 1 ELSE 0)
  ELSE Compare(l, r)
Compares(op, cmp) ==
  CASE op \in {<<61>>, <<61, 61>>} -> cmp = 0
    [] op = <<33, 61>> -> cmp # 0
    [] op = <<60>> -> cmp < 0
    [] op = <<60, 61>> -> cmp <= 0
    [] op = <<62>> -> cmp > 0
    [] OTHER -> cmp >= 0

Peek(ts, p) == IF p.at <= Len(ts) THEN ts[p.at] ELSE <<NUL>>
Ahead(p, n) == [p EXCEPT !.at = @ + n]
Value(p, v) == [p EXCEPT !.v = v]
Wrong(p, v) == [p EXCEPT !.v = v, !.err = TRUE]
\* One operator applied: quit, where the level gives up at once with what it has.
ExprApply(op, l, r, p) ==
  LET numbers == ExprIsInteger(l) /\ ExprIsInteger(r)
      a == Strtol(l).v
      b == Strtol(r).v
  IN CASE op = Or -> Value(p, IF ExprIsFalsey(l) THEN r ELSE l)
       [] op = And -> Value(p, IF ExprIsFalsey(l) \/ ExprIsFalsey(r) THEN Zero ELSE l)
       [] op \in Comparisons -> Value(p, Truth(Compares(op, ExprOrder(l, r))))
       [] op = MatchOp -> Value(p, ExprMatch(l, r))
       [] op \in Sums -> IF numbers THEN Value(p, Decimal(IF op = <<43>> THEN a + b ELSE a - b))
                         ELSE [Wrong(p, Zero) EXCEPT !.quit = TRUE]
       [] OTHER -> IF ~numbers THEN Wrong(p, Zero)
                   ELSE IF op # <<42>> /\ b = 0 THEN [Wrong(p, Zero) EXCEPT !.quit = TRUE]
                   ELSE Value(p, Decimal(IF op = <<42>> THEN a * b
                                               ELSE IF op = <<47>> THEN Quotient(a, b) ELSE a - b * Quotient(a, b)))
\* The levels, from | to :, each a chain of operands of the next.
Levels == <<{Or}, {And}, Comparisons, Sums, Products, {MatchOp}>>
RECURSIVE ExprLevel(_, _, _), ExprChain(_, _, _), ExprParsePrimary(_, _)
ExprLevel(ts, p, k) == IF k > Len(Levels) THEN ExprParsePrimary(ts, p) ELSE ExprChain(ts, ExprLevel(ts, p, k + 1), k)
ExprChain(ts, left, k) ==
  LET op == Peek(ts, left)
      right == ExprLevel(ts, Ahead(left, 1), k + 1)
      next == ExprApply(op, left.v, right.v, right)
  IN CASE op \notin Levels[k] -> left
       [] op \in Levels[k] /\ next.quit -> [next EXCEPT !.quit = FALSE]
       [] OTHER -> ExprChain(ts, next, k)
ExprParsePrimary(ts, p) ==
  LET tok == Peek(ts, p)
      left == Len(ts) - p.at + 1
      arg(k) == ts[p.at + k]
      inner == ExprLevel(ts, Ahead(p, 1), 1)
      closed == IF inner.at <= Len(ts) THEN Ahead(inner, 1) ELSE inner
      in == {i \in DOMAIN arg(1) : Contains(arg(2), arg(1)[i])}
      from == Strtol(arg(2)).v
  IN CASE left = 0 -> Wrong(p, <<>>)
       [] left > 0 /\ tok = Open -> IF Peek(ts, inner) = Close THEN closed ELSE [closed EXCEPT !.err = TRUE]
       [] left >= 2 /\ tok = ExprLength -> Value(Ahead(p, 2), Decimal(Len(arg(1))))
       [] left >= 3 /\ tok = ExprIndex ->
            Value(Ahead(p, 3), Decimal(IF in = {} THEN 0 ELSE CHOOSE i \in in : \A j \in in : i <= j))
       [] left >= 4 /\ tok = ExprSubstr ->
            IF ~ExprIsInteger(arg(2)) \/ ~ExprIsInteger(arg(3)) THEN Wrong(Ahead(p, 4), <<>>)
            ELSE IF from < 1 \/ Strtol(arg(3)).v < 0 \/ from > Len(arg(1)) THEN Value(Ahead(p, 4), <<>>)
            ELSE Value(Ahead(p, 4), AtMost(From(arg(1), from), Strtol(arg(3)).v))
       [] left >= 3 /\ tok = ExprMatch_ -> Value(Ahead(p, 3), ExprMatch(arg(1), arg(2)))
       [] OTHER -> Value(Ahead(p, 1), tok)
Expr(o) ==
  LET p == ExprLevel(o.sets, [at |-> 1, v |-> <<>>, err |-> FALSE, quit |-> FALSE], 1)
  IN IF o.sets = <<>> \/ p.at <= Len(o.sets) \/ p.err THEN Usage(2)
     ELSE Outcome(p.v \o <<NL>>, IF ExprIsFalsey(p.v) THEN 1 ELSE 0)

-----------------------------------------------------------------------------
(* telnet: what the server sends is data with commands in it.              *)

IAC == 255
DONT == 254
DO == 253
WONT == 252
WILL == 251
SB == 250
SE == 240
Replying(cmd, option) ==
  CASE cmd = DO -> <<<<IAC, WONT, option>>>> [] cmd = WILL -> <<<<IAC, DONT, option>>>> [] OTHER -> <<>>
\* plain is what a read leaves to be shown, sent what goes to the server, one entry for a write.
FeedByte(st, c) ==
  LET to(state) == [st EXCEPT !.state = state]
      plain(byte) == [to("DATA") EXCEPT !.plain = Append(@, byte)]
  IN CASE st.state = "DATA" -> IF c = IAC THEN to("IAC") ELSE plain(c)
       [] st.state = "IAC" /\ c = IAC -> plain(IAC)
       [] st.state = "IAC" /\ c \in {DO, DONT, WILL, WONT} -> [to("CMD") EXCEPT !.pendingCmd = c]
       [] st.state = "IAC" /\ c \notin {IAC, DO, DONT, WILL, WONT} -> to(IF c = SB THEN "SB" ELSE "DATA")
       [] st.state = "CMD" -> [to("DATA") EXCEPT !.sent = @ \o Replying(st.pendingCmd, c)]
       [] st.state = "SB" -> IF c = IAC THEN to("SB_IAC") ELSE st
       [] st.state = "SB_IAC" -> to(IF c = SE THEN "DATA" ELSE "SB")
\* A turn of select: what is ready on the two sides (nothing; an end or a failing read; bytes), and
\* whether a write to the screen or to the server fails.
Idle == [ready |-> FALSE, bytes |-> <<>>]
Ending == [ready |-> TRUE, bytes |-> <<>>]
Bytes(t) == [ready |-> TRUE, bytes |-> t]
Stopped(st) == [st EXCEPT !.running = FALSE, !.status = 1]
FromServer(st, turn) ==
  LET fed == FoldLeft(FeedByte, [st EXCEPT !.plain = <<>>], turn.sock.bytes)
  IN CASE ~turn.sock.ready -> st
       [] turn.sock = Ending -> [st EXCEPT !.running = FALSE]
       [] OTHER -> IF turn.deaf /\ fed.plain # <<>> THEN Stopped(fed) ELSE [fed EXCEPT !.shown = @ \o fed.plain]
FromUser(st, turn) ==
  CASE ~turn.stdin.ready -> st
    [] turn.stdin = Ending -> [st EXCEPT !.shutdowns = @ + 1]
    [] OTHER -> IF turn.gone \/ st.shutdowns > 0 THEN Stopped(st) ELSE [st EXCEPT !.sent = Append(@, turn.stdin.bytes)]
TelnetStart == [state |-> "DATA", pendingCmd |-> 0, plain |-> <<>>, shown |-> <<>>, sent |-> <<>>, shutdowns |-> 0, running |-> TRUE, status |-> 0]
Telnet(turns) ==
  FoldLeft(LAMBDA st, turn : IF st.running THEN FromUser(FromServer(st, turn), turn) ELSE st, TelnetStart, turns)
=============================================================================
