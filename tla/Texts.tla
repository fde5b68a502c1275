------------------------------- MODULE Texts -------------------------------
(***************************************************************************)
(* What the text tools read, write and are asked.  A text is a sequence of *)
(* bytes; a printed number and the name of an operand are one symbol each  *)
(* (above and below the bytes), for their layout is nobody's concern here. *)
(*                                                                         *)
(* A request is a tool with its options after they were read: flags is the *)
(* set of the letters given, n, m and w the numbers, list and sets what -f, *)
(* -e or an operand spells.  Its files are the operands in order, with     *)
(* standard input for an operand -.  An outcome is what the tool writes,   *)
(* the files it makes and its exit status.                                 *)
(***************************************************************************)
EXTENDS Integers, Sequences, FiniteSets, SequencesExt

NUL == 0
TAB == 9
NL == 10
SP == 32
Number(n) == 1000 + n
Label(i) == -i
White == {SP} \cup 9 .. 13
Digits == 48 .. 57
Lower == 97 .. 122
Upper == 65 .. 90
ToUpper(c) == IF c \in Lower THEN c - 32 ELSE c
ToLower(c) == IF c \in Upper THEN c + 32 ELSE c
AllLower(t) == [i \in DOMAIN t |-> ToLower(t[i])]
AllUpper(t) == [i \in DOMAIN t |-> ToUpper(t[i])]

\* A file that does not open; a directory and a broken file, which open and
\* cannot be read; one that gives its text.
AFile(opens, reads, dir, text, entries) == [opens |-> opens, reads |-> reads, dir |-> dir, text |-> text, entries |-> entries]
Missing == AFile(FALSE, FALSE, FALSE, <<>>, <<>>)
Folder(entries) == AFile(TRUE, FALSE, TRUE, <<>>, entries)
Unreadable == AFile(TRUE, FALSE, FALSE, <<>>, <<>>)
Holding(t) == AFile(TRUE, TRUE, FALSE, t, <<>>)

Request == [tool |-> "cat", flags |-> {}, n |-> 0, m |-> 0, w |-> 0, list |-> <<>>, sets |-> <<>>, files |-> <<>>]
Has(o, flag) == flag \in o.flags
Outcome(out, status) == [out |-> out, made |-> <<>>, status |-> status]
Usage(status) == Outcome(<<>>, status)

Joined(parts) == FlattenSeq(parts)
UpTo(t, n) == SubSeq(t, 1, n)
From(t, n) == SubSeq(t, n, Len(t))
Place(c, t) == CHOOSE i \in DOMAIN t : t[i] = c /\ \A j \in 1 .. i - 1 : t[j] # c

\* getline: a line keeps its newline; the last may have none.
RECURSIVE Lines(_)
Lines(t) ==
  LET n == IF Contains(t, NL) THEN Place(NL, t) ELSE Len(t)
  IN IF t = <<>> THEN <<>> ELSE <<UpTo(t, n)>> \o Lines(From(t, n + 1))
Ended(line) == line # <<>> /\ Last(line) = NL
Body(line) == IF Ended(line) THEN Front(line) ELSE line
Newline(line) == IF Ended(line) THEN <<NL>> ELSE <<>>
\* What C takes for the string: up to the first NUL.
CString(t) == IF Contains(t, NUL) THEN UpTo(t, Place(NUL, t) - 1) ELSE t

\* strcmp, and strncmp with n > 0.
RECURSIVE Compare(_, _)
Compare(a, b) ==
  CASE a = <<>> /\ b = <<>> -> 0
    [] a = <<>> -> -1
    [] b = <<>> -> 1
    [] a[1] # b[1] -> IF a[1] < b[1] THEN -1 ELSE 1
    [] OTHER -> Compare(Tail(a), Tail(b))
\* The longest beginning of t without the bytes of a set is left out.
RECURSIVE Skip(_, _)
Skip(t, set) == IF t # <<>> /\ t[1] \in set THEN Skip(Tail(t), set) ELSE t
SkipTo(t, set) == LET at == {i \in DOMAIN t : t[i] \in set} IN IF at = {} THEN <<>> ELSE From(t, CHOOSE i \in at : \A j \in at : i <= j)

\* strtol, and strtod for whole numbers: the value, and what follows it.
Unsigned(t) == IF t # <<>> /\ t[1] \in {43, 45} THEN Tail(t) ELSE t
Strtol(t) ==
  LET text == Skip(t, White)
      rest == Skip(Unsigned(text), Digits)
      digits == UpTo(Unsigned(text), Len(Unsigned(text)) - Len(rest))
      v == FoldLeft(LAMBDA sum, c : 10 * sum + (c - 48), 0, digits)
  IN [ok |-> digits # <<>>, v |-> IF text # <<>> /\ text[1] = 45 THEN -v ELSE v, rest |-> IF digits = <<>> THEN t ELSE rest]
AtMost(t, n) == UpTo(t, IF n < Len(t) THEN n ELSE Len(t))
\* What comes in pieces of at most n.
Pieces(t, n) == [k \in 1 .. (Len(t) + n - 1) \div n |-> AtMost(From(t, (k - 1) * n + 1), n)]
\* %lld.
RECURSIVE Decimal(_)
Decimal(v) == IF v < 0 THEN <<45>> \o Decimal(-v) ELSE (IF v < 10 THEN <<>> ELSE Decimal(v \div 10)) \o <<48 + (v % 10)>>

\* The tools that go from operand to operand: one that does not open is
\* reported and passed over, one that fails is reported, and the others go on.
EachFile(o, Do(_)) ==
  Outcome(Joined([i \in DOMAIN o.files |-> IF o.files[i].opens THEN Do(i) ELSE <<>>]),
          IF \E i \in DOMAIN o.files : ~o.files[i].reads THEN 1 ELSE 0)
=============================================================================
