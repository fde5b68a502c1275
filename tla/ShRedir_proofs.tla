--------------------------- MODULE ShRedir_proofs ---------------------------
(***************************************************************************)
(* Every descriptor is restored when a command is over                     *)
(* (DescriptorsRestored), for every nesting of commands and every set of   *)
(* descriptors.                                                            *)
(*                                                                         *)
(* The argument: of every command under way there is a chain of descriptor *)
(* tables, from the one its next restoreFds would begin with, through one  *)
(* entry after the other, to the table the command began with (Leads).     *)
(* What exec or an open in place changes meanwhile goes through the chain  *)
(* up to the entry that undoes it (Perturbed); a redirection puts one more *)
(* table before the chain (Pushed), and restoreFds takes one off (Popped). *)
(* An exec throws its chain away, so for it a second invariant counts      *)
(* descriptors one by one (ExecKeeps).                                     *)
(***************************************************************************)
EXTENDS ShRedir, TLAPS, SequenceTheorems, FiniteSetTheorems, WellFoundedInduction

Tables == [Fds -> Files \cup {Closed}]
SavedFds == {e \in [fd : Targets, saved : {-1} \cup SaveBase .. LastFd] : e.saved # e.fd}
Frames == [kind : CommandKinds, step : {"applies", "runs", "restores", "discards"},
           saved : Seq(SavedFds), before : Tables,
           execed : SUBSET (0 .. SaveBase - 1), loose : SUBSET Fds]

-----------------------------------------------------------------------------
(* The chain of tables of a command.                                       *)

\* The table after the entry has been put back.
Undone(t, e) ==
    IF e.saved = -1 THEN [t EXCEPT ![e.fd] = Closed]
    ELSE [t EXCEPT ![e.fd] = IF t[e.saved] = Closed THEN @ ELSE t[e.saved], ![e.saved] = Closed]

\* What the table is when the command is over.
Restored(t, f) ==
    \A d \in Fds : t[d] = f.before[d] \/ d \in f.execed \/ (d \in f.loose /\ f.before[d] = Closed)

Chain(T, s) ==
    \A k \in 1 .. Len(s) :
        /\ T[k + 1] = Undone(T[k], s[k])
        /\ s[k].saved # -1 => T[k][s[k].saved] # Closed

Leads(from, f) ==
    \E T \in [1 .. Len(f.saved) + 1 -> Tables] :
        /\ T[1] = from /\ Chain(T, f.saved) /\ Restored(T[Len(f.saved) + 1], f)

LEMMA UndoneTable ==
  ASSUME RedirAssumption, NEW t \in Tables, NEW e \in SavedFds
  PROVE  /\ Undone(t, e) \in Tables
         /\ \A d \in Fds : Undone(t, e)[d] =
              IF d = e.saved THEN Closed ELSE IF d # e.fd THEN t[d]
              ELSE IF e.saved = -1 THEN Closed
              ELSE IF t[e.saved] = Closed THEN t[d] ELSE t[e.saved]
<1> USE DEF RedirAssumption, Fds, Tables, SavedFds, Closed, Files
<1>1. e.fd \in Fds /\ e.saved \in {-1} \cup SaveBase .. LastFd /\ e.saved # e.fd OBVIOUS
<1>2. CASE e.saved = -1 BY <1>1, <1>2 DEF Undone
<1>3. CASE e.saved # -1
  <2>1. e.saved \in Fds BY <1>1, <1>3
  <2>2. QED BY <1>1, <1>3, <2>1 DEF Undone
<1>4. QED BY <1>2, <1>3

\* A command without entries left leads to the table that it has.
LEMMA NoEntryLeads ==
  ASSUME NEW t \in Tables, NEW f \in Frames, f.saved = <<>>
  PROVE  Leads(t, f) <=> Restored(t, f)
<1>1. Len(f.saved) = 0 OBVIOUS
<1>2. ASSUME Restored(t, f) PROVE Leads(t, f)
  <2> DEFINE T == [k \in 1 .. 1 |-> t]
  <2>1. T \in [1 .. Len(f.saved) + 1 -> Tables] /\ T[1] = t /\ T[Len(f.saved) + 1] = t BY <1>1
  <2>2. Chain(T, f.saved) BY <1>1 DEF Chain
  <2>3. QED BY <1>2, <2>1, <2>2 DEF Leads
<1>3. ASSUME Leads(t, f) PROVE Restored(t, f) BY <1>1, <1>3 DEF Leads
<1>4. QED BY <1>2, <1>3

\* A redirection that can be undone is one more entry at the head of the list.
LEMMA Pushed ==
  ASSUME NEW from \in Tables, NEW to \in Tables, NEW e \in SavedFds,
         NEW f \in Frames, NEW g \in Frames,
         Undone(to, e) = from, e.saved # -1 => to[e.saved] # Closed,
         g.saved = <<e>> \o f.saved, g.before = f.before,
         g.execed = f.execed, g.loose = f.loose,
         Leads(from, f)
  PROVE  Leads(to, g)
<1> DEFINE n == Len(f.saved)
<1>1. f.saved \in Seq(SavedFds) /\ <<e>> \in Seq(SavedFds) /\ n \in Nat BY DEF Frames
<1>2. Len(g.saved) = n + 1 /\ g.saved[1] = e /\ \A k \in 2 .. n + 1 : g.saved[k] = f.saved[k - 1]
  BY <1>1, ConcatProperties DEF Frames
<1>3. PICK T \in [1 .. n + 1 -> Tables] :
        T[1] = from /\ Chain(T, f.saved) /\ Restored(T[n + 1], f)
  BY DEF Leads
<1> DEFINE S == [k \in 1 .. n + 2 |-> IF k = 1 THEN to ELSE T[k - 1]]
<1>4. S \in [1 .. Len(g.saved) + 1 -> Tables] /\ S[1] = to /\ S[Len(g.saved) + 1] = T[n + 1]
  BY <1>1, <1>2, <1>3
<1>5. Chain(S, g.saved)
  <2> SUFFICES ASSUME NEW k \in 1 .. n + 1
               PROVE  S[k + 1] = Undone(S[k], g.saved[k]) /\ (g.saved[k].saved # -1 => S[k][g.saved[k].saved] # Closed)
    BY <1>2 DEF Chain
  <2>1. CASE k = 1 BY <1>1, <1>2, <1>3, <2>1
  <2>2. CASE k # 1
    <3>1. k - 1 \in 1 .. n /\ S[k] = T[k - 1] /\ S[k + 1] = T[(k - 1) + 1] /\ g.saved[k] = f.saved[k - 1]
      BY <1>1, <1>2, <2>2
    <3>2. QED BY <3>1, <1>3 DEF Chain
  <2>3. QED BY <2>1, <2>2
<1>6. Restored(S[Len(g.saved) + 1], g) BY <1>3, <1>4 DEF Restored
<1>7. QED BY <1>4, <1>5, <1>6 DEF Leads

\* restoreFds puts the head of the list back.
LEMMA Popped ==
  ASSUME NEW from \in Tables, NEW f \in Frames, NEW g \in Frames,
         f.saved # <<>>, g.saved = Tail(f.saved), g.before = f.before,
         g.execed = f.execed, g.loose = f.loose,
         Leads(from, f)
  PROVE  Undone(from, Head(f.saved)) \in Tables /\ Leads(Undone(from, Head(f.saved)), g)
<1> DEFINE n == Len(f.saved)
<1>1. f.saved \in Seq(SavedFds) BY DEF Frames
<1>2. n \in Nat /\ n > 0 /\ Head(f.saved) = f.saved[1] BY <1>1, EmptySeq, LenProperties
<1>3. Len(g.saved) = n - 1 /\ \A k \in 1 .. n - 1 : g.saved[k] = f.saved[k + 1]
  BY <1>1, HeadTailProperties
<1>4. PICK T \in [1 .. n + 1 -> Tables] :
        T[1] = from /\ Chain(T, f.saved) /\ Restored(T[n + 1], f)
  BY DEF Leads
<1>5. T[2] = Undone(from, Head(f.saved)) /\ T[2] \in Tables
  <2>1. 1 \in 1 .. n /\ 1 + 1 = 2 /\ 2 \in 1 .. n + 1 BY <1>2
  <2>2. T[1 + 1] = Undone(T[1], f.saved[1]) BY <2>1, <1>4 DEF Chain
  <2>3. QED BY <2>1, <2>2, <1>2, <1>4
<1> DEFINE S == [k \in 1 .. n |-> T[k + 1]]
<1>6. S \in [1 .. Len(g.saved) + 1 -> Tables] /\ S[1] = T[2] /\ S[Len(g.saved) + 1] = T[n + 1]
  BY <1>2, <1>3, <1>4
<1>7. Chain(S, g.saved)
  <2> SUFFICES ASSUME NEW k \in 1 .. n - 1
               PROVE  S[k + 1] = Undone(S[k], g.saved[k]) /\ (g.saved[k].saved # -1 => S[k][g.saved[k].saved] # Closed)
    BY <1>3 DEF Chain
  <2>1. k + 1 \in 1 .. n /\ S[k] = T[k + 1] /\ S[k + 1] = T[(k + 1) + 1] /\ g.saved[k] = f.saved[k + 1]
    BY <1>2, <1>3
  <2>2. QED BY <2>1, <1>4 DEF Chain
<1>8. Restored(S[Len(g.saved) + 1], g) BY <1>4, <1>6 DEF Restored
<1>9. QED BY <1>5, <1>6, <1>7, <1>8 DEF Leads

\* A table may differ from the one a chain begins with where exec changed it,
\* below the copies (X), and where a descriptor was closed (L): what was changed
\* stays until the entry that undoes it.
LEMMA Perturbed ==
  ASSUME RedirAssumption, NEW from \in Tables, NEW new \in Tables,
         NEW X \in SUBSET (0 .. SaveBase - 1), NEW L \in SUBSET Fds,
         \A d \in Fds : new[d] = from[d] \/ d \in X \/ (d \in L /\ from[d] = Closed),
         NEW f \in Frames, NEW g \in Frames,
         g.saved = f.saved, g.before = f.before,
         g.execed = f.execed \cup X, g.loose = f.loose \cup L,
         Leads(from, f)
  PROVE  Leads(new, g)
<1> DEFINE n == Len(f.saved)
<1>1. f.saved \in Seq(SavedFds) /\ n \in Nat BY DEF Frames
<1>2. PICK T \in [1 .. n + 1 -> Tables] :
        T[1] = from /\ Chain(T, f.saved) /\ Restored(T[n + 1], f)
  BY DEF Leads
<1> DEFINE Changed(k, d) ==
             /\ new[d] # from[d]
             /\ \A j \in 1 .. n : j < k => f.saved[j].fd # d
             /\ d \in X \/ \A j \in 1 .. n + 1 : j <= k => T[j][d] = Closed
           Table(k) == [d \in Fds |-> IF Changed(k, d) THEN new[d] ELSE T[k][d]]
           S == [k \in 1 .. n + 1 |-> Table(k)]
<1>3. S \in [1 .. n + 1 -> Tables] BY <1>2 DEF Tables
<1>4. S[1] = new
  <2>1. 1 \in 1 .. n + 1 BY <1>1
  <2>2. \A d \in Fds : S[1][d] = new[d]
    <3> SUFFICES ASSUME NEW d \in Fds PROVE S[1][d] = new[d] OBVIOUS
    <3>1. CASE new[d] = from[d] BY <2>1, <3>1, <1>2
    <3>2. CASE new[d] # from[d]
      <4>1. \A j \in 1 .. n : ~ (j < 1) BY <1>1
      <4>2. d \in X \/ \A j \in 1 .. n + 1 : j <= 1 => T[j][d] = Closed BY <1>1, <1>2, <3>2
      <4>3. Changed(1, d) BY <3>2, <4>1, <4>2
      <4>4. QED BY <2>1, <4>3
    <3>3. QED BY <3>1, <3>2
  <2>3. QED BY <2>1, <2>2, <1>3 DEF Tables
<1>5. Chain(S, f.saved)
  <2> SUFFICES ASSUME NEW k \in 1 .. n
               PROVE  S[k + 1] = Undone(S[k], f.saved[k]) /\ (f.saved[k].saved # -1 => S[k][f.saved[k].saved] # Closed)
    BY DEF Chain
  <2> DEFINE e == f.saved[k]
  <2>1. e \in SavedFds BY <1>1, ElementOfSeq
  <2>2. k \in 1 .. n + 1 /\ k + 1 \in 1 .. n + 1 BY <1>1
  <2>3. T[k] \in Tables /\ T[k + 1] \in Tables /\ S[k] \in Tables /\ S[k + 1] \in Tables BY <2>2, <1>2, <1>3
  <2>4. T[k + 1] = Undone(T[k], e) /\ (e.saved # -1 => T[k][e.saved] # Closed) BY <1>2 DEF Chain
  <2>5. \A d \in Fds : T[k + 1][d] =
              IF d = e.saved THEN Closed ELSE IF d # e.fd THEN T[k][d]
              ELSE IF e.saved = -1 THEN Closed ELSE T[k][e.saved]
    BY <2>1, <2>3, <2>4, UndoneTable
  <2>6. \A d \in Fds : S[k][d] = IF Changed(k, d) THEN new[d] ELSE T[k][d] BY <2>2
  <2>7. \A d \in Fds : S[k + 1][d] = IF Changed(k + 1, d) THEN new[d] ELSE T[k + 1][d] BY <2>2
  <2>8. e.fd \in Fds /\ e.saved \in {-1} \cup SaveBase .. LastFd /\ e.saved # e.fd
    BY <2>1 DEF SavedFds, RedirAssumption
  <2>9. e.saved # -1 => e.saved \in Fds /\ ~ Changed(k, e.saved) /\ ~ Changed(k + 1, e.saved)
    <3> SUFFICES ASSUME e.saved # -1 PROVE e.saved \in Fds /\ ~ Changed(k, e.saved) /\ ~ Changed(k + 1, e.saved)
      OBVIOUS
    <3>1. e.saved \in Fds /\ e.saved \notin X BY <2>8 DEF Fds, RedirAssumption
    <3>2. T[k][e.saved] # Closed BY <2>4
    <3>3. k <= k /\ k <= k + 1 BY <1>1
    <3>4. QED BY <3>1, <3>2, <3>3, <2>2
  <2>10. e.saved # -1 => S[k][e.saved] = T[k][e.saved] /\ S[k + 1][e.saved] = Closed
    BY <2>5, <2>6, <2>7, <2>9
  <2>11. S[k + 1][e.fd] = T[k + 1][e.fd]
    <3>1. k < k + 1 BY <1>1
    <3>2. ~ Changed(k + 1, e.fd) BY <3>1
    <3>3. QED BY <3>2, <2>7, <2>8
  <2>12. \A d \in Fds \ {e.fd, e.saved} : Changed(k + 1, d) <=> Changed(k, d)
    <3> SUFFICES ASSUME NEW d \in Fds \ {e.fd, e.saved} PROVE Changed(k + 1, d) <=> Changed(k, d)
      OBVIOUS
    <3>1. T[k + 1][d] = T[k][d] BY <2>5
    <3>2. (\A j \in 1 .. n : j < k + 1 => f.saved[j].fd # d) <=> (\A j \in 1 .. n : j < k => f.saved[j].fd # d)
      <4>1. \A j \in 1 .. n : j < k + 1 <=> j < k \/ j = k BY <1>1
      <4>2. QED BY <4>1
    <3>3. (\A j \in 1 .. n + 1 : j <= k + 1 => T[j][d] = Closed) <=> (\A j \in 1 .. n + 1 : j <= k => T[j][d] = Closed)
      <4>1. \A j \in 1 .. n + 1 : j <= k + 1 <=> j <= k \/ j = k + 1 BY <1>1
      <4>2. k <= k BY <1>1
      <4>3. QED BY <4>1, <4>2, <3>1, <2>2
    <3>4. QED BY <3>2, <3>3
  <2>13. \A d \in Fds \ {e.fd, e.saved} : S[k + 1][d] = S[k][d] BY <2>5, <2>6, <2>7, <2>12
  <2> HIDE DEF S, Changed
  <2>14. \A d \in Fds : Undone(S[k], e)[d] =
              IF d = e.saved THEN Closed ELSE IF d # e.fd THEN S[k][d]
              ELSE IF e.saved = -1 THEN Closed
              ELSE IF S[k][e.saved] = Closed THEN S[k][d] ELSE S[k][e.saved]
    BY <2>1, <2>3, UndoneTable
  <2>15. Undone(S[k], e) \in Tables BY <2>1, <2>3, UndoneTable
  <2>16. \A d \in Fds : S[k + 1][d] = Undone(S[k], e)[d]
    <3> SUFFICES ASSUME NEW d \in Fds PROVE S[k + 1][d] = Undone(S[k], e)[d] OBVIOUS
    <3>0. -1 \notin Fds BY DEF Fds
    <3>1. CASE d = e.saved BY <3>0, <3>1, <2>10, <2>14
    <3>2. CASE d = e.fd BY <3>2, <2>4, <2>5, <2>8, <2>10, <2>11, <2>14
    <3>3. CASE d \notin {e.fd, e.saved} BY <3>3, <2>13, <2>14
    <3>4. QED BY <3>1, <3>2, <3>3
  <2>17. S[k + 1] = Undone(S[k], e) BY <2>3, <2>15, <2>16 DEF Tables
  <2>18. QED BY <2>17, <2>10, <2>4
<1>6. Restored(S[n + 1], g)
  <2> SUFFICES ASSUME NEW d \in Fds
               PROVE  S[n + 1][d] = g.before[d] \/ d \in g.execed \/ (d \in g.loose /\ g.before[d] = Closed)
    BY DEF Restored
  <2>1. n + 1 \in 1 .. n + 1 BY <1>1
  <2>2. T[n + 1][d] = f.before[d] \/ d \in f.execed \/ (d \in f.loose /\ f.before[d] = Closed)
    BY <1>2 DEF Restored
  <2>3. CASE Changed(n + 1, d)
    <3>1. d \in X \/ (d \in L /\ T[n + 1][d] = Closed)
      <4>1. n + 1 <= n + 1 BY <1>1
      <4>2. QED BY <2>3, <2>1, <4>1
    <3>2. QED BY <3>1, <2>2
  <2>4. CASE ~ Changed(n + 1, d) BY <2>1, <2>2, <2>4
  <2>5. QED BY <2>3, <2>4
<1>7. QED
  <2> HIDE DEF S, Changed
  <2>1. QED BY <1>3, <1>4, <1>5, <1>6 DEF Leads

-----------------------------------------------------------------------------
(* The descriptors that the kernel chooses, and saveFd.                    *)

LEMMA MinOfNaturals ==
  ASSUME NEW S \in SUBSET Nat, S # {}
  PROVE  Min(S) \in S
<1>1. PICK x \in S : \A y \in S : ~ (<<y, x>> \in OpToRel(<, Nat))
  BY WFMin, NatLessThanWellFounded
<1>2. \A y \in S : ~ (y < x) BY <1>1 DEF OpToRel
<1>3. x \in S /\ \A y \in S : x <= y BY <1>2
<1>4. QED BY <1>3 DEF Min

LEMMA LowestIsFree ==
  ASSUME RedirAssumption, NEW t \in Tables, NEW from \in Nat
  PROVE  \/ Free(t, from) = {} /\ Lowest(t, from) = -1
         \/ Lowest(t, from) \in from .. LastFd /\ t[Lowest(t, from)] = Closed
<1>1. CASE Free(t, from) = {} BY <1>1 DEF Lowest
<1>2. CASE Free(t, from) # {}
  <2>1. Free(t, from) \in SUBSET Nat BY DEF Free, RedirAssumption
  <2>2. Min(Free(t, from)) \in Free(t, from) BY <1>2, <2>1, MinOfNaturals
  <2>3. QED BY <1>2, <2>2 DEF Lowest, Free
<1>3. QED BY <1>1, <1>2

\* saveFd keeps what a descriptor stands for: a table that differs from the one
\* it saved only there and in the copy is led back to it by the entry.
LEMMA SavedIsUndone ==
  ASSUME RedirAssumption, NEW t \in Tables, NEW io \in Targets, NEW s \in SaveBase .. LastFd,
         t[s] = Closed, NEW e, e = [fd |-> io, saved |-> IF t[io] = Closed THEN -1 ELSE s],
         NEW to \in Tables,
         \A d \in Fds \ {io, e.saved} : to[d] = t[d],
         e.saved # -1 => to[e.saved] = t[io]
  PROVE  /\ e \in SavedFds
         /\ Undone(to, e) = t
         /\ e.saved # -1 => to[e.saved] # Closed
<1>1. io \in Fds /\ SaveBase \in Nat BY DEF RedirAssumption
<1>2. e.fd = io /\ e.saved = IF t[io] = Closed THEN -1 ELSE s OBVIOUS
<1>3. e \in SavedFds
  <2>1. e \in [fd : Targets, saved : {-1} \cup SaveBase .. LastFd] OBVIOUS
  <2>2. e.saved # io BY <1>1, <1>2 DEF Fds
  <2>3. QED BY <2>1, <2>2, <1>2 DEF SavedFds
<1>4. e.saved # -1 => /\ e.saved \in SaveBase .. LastFd /\ e.saved \in Fds
                      /\ t[e.saved] = Closed /\ t[io] # Closed /\ to[e.saved] = t[io]
  BY <1>1, <1>2 DEF Fds
<1>5. e.saved = -1 => t[io] = Closed BY <1>1, <1>2
<1>6. \A d \in Fds : Undone(to, e)[d] = t[d]
  <2> SUFFICES ASSUME NEW d \in Fds PROVE Undone(to, e)[d] = t[d] OBVIOUS
  <2>1. Undone(to, e)[d] = IF d = e.saved THEN Closed ELSE IF d # e.fd THEN to[d]
              ELSE IF e.saved = -1 THEN Closed
              ELSE IF to[e.saved] = Closed THEN to[d] ELSE to[e.saved]
    BY <1>3, UndoneTable
  <2>2. -1 \notin Fds BY DEF Fds
  <2>3. CASE d = e.saved BY <2>1, <2>2, <2>3, <1>4
  <2>4. CASE d # e.saved /\ d # io BY <2>1, <2>4, <1>2
  <2>5. CASE d # e.saved /\ d = io BY <2>1, <2>5, <1>2, <1>4, <1>5
  <2>6. QED BY <2>3, <2>4, <2>5
<1>7. Undone(to, e) \in Tables BY <1>3, UndoneTable
<1>8. Undone(to, e) = t BY <1>6, <1>7 DEF Tables
<1>9. QED BY <1>3, <1>4, <1>8

Places == (1 .. MaxDepth) \X (1 .. MaxRedirs)

\* When every open descriptor from SaveBase on is one that commands redirect or is
\* one of as many as there are places for an entry, another is free.
LEMMA RoomForCopy ==
  ASSUME RedirAssumption, RoomAssumption, NEW t \in Tables, NEW f \in [Places -> Int],
         \A d \in SaveBase .. LastFd : t[d] # Closed => d \in Targets \/ \E p \in Places : f[p] = d
  PROVE  Free(t, SaveBase) # {}
<1> USE DEF RedirAssumption
<1> DEFINE High == SaveBase .. LastFd
           Asked == Targets \cap High
           Taken == {f[p] : p \in Places}
<1>1. IsFiniteSet(High) /\ Cardinality(High) = LastFd - SaveBase + 1
  BY FS_Interval
<1>2. IsFiniteSet(Asked) BY <1>1, FS_Subset
<1>3. IsFiniteSet(Places) /\ Cardinality(Places) = MaxDepth * MaxRedirs
  <2>1. IsFiniteSet(1 .. MaxDepth) /\ Cardinality(1 .. MaxDepth) = MaxDepth BY FS_Interval
  <2>2. IsFiniteSet(1 .. MaxRedirs) /\ Cardinality(1 .. MaxRedirs) = MaxRedirs BY FS_Interval
  <2>3. /\ IsFiniteSet((1 .. MaxDepth) \X (1 .. MaxRedirs))
        /\ Cardinality((1 .. MaxDepth) \X (1 .. MaxRedirs)) = Cardinality(1 .. MaxDepth) * Cardinality(1 .. MaxRedirs)
    BY <2>1, <2>2, FS_Product
  <2>4. QED BY <2>1, <2>2, <2>3 DEF Places
<1>4. IsFiniteSet(Taken) /\ Cardinality(Taken) <= Cardinality(Places)
  <2>1. f \in Surjection(Places, Taken) BY DEF Surjection
  <2>2. QED BY <2>1, <1>3, FS_Surjection
<1>5. /\ IsFiniteSet(Asked \cup Taken)
      /\ Cardinality(Asked \cup Taken) <= Cardinality(Asked) + MaxDepth * MaxRedirs
  <2>1. /\ IsFiniteSet(Asked \cup Taken)
        /\ Cardinality(Asked \cup Taken)
             = Cardinality(Asked) + Cardinality(Taken) - Cardinality(Asked \cap Taken)
    BY <1>2, <1>4, FS_Union
  <2>2. IsFiniteSet(Asked \cap Taken) BY <1>2, FS_Intersection
  <2>3. Cardinality(Asked \cap Taken) \in Nat /\ Cardinality(Asked) \in Nat /\ Cardinality(Taken) \in Nat
    BY <2>2, <1>2, <1>4, FS_CardinalityType
  <2>4. MaxDepth * MaxRedirs \in Nat BY <1>3, FS_CardinalityType
  <2> HIDE DEF Asked, Taken
  <2>5. QED BY <2>1, <2>3, <2>4, <1>3, <1>4
<1>6. ASSUME High \subseteq Asked \cup Taken PROVE FALSE
  <2>1. Cardinality(High) <= Cardinality(Asked \cup Taken) BY <1>5, <1>6, FS_Subset
  <2>2. Cardinality(Asked \cup Taken) \in Nat /\ Cardinality(Asked) \in Nat BY <1>2, <1>5, FS_CardinalityType
  <2>3. Cardinality(Asked) + MaxDepth * MaxRedirs < LastFd - SaveBase + 1 BY DEF RoomAssumption
  <2>4. MaxDepth * MaxRedirs \in Nat BY <1>3, FS_CardinalityType
  <2> HIDE DEF High, Asked, Taken
  <2>5. QED BY <1>1, <1>5, <2>1, <2>2, <2>3, <2>4
<1>7. PICK d \in High : d \notin Asked \cup Taken BY <1>6
<1>8. t[d] = Closed BY <1>7
<1>9. d \in Free(t, SaveBase) BY <1>7, <1>8 DEF Free
<1>10. QED BY <1>9

-----------------------------------------------------------------------------
(* The invariant.                                                          *)

Copies(s) == {s[i].saved : i \in 1 .. Len(s)}
Redirected(s) == {s[i].fd : i \in 1 .. Len(s)}

\* Of an exec: what it did not redirect is as it was, but for the copies, which
\* are where a descriptor was closed.
ExecKept(t, f) ==
    f.kind = "exec" /\ f.step # "restores" =>
        \A d \in Fds \ (IF f.step = "discards" THEN f.execed ELSE Redirected(f.saved)) :
            IF d \in Copies(f.saved) THEN f.before[d] = Closed ELSE t[d] = f.before[d]

RedirNesting ==
    /\ fds \in Tables /\ begun \in 0 .. MaxCommands
    /\ commands \in Seq(Frames) /\ Len(commands) <= MaxDepth
    /\ \A c \in 1 .. Len(commands) :
        /\ Len(commands[c].saved) <= MaxRedirs
        /\ c < Len(commands) => commands[c].kind = "compound" /\ commands[c].step = "runs"
        /\ commands[c].kind = "exec" => Redirected(commands[c].saved) \subseteq 0 .. SaveBase - 1
        /\ commands[c].step = "discards" => commands[c].kind = "exec"

OpenOrCopied ==
    \A d \in SaveBase .. LastFd : fds[d] # Closed =>
        d \in Targets \/ \E c \in 1 .. Len(commands) : d \in Copies(commands[c].saved)

RedirInv ==
    /\ RedirNesting
    /\ OpenOrCopied
    /\ \A c \in 1 .. Len(commands) - 1 : Leads(commands[c + 1].before, commands[c])
    /\ commands # <<>> => /\ Innermost.step # "discards" => Leads(fds, Innermost)
                          /\ ExecKept(fds, Innermost)

\* The entries with one more at the head, and without their head.
LEMMA OneMoreEntry ==
  ASSUME NEW e \in SavedFds, NEW s \in Seq(SavedFds)
  PROVE  /\ <<e>> \o s \in Seq(SavedFds) /\ Len(<<e>> \o s) = Len(s) + 1
         /\ Copies(<<e>> \o s) = {e.saved} \cup Copies(s)
         /\ Redirected(<<e>> \o s) = {e.fd} \cup Redirected(s)
<1> DEFINE r == <<e>> \o s
<1>1. r \in Seq(SavedFds) /\ Len(r) = Len(s) + 1 /\ r[1] = e /\ Len(s) \in Nat
      /\ \A i \in 2 .. Len(s) + 1 : r[i] = s[i - 1]
  BY ConcatProperties
<1>2. \A i \in 1 .. Len(s) : i + 1 \in 1 .. Len(r) /\ r[i + 1] = s[i] BY <1>1
<1>3. \A i \in 1 .. Len(r) : r[i] = e \/ \E j \in 1 .. Len(s) : r[i] = s[j]
  <2> SUFFICES ASSUME NEW i \in 1 .. Len(r), i # 1 PROVE \E j \in 1 .. Len(s) : r[i] = s[j]
    BY <1>1
  <2>1. i - 1 \in 1 .. Len(s) /\ r[i] = s[i - 1] BY <1>1
  <2>2. QED BY <2>1
<1>4. 1 \in 1 .. Len(r) /\ r[1] = e BY <1>1
<1>5. ASSUME NEW q, q = r PROVE Copies(q) = {e.saved} \cup Copies(s) /\ Redirected(q) = {e.fd} \cup Redirected(s)
  <2>1. \A i \in 1 .. Len(s) : i + 1 \in 1 .. Len(q) /\ q[i + 1] = s[i] BY <1>2, <1>5
  <2>2. \A i \in 1 .. Len(q) : q[i] = e \/ \E j \in 1 .. Len(s) : q[i] = s[j] BY <1>3, <1>5
  <2>3. 1 \in 1 .. Len(q) /\ q[1] = e BY <1>4, <1>5
  <2>4. \A x : x \in Copies(q) <=> x = e.saved \/ x \in Copies(s)
    <3>1. ASSUME NEW x \in Copies(q) PROVE x = e.saved \/ x \in Copies(s) BY <2>2, <3>1 DEF Copies
    <3>2. e.saved \in Copies(q) BY <2>3 DEF Copies
    <3>3. ASSUME NEW x \in Copies(s) PROVE x \in Copies(q) BY <2>1, <3>3 DEF Copies
    <3>4. QED BY <3>1, <3>2, <3>3
  <2>5. \A x : x \in Redirected(q) <=> x = e.fd \/ x \in Redirected(s)
    <3>1. ASSUME NEW x \in Redirected(q) PROVE x = e.fd \/ x \in Redirected(s) BY <2>2, <3>1 DEF Redirected
    <3>2. e.fd \in Redirected(q) BY <2>3 DEF Redirected
    <3>3. ASSUME NEW x \in Redirected(s) PROVE x \in Redirected(q) BY <2>1, <3>3 DEF Redirected
    <3>4. QED BY <3>1, <3>2, <3>3
  <2>6. QED BY <2>4, <2>5
<1>6. QED BY <1>1, <1>5

LEMMA OneEntryLess ==
  ASSUME NEW s \in Seq(SavedFds), s # <<>>
  PROVE  /\ Head(s) \in SavedFds /\ Tail(s) \in Seq(SavedFds)
         /\ Len(Tail(s)) = Len(s) - 1 /\ Len(s) \in Nat \ {0}
         /\ Copies(s) = {Head(s).saved} \cup Copies(Tail(s))
         /\ Redirected(s) = {Head(s).fd} \cup Redirected(Tail(s))
<1>1. /\ Head(s) \in SavedFds /\ Tail(s) \in Seq(SavedFds) /\ Len(Tail(s)) = Len(s) - 1
      /\ Len(s) \in Nat \ {0} /\ Head(s) = s[1]
      /\ \A i \in 1 .. Len(Tail(s)) : Tail(s)[i] = s[i + 1]
  BY HeadTailProperties, EmptySeq
<1>2. \A i \in 1 .. Len(s) : s[i] = Head(s) \/ \E j \in 1 .. Len(Tail(s)) : s[i] = Tail(s)[j]
  <2> SUFFICES ASSUME NEW i \in 1 .. Len(s), i # 1 PROVE \E j \in 1 .. Len(Tail(s)) : s[i] = Tail(s)[j]
    BY <1>1
  <2>1. i - 1 \in 1 .. Len(Tail(s)) /\ s[i] = Tail(s)[i - 1] BY <1>1
  <2>2. QED BY <2>1
<1>3. 1 \in 1 .. Len(s) /\ \A i \in 1 .. Len(Tail(s)) : i + 1 \in 1 .. Len(s) BY <1>1
<1>4. Copies(s) = {Head(s).saved} \cup Copies(Tail(s)) BY <1>1, <1>2, <1>3 DEF Copies
<1>5. Redirected(s) = {Head(s).fd} \cup Redirected(Tail(s)) BY <1>1, <1>2, <1>3 DEF Redirected
<1>6. QED BY <1>1, <1>4, <1>5

\* The innermost command is one of the frames.
LEMMA InnermostIsFrame ==
  ASSUME RedirNesting, commands # <<>>
  PROVE  /\ Len(commands) \in 1 .. Len(commands) /\ Innermost \in Frames
         /\ Innermost.saved \in Seq(SavedFds) /\ Len(Innermost.saved) \in 0 .. MaxRedirs
         /\ Innermost.kind = "exec" => Redirected(Innermost.saved) \subseteq 0 .. SaveBase - 1
         /\ Innermost.step = "discards" => Innermost.kind = "exec"
<1>1. commands \in Seq(Frames) BY DEF RedirNesting
<1>2. Len(commands) \in Nat \ {0} BY <1>1, EmptySeq
<1>3. Len(commands) \in 1 .. Len(commands) BY <1>2
<1>4. Innermost \in Frames BY <1>1, <1>3, ElementOfSeq DEF Innermost
<1>5. Innermost.saved \in Seq(SavedFds) BY <1>4 DEF Frames
<1>6. Len(Innermost.saved) \in Nat BY <1>5, LenProperties
<1>7. Len(Innermost.saved) <= MaxRedirs
      /\ (Innermost.kind = "exec" => Redirected(Innermost.saved) \subseteq 0 .. SaveBase - 1)
      /\ (Innermost.step = "discards" => Innermost.kind = "exec")
  BY <1>3 DEF RedirNesting, Innermost
<1>8. QED BY <1>3, <1>4, <1>5, <1>6, <1>7

\* While a redirection may be applied there is a descriptor for the copy, also
\* when the file is open at x.
LEMMA RoomNow ==
  ASSUME RedirAssumption, RoomAssumption, RedirInv, NEW io, Redirects(io),
         NEW t \in Tables, NEW x \in Int,
         \A d \in Fds \ {x} : t[d] # Closed => fds[d] # Closed
  PROVE  Free(t, SaveBase) # {}
<1> DEFINE InUse(p) == p[1] <= Len(commands) /\ p[2] <= Len(commands[p[1]].saved)
           f == [p \in Places |-> IF InUse(p) THEN commands[p[1]].saved[p[2]].saved ELSE x]
<1>0. RedirNesting /\ commands # <<>> BY DEF RedirInv, Redirects, Doing
<1>1. /\ Len(commands) \in 1 .. Len(commands) /\ Len(Innermost.saved) \in 0 .. MaxRedirs
      /\ Len(Innermost.saved) < MaxRedirs /\ MaxRedirs \in Nat /\ MaxDepth \in Nat
      /\ Len(commands) <= MaxDepth /\ commands \in Seq(Frames)
  BY <1>0, InnermostIsFrame DEF Redirects, RedirNesting, RedirAssumption
<1>2. \A c \in 1 .. Len(commands) : /\ commands[c].saved \in Seq(SavedFds)
                                    /\ Len(commands[c].saved) \in 0 .. MaxRedirs
  <2> SUFFICES ASSUME NEW c \in 1 .. Len(commands)
               PROVE  commands[c].saved \in Seq(SavedFds) /\ Len(commands[c].saved) \in 0 .. MaxRedirs
    OBVIOUS
  <2>1. commands[c] \in Frames BY <1>1, ElementOfSeq
  <2>2. commands[c].saved \in Seq(SavedFds) BY <2>1 DEF Frames
  <2>3. Len(commands[c].saved) \in Nat BY <2>2, LenProperties
  <2>4. QED BY <1>0, <2>2, <2>3 DEF RedirNesting
<1>3. f \in [Places -> Int]
  <2> SUFFICES ASSUME NEW p \in Places, InUse(p) PROVE commands[p[1]].saved[p[2]].saved \in Int
    OBVIOUS
  <2>1. p[1] \in 1 .. Len(commands) /\ p[2] \in 1 .. Len(commands[p[1]].saved) BY <1>1, <1>2 DEF Places
  <2>2. commands[p[1]].saved[p[2]] \in SavedFds BY <2>1, <1>2, ElementOfSeq
  <2>3. QED BY <2>2 DEF SavedFds, RedirAssumption
<1>4. ASSUME NEW d \in SaveBase .. LastFd, t[d] # Closed
      PROVE  d \in Targets \/ \E p \in Places : f[p] = d
  <2>1. CASE d = x
    <3>1. <<Len(commands), MaxRedirs>> \in Places BY <1>1 DEF Places
    <3>2. ~ InUse(<<Len(commands), MaxRedirs>>) BY <1>1 DEF Innermost
    <3>3. QED BY <2>1, <3>1, <3>2
  <2>2. CASE d # x
    <3>1. d \in Fds BY DEF Fds, RedirAssumption
    <3>2. fds[d] # Closed BY <1>4, <2>2, <3>1
    <3>3. d \in Targets \/ \E c \in 1 .. Len(commands) : d \in Copies(commands[c].saved)
      BY <3>2 DEF RedirInv, OpenOrCopied
    <3>4. ASSUME NEW c \in 1 .. Len(commands), d \in Copies(commands[c].saved) PROVE \E p \in Places : f[p] = d
      <4>1. PICK i \in 1 .. Len(commands[c].saved) : d = commands[c].saved[i].saved BY <3>4 DEF Copies
      <4>2. <<c, i>> \in Places /\ InUse(<<c, i>>) BY <1>1, <1>2 DEF Places
      <4>3. QED BY <4>1, <4>2
    <3>5. QED BY <3>3, <3>4
  <2>3. QED BY <2>1, <2>2
<1> HIDE DEF f
<1>5. QED BY <1>3, <1>4, RoomForCopy

-----------------------------------------------------------------------------
(* The steps.                                                              *)

\* A step that changes the innermost command, and descriptors with it.
LEMMA InnermostChanged ==
  ASSUME RedirInv, commands # <<>>, NEW g \in Frames, Replace(g), begun' = begun,
         fds' \in Tables, Len(g.saved) <= MaxRedirs, g.before = Innermost.before,
         g.kind = "exec" => Redirected(g.saved) \subseteq 0 .. SaveBase - 1,
         g.step = "discards" => g.kind = "exec",
         g.step # "discards" => Leads(fds', g), ExecKept(fds', g),
         \A d \in SaveBase .. LastFd : fds'[d] # Closed =>
            \/ d \in Targets \/ d \in Copies(g.saved)
            \/ fds[d] # Closed /\ d \notin Copies(Innermost.saved)
  PROVE  RedirInv'
<1> DEFINE n == Len(commands)
<1>1. RedirNesting BY DEF RedirInv
<1>2. n \in 1 .. n /\ commands \in Seq(Frames) BY <1>1, InnermostIsFrame DEF RedirNesting
<1>3. /\ commands' \in Seq(Frames) /\ Len(commands') = n
      /\ \A c \in 1 .. n : commands'[c] = IF c = n THEN g ELSE commands[c]
  BY <1>2, ExceptSeq DEF Replace
<1>4. commands'[n] = g /\ \A c \in 1 .. n - 1 : commands'[c] = commands[c] BY <1>2, <1>3
<1>5. (Innermost)' = g BY <1>3, <1>4 DEF Innermost
<1>6. RedirNesting'
  <2>1. \A c \in 1 .. n :
        /\ Len(commands'[c].saved) <= MaxRedirs
        /\ c < n => commands'[c].kind = "compound" /\ commands'[c].step = "runs"
        /\ commands'[c].kind = "exec" => Redirected(commands'[c].saved) \subseteq 0 .. SaveBase - 1
        /\ commands'[c].step = "discards" => commands'[c].kind = "exec"
    <3> SUFFICES ASSUME NEW c \in 1 .. n
                 PROVE  /\ Len(commands'[c].saved) <= MaxRedirs
                        /\ c < n => commands'[c].kind = "compound" /\ commands'[c].step = "runs"
                        /\ commands'[c].kind = "exec" => Redirected(commands'[c].saved) \subseteq 0 .. SaveBase - 1
                        /\ commands'[c].step = "discards" => commands'[c].kind = "exec"
      OBVIOUS
    <3>1. CASE c = n BY <3>1, <1>4, <1>2
    <3>2. CASE c # n
      <4>1. commands'[c] = commands[c] BY <3>2, <1>3
      <4>2. QED BY <4>1, <1>1 DEF RedirNesting
    <3>3. QED BY <3>1, <3>2
  <2>2. fds' \in Tables /\ begun' \in 0 .. MaxCommands /\ n <= MaxDepth BY <1>1 DEF RedirNesting
  <2>3. QED BY <2>1, <2>2, <1>3 DEF RedirNesting
<1>7. OpenOrCopied'
  <2> SUFFICES ASSUME NEW d \in SaveBase .. LastFd, fds'[d] # Closed, d \notin Targets
               PROVE  \E c \in 1 .. n : d \in Copies(commands'[c].saved)
    BY <1>3 DEF OpenOrCopied
  <2>1. CASE d \in Copies(g.saved) BY <2>1, <1>2, <1>4
  <2>2. CASE fds[d] # Closed /\ d \notin Copies(Innermost.saved)
    <3>1. PICK c \in 1 .. n : d \in Copies(commands[c].saved) BY <2>2 DEF RedirInv, OpenOrCopied
    <3>2. c # n BY <3>1, <2>2 DEF Innermost
    <3>3. QED BY <3>1, <3>2, <1>3
  <2>3. QED BY <2>1, <2>2
<1>8. \A c \in 1 .. n - 1 : Leads(commands'[c + 1].before, commands'[c])
  <2> SUFFICES ASSUME NEW c \in 1 .. n - 1 PROVE Leads(commands'[c + 1].before, commands'[c])
    OBVIOUS
  <2>1. Leads(commands[c + 1].before, commands[c]) BY DEF RedirInv
  <2>2. commands'[c + 1].before = commands[c + 1].before
    <3>1. CASE c + 1 = n BY <3>1, <1>4 DEF Innermost
    <3>2. CASE c + 1 # n
      <4>1. c + 1 \in 1 .. n BY <1>2
      <4>2. QED BY <3>2, <4>1, <1>3
    <3>3. QED BY <3>1, <3>2
  <2>3. QED BY <2>1, <2>2, <1>4
<1>9. (commands' # <<>> =>
         /\ (Innermost)'.step # "discards" => Leads(fds', (Innermost)')
         /\ ExecKept(fds', (Innermost)'))
  BY <1>5
<1>10. QED BY <1>3, <1>6, <1>7, <1>8, <1>9 DEF RedirInv

\* A redirection of io: e is the entry and s the copy when the descriptors are t,
\* where io may have been opened in place (then L has it).
Redirecting(io, s, e, t, L) ==
    /\ e = [fd |-> io, saved |-> IF t[io] = Closed THEN -1 ELSE s] /\ t[s] = Closed
    /\ \A d \in Fds \ {io} : t[d] = fds[d]
    /\ t[io] = fds[io] \/ (L = {io} /\ fds[io] = Closed)
    /\ \A d \in Fds \ {io, e.saved} : fds'[d] = fds[d]
    /\ e.saved # -1 => fds'[e.saved] = t[io]

LEMMA EntryPushed ==
  ASSUME RedirAssumption, RedirInv, NEW io \in Targets, Redirects(io),
         NEW s \in SaveBase .. LastFd, NEW e, NEW t \in Tables, NEW L \in SUBSET {io},
         fds' \in Tables, Redirecting(io, s, e, t, L),
         NEW step \in {"applies", "restores"},
         Replace([Innermost EXCEPT !.saved = <<e>> \o @, !.loose = @ \cup L, !.step = step]),
         begun' = begun
  PROVE  RedirInv'
<1> DEFINE f == Innermost
           b == [f EXCEPT !.loose = @ \cup L]
           g == [f EXCEPT !.saved = <<e>> \o @, !.loose = @ \cup L, !.step = step]
<1>1. RedirNesting /\ commands # <<>> /\ f.step = "applies" BY DEF RedirInv, Redirects, Doing
<1>2. /\ f \in Frames /\ f.saved \in Seq(SavedFds) /\ Len(f.saved) \in 0 .. MaxRedirs
      /\ f.kind = "exec" => Redirected(f.saved) \subseteq 0 .. SaveBase - 1
      /\ Len(f.saved) < MaxRedirs /\ (f.kind = "exec" => io < SaveBase) /\ MaxRedirs \in Nat
      /\ io \in Fds /\ SaveBase \in Nat
  BY <1>1, InnermostIsFrame DEF Redirects, RedirAssumption
<1>3. /\ e \in SavedFds /\ Undone(fds', e) = t /\ (e.saved # -1 => fds'[e.saved] # Closed)
      /\ e.fd = io /\ (e.saved # -1 => e.saved = s)
  <2>1. /\ \A d \in Fds \ {io, e.saved} : fds'[d] = t[d]
        /\ t[s] = Closed /\ e = [fd |-> io, saved |-> IF t[io] = Closed THEN -1 ELSE s]
        /\ e.saved # -1 => fds'[e.saved] = t[io]
    BY DEF Redirecting
  <2>2. QED BY <2>1, SavedIsUndone
<1>4. /\ <<e>> \o f.saved \in Seq(SavedFds) /\ Len(<<e>> \o f.saved) = Len(f.saved) + 1
      /\ Copies(<<e>> \o f.saved) = {e.saved} \cup Copies(f.saved)
      /\ Redirected(<<e>> \o f.saved) = {io} \cup Redirected(f.saved)
  BY <1>2, <1>3, OneMoreEntry
<1>5. /\ b \in Frames /\ b.saved = f.saved /\ b.before = f.before /\ b.execed = f.execed \cup {}
      /\ b.loose = f.loose \cup L
  BY <1>2 DEF Frames
<1>6. /\ g \in Frames /\ g.saved = <<e>> \o f.saved /\ g.before = f.before /\ g.execed = f.execed
      /\ g.loose = f.loose \cup L /\ g.kind = f.kind /\ g.step = step
  BY <1>2, <1>4 DEF Frames
<1> HIDE DEF f, b, g
<1>7. Leads(fds, f) /\ ExecKept(fds, f) /\ fds \in Tables BY <1>1 DEF RedirInv, RedirNesting, f
<1>8. Leads(t, b)
  <2>1. PICK X \in SUBSET (0 .. SaveBase - 1) : X = {} OBVIOUS
  <2>2. \A d \in Fds : t[d] = fds[d] \/ d \in X \/ (d \in L /\ fds[d] = Closed) BY DEF Redirecting
  <2>3. b.execed = f.execed \cup X /\ L \in SUBSET Fds BY <1>2, <1>5, <2>1
  <2>4. QED BY <1>2, <1>5, <1>7, <2>2, <2>3, Perturbed
<1>9. Leads(fds', g)
  <2>1. /\ g.saved = <<e>> \o b.saved /\ g.before = b.before
        /\ g.execed = b.execed /\ g.loose = b.loose
    BY <1>5, <1>6
  <2>2. QED BY <1>3, <1>5, <1>6, <1>8, <2>1, Pushed
<1>10. ExecKept(fds', g)
  <2> SUFFICES ASSUME g.kind = "exec", g.step # "restores", NEW d \in Fds \ Redirected(g.saved)
               PROVE  IF d \in Copies(g.saved) THEN g.before[d] = Closed ELSE fds'[d] = g.before[d]
    BY <1>6 DEF ExecKept
  <2>1. d # io /\ d \in Fds \ Redirected(f.saved) /\ f.kind = "exec" /\ f.step = "applies"
    BY <1>1, <1>4, <1>6 DEF f
  <2>2. IF d \in Copies(f.saved) THEN f.before[d] = Closed ELSE fds[d] = f.before[d]
    BY <2>1, <1>7 DEF ExecKept
  <2>3. CASE d = e.saved
    <3>1. d = s /\ fds[d] = Closed BY <2>1, <2>3, <1>3 DEF Fds, Redirecting
    <3>2. QED BY <3>1, <2>2, <2>3, <1>4, <1>6
  <2>4. CASE d # e.saved
    <3>1. fds'[d] = fds[d] BY <2>1, <2>4 DEF Redirecting
    <3>2. QED BY <3>1, <2>2, <2>4, <1>4, <1>6
  <2>5. QED BY <2>3, <2>4
<1>11. g.kind = "exec" => Redirected(g.saved) \subseteq 0 .. SaveBase - 1
  <2>1. f.kind = "exec" => io \in 0 .. SaveBase - 1 BY <1>2 DEF Fds
  <2>2. QED BY <2>1, <1>2, <1>4, <1>6
<1>12. ASSUME NEW d \in SaveBase .. LastFd, fds'[d] # Closed
       PROVE  d \in Targets \/ d \in Copies(g.saved) \/ (fds[d] # Closed /\ d \notin Copies(f.saved))
  <2>1. d \in Fds BY <1>2 DEF Fds
  <2>2. CASE d = io BY <2>2
  <2>3. CASE d = e.saved BY <2>3, <1>4, <1>6
  <2>4. CASE d # io /\ d # e.saved BY <2>1, <2>4, <1>4, <1>6, <1>12 DEF Redirecting
  <2>5. QED BY <2>2, <2>3, <2>4
<1>13. Len(g.saved) <= MaxRedirs /\ g.step # "discards" BY <1>2, <1>4, <1>6
<1>14. Replace(g) BY DEF g, f
<1>15. g.before = Innermost.before BY <1>6 DEF f
<1>16. QED BY <1>1, <1>6, <1>9, <1>10, <1>11, <1>12, <1>13, <1>14, <1>15, InnermostChanged DEF f

\* What saveFd does when there is room.
LEMMA SavedOutside ==
  ASSUME RedirAssumption, NEW t \in Tables, NEW io \in Targets, Free(t, SaveBase) # {}
  PROVE  \E s \in SaveBase .. LastFd :
            /\ t[s] = Closed /\ Save(t, io) = [fd |-> io, saved |-> IF t[io] = Closed THEN -1 ELSE s]
            /\ WithCopy(t, Save(t, io)) \in Tables
            /\ Save(t, io).saved # -1 => Save(t, io).saved = s /\ t[io] # Closed /\ io # s
            /\ Save(t, io).saved = -1 => t[io] = Closed
            /\ \A d \in Fds : WithCopy(t, Save(t, io))[d] = IF d = Save(t, io).saved THEN t[io] ELSE t[d]
<1> DEFINE s == Lowest(t, SaveBase)
<1>1. io \in Fds /\ SaveBase \in Nat BY DEF RedirAssumption
<1>2. s \in SaveBase .. LastFd /\ t[s] = Closed BY <1>1, LowestIsFree
<1>3. s \in Fds /\ s # -1 BY <1>1, <1>2 DEF Fds
<1>4. Save(t, io) = [fd |-> io, saved |-> IF t[io] = Closed THEN -1 ELSE s] BY DEF Save
<1> HIDE DEF s
<1>5. CASE t[io] = Closed
  <2>1. Save(t, io).saved = -1 /\ -1 \notin Fds BY <1>4, <1>5 DEF Fds
  <2>2. WithCopy(t, Save(t, io)) = t BY <2>1 DEF WithCopy
  <2>3. QED BY <1>2, <1>4, <1>5, <2>1, <2>2
<1>6. CASE t[io] # Closed
  <2>1. Save(t, io).saved = s /\ Save(t, io).fd = io BY <1>4, <1>6
  <2>2. WithCopy(t, Save(t, io)) = [t EXCEPT ![s] = t[io]] BY <1>3, <2>1 DEF WithCopy
  <2>3. t[io] \in Files \cup {Closed} BY <1>1 DEF Tables
  <2>4. QED BY <1>2, <1>3, <1>4, <1>6, <2>1, <2>2, <2>3 DEF Tables
<1>7. QED BY <1>5, <1>6

\* A file that has been opened at a free descriptor is moved to the one it is for.
LEMMA FileMoved ==
  ASSUME RedirAssumption, RoomAssumption, RedirInv, NEW io \in Targets, Redirects(io),
         NEW fd \in Fds, fds[fd] = Closed, MoveTo("file", fd, io)
  PROVE  RedirInv'
<1> DEFINE t == [fds EXCEPT ![fd] = "file"]
           e == Save(t, io)
           copied == WithCopy(t, e)
<1>1. fds \in Tables /\ io \in Fds /\ commands # <<>> /\ Innermost.step = "applies"
  BY DEF RedirInv, RedirNesting, RedirAssumption, Redirects, Doing
<1>2. t \in Tables /\ \A d \in Fds : t[d] = IF d = fd THEN "file" ELSE fds[d]
  BY <1>1 DEF Tables, Files
<1>3. Free(t, SaveBase) # {}
  <2>1. fd \in Int /\ \A d \in Fds \ {fd} : t[d] # Closed => fds[d] # Closed
    BY <1>2 DEF Fds, RedirAssumption
  <2> HIDE DEF t
  <2>2. QED BY <1>2, <2>1, RoomNow
<1>4. /\ fds' = IF fd = io THEN copied ELSE [copied EXCEPT ![io] = "file", ![fd] = Closed]
      /\ Replace([Innermost EXCEPT !.saved = <<e>> \o @, !.loose = @ \cup ({fd} \cap {io})])
      /\ begun' = begun
  BY DEF MoveTo, Saved
<1> HIDE DEF t
<1>5. PICK s \in SaveBase .. LastFd :
        /\ t[s] = Closed /\ e = [fd |-> io, saved |-> IF t[io] = Closed THEN -1 ELSE s]
        /\ copied \in Tables
        /\ e.saved # -1 => e.saved = s /\ t[io] # Closed /\ io # s
        /\ e.saved = -1 => t[io] = Closed
        /\ \A d \in Fds : copied[d] = IF d = e.saved THEN t[io] ELSE t[d]
  BY <1>2, <1>3, SavedOutside
<1> HIDE DEF e, copied
<1>6. s \in Fds /\ s # fd /\ s # -1
  BY <1>2, <1>5 DEF Fds, RedirAssumption, Closed
<1>7. Innermost \in Frames BY <1>1, InnermostIsFrame DEF RedirInv
<1>8. CASE fd = io
  <2>1. fds' = copied BY <1>4, <1>8
  <2>2. Redirecting(io, s, e, t, {io})
    <3>1. \A d \in Fds \ {io} : t[d] = fds[d] BY <1>2, <1>8
    <3>2. \A d \in Fds \ {io, e.saved} : fds'[d] = fds[d] BY <1>5, <2>1, <3>1
    <3>3. e.saved # -1 => fds'[e.saved] = t[io] BY <1>5, <1>6, <2>1
    <3>4. QED BY <1>5, <1>8, <3>1, <3>2, <3>3 DEF Redirecting
  <2>3. Replace([Innermost EXCEPT !.saved = <<e>> \o @, !.loose = @ \cup {io}, !.step = "applies"])
    <3>1. [Innermost EXCEPT !.saved = <<e>> \o @, !.loose = @ \cup ({fd} \cap {io})]
           = [Innermost EXCEPT !.saved = <<e>> \o @, !.loose = @ \cup {io}, !.step = "applies"]
      BY <1>1, <1>7, <1>8 DEF Frames
    <3>2. QED BY <1>4, <3>1
  <2>4. {io} \in SUBSET {io} /\ fds' \in Tables BY <1>5, <2>1
  <2>5. QED BY <1>2, <1>4, <2>2, <2>3, <2>4, EntryPushed
<1>9. CASE fd # io
  <2>1. t[io] = fds[io] BY <1>1, <1>2, <1>9
  <2>2. /\ fds' \in Tables
        /\ \A d \in Fds : fds'[d] = IF d = fd THEN Closed ELSE IF d = io THEN "file" ELSE copied[d]
    BY <1>1, <1>4, <1>5, <1>9 DEF Tables, Files
  <2>3. Redirecting(io, s, e, fds, {})
    <3>1. e = [fd |-> io, saved |-> IF fds[io] = Closed THEN -1 ELSE s] /\ fds[s] = Closed
      BY <1>2, <1>5, <1>6, <2>1
    <3>2. \A d \in Fds \ {io, e.saved} : fds'[d] = fds[d] BY <1>2, <1>5, <2>2
    <3>3. e.saved # -1 => fds'[e.saved] = fds[io] BY <1>5, <1>6, <2>1, <2>2
    <3>4. QED BY <3>1, <3>2, <3>3 DEF Redirecting
  <2>4. Replace([Innermost EXCEPT !.saved = <<e>> \o @, !.loose = @ \cup {}, !.step = "applies"])
    <3>1. [Innermost EXCEPT !.saved = <<e>> \o @, !.loose = @ \cup ({fd} \cap {io})]
           = [Innermost EXCEPT !.saved = <<e>> \o @, !.loose = @ \cup {}, !.step = "applies"]
      <4>1. {fd} \cap {io} = {} BY <1>9
      <4>2. QED BY <1>1, <1>7, <4>1 DEF Frames
    <3>2. QED BY <1>4, <3>1
  <2>5. {} \in SUBSET {io} OBVIOUS
  <2>6. QED BY <1>1, <1>4, <2>2, <2>3, <2>4, <2>5, EntryPushed
<1>10. QED BY <1>8, <1>9

LEMMA OpenFileStep ==
  ASSUME RedirAssumption, RoomAssumption, RedirInv, NEW io \in Targets, OpenFile(io)
  PROVE  RedirInv'
<1>1. fds \in Tables /\ 0 \in Nat BY DEF RedirInv, RedirNesting
<1>2. Lowest(fds, 0) \in Fds /\ fds[Lowest(fds, 0)] = Closed
  BY <1>1, LowestIsFree DEF OpenFile, Fds
<1>3. QED BY <1>2, FileMoved DEF OpenFile

LEMMA HereDocumentStep ==
  ASSUME RedirAssumption, RoomAssumption, RedirInv, NEW io \in Targets, HereDocument(io)
  PROVE  RedirInv'
<1> DEFINE stream == Lowest(fds, 0)
           with == [fds EXCEPT ![stream] = "file"]
           fd == Lowest(with, 0)
<1>1. fds \in Tables /\ 0 \in Nat BY DEF RedirInv, RedirNesting
<1>2. stream \in Fds /\ fds[stream] = Closed
  BY <1>1, LowestIsFree DEF HereDocument, Fds
<1> HIDE DEF stream
<1>3. with \in Tables /\ \A d \in Fds : with[d] = IF d = stream THEN "file" ELSE fds[d]
  BY <1>1, <1>2 DEF Tables, Files
<1>4. fd # -1 /\ MoveTo("file", fd, io) /\ Redirects(io) BY DEF HereDocument, stream
<1> HIDE DEF with
<1>5. fd \in Fds /\ with[fd] = Closed BY <1>1, <1>3, <1>4, LowestIsFree DEF Fds
<1>6. fds[fd] = Closed BY <1>3, <1>5 DEF Closed
<1>7. QED BY <1>4, <1>5, <1>6, FileMoved

\* A descriptor is saved and changed, without a new file.
LEMMA SavedAndChanged ==
  ASSUME RedirAssumption, RoomAssumption, RedirInv, NEW io \in Targets, Redirects(io),
         NEW v \in Files \cup {Closed}, NEW step \in {"applies", "restores"},
         fds' = [WithCopy(fds, Save(fds, io)) EXCEPT ![io] = v],
         Replace([Saved(Innermost, Save(fds, io)) EXCEPT !.step = step]), begun' = begun
  PROVE  RedirInv'
<1> DEFINE e == Save(fds, io)
           copied == WithCopy(fds, e)
<1>1. fds \in Tables /\ io \in Fds /\ commands # <<>> /\ Innermost.step = "applies"
  BY DEF RedirInv, RedirNesting, RedirAssumption, Redirects, Doing
<1>2. Free(fds, SaveBase) # {}
  <2>1. 0 \in Int /\ \A d \in Fds \ {0} : fds[d] # Closed => fds[d] # Closed OBVIOUS
  <2>2. QED BY <1>1, <2>1, RoomNow
<1>3. PICK s \in SaveBase .. LastFd :
        /\ fds[s] = Closed /\ e = [fd |-> io, saved |-> IF fds[io] = Closed THEN -1 ELSE s]
        /\ copied \in Tables
        /\ e.saved # -1 => e.saved = s /\ fds[io] # Closed /\ io # s
        /\ e.saved = -1 => fds[io] = Closed
        /\ \A d \in Fds : copied[d] = IF d = e.saved THEN fds[io] ELSE fds[d]
  BY <1>1, <1>2, SavedOutside
<1>4. fds' = [copied EXCEPT ![io] = v] OBVIOUS
<1>5. Replace([Innermost EXCEPT !.saved = <<e>> \o @, !.loose = @ \cup {}, !.step = step])
  <2>1. Innermost \in Frames BY <1>1, InnermostIsFrame DEF RedirInv
  <2>2. [Saved(Innermost, e) EXCEPT !.step = step]
         = [Innermost EXCEPT !.saved = <<e>> \o @, !.loose = @ \cup {}, !.step = step]
    BY <2>1 DEF Saved, Frames
  <2>3. QED BY <2>2
<1> HIDE DEF e, copied
<1>6. fds' \in Tables /\ \A d \in Fds : fds'[d] = IF d = io THEN v ELSE copied[d]
  BY <1>1, <1>3, <1>4 DEF Tables
<1>7. s \in Fds /\ s # -1 BY DEF Fds, RedirAssumption
<1>8. Redirecting(io, s, e, fds, {}) BY <1>3, <1>6, <1>7 DEF Redirecting
<1>9. {} \in SUBSET {io} OBVIOUS
<1>10. QED BY <1>1, <1>5, <1>6, <1>8, <1>9, EntryPushed

LEMMA CloseFdStep ==
  ASSUME RedirAssumption, RoomAssumption, RedirInv, NEW io \in Targets, CloseFd(io)
  PROVE  RedirInv'
<1> DEFINE e == Save(fds, io)
<1>1. Redirects(io) /\ Replace(Saved(Innermost, e)) /\ begun' = begun
      /\ fds' = [WithCopy(fds, e) EXCEPT ![io] = Closed]
  BY DEF CloseFd
<1>2. Saved(Innermost, e) = [Saved(Innermost, e) EXCEPT !.step = "applies"]
  <2>1. Innermost \in Frames /\ Innermost.step = "applies"
    BY <1>1, InnermostIsFrame DEF RedirInv, Redirects, Doing
  <2>2. QED BY <2>1 DEF Saved, Frames
<1>3. Replace([Saved(Innermost, e) EXCEPT !.step = "applies"]) BY <1>1, <1>2
<1>4. QED BY <1>1, <1>3, SavedAndChanged

\* The table with a copy is a table.
LEMMA CopyIsTable ==
  ASSUME RedirAssumption, RedirInv, NEW io \in Targets
  PROVE  WithCopy(fds, Save(fds, io)) \in Tables
<1>1. fds \in Tables /\ io \in Fds /\ SaveBase \in Nat
  BY DEF RedirInv, RedirNesting, RedirAssumption
<1>2. fds[io] \in Files \cup {Closed} BY <1>1 DEF Tables
<1>3. QED BY <1>1, <1>2 DEF WithCopy, Save, Tables

LEMMA DupFdStep ==
  ASSUME RedirAssumption, RoomAssumption, RedirInv, NEW io \in Targets, NEW src \in Sources, DupFd(io, src)
  PROVE  RedirInv'
<1> DEFINE e == Save(fds, io)
           v == WithCopy(fds, e)[src]
<1>1. Redirects(io) /\ Replace(Saved(Innermost, e)) /\ begun' = begun
      /\ fds' = [WithCopy(fds, e) EXCEPT ![io] = v]
  BY DEF DupFd
<1>2. Saved(Innermost, e) = [Saved(Innermost, e) EXCEPT !.step = "applies"]
  <2>1. Innermost \in Frames /\ Innermost.step = "applies"
    BY <1>1, InnermostIsFrame DEF RedirInv, Redirects, Doing
  <2>2. QED BY <2>1 DEF Saved, Frames
<1>3. v \in Files \cup {Closed} BY CopyIsTable DEF Tables, RedirAssumption
<1>4. Replace([Saved(Innermost, e) EXCEPT !.step = "applies"]) BY <1>1, <1>2
<1> HIDE DEF v
<1>5. QED BY <1>1, <1>3, <1>4, SavedAndChanged

LEMMA DupFailsStep ==
  ASSUME RedirAssumption, RoomAssumption, RedirInv, NEW io \in Targets, NEW src \in Sources, DupFails(io, src)
  PROVE  RedirInv'
<1> DEFINE e == Save(fds, io)
           v == WithCopy(fds, e)[io]
<1>1. Redirects(io) /\ Replace([Saved(Innermost, e) EXCEPT !.step = "restores"]) /\ begun' = begun
      /\ fds' = WithCopy(fds, e)
  BY DEF DupFails
<1>2. v \in Files \cup {Closed} /\ WithCopy(fds, e) = [WithCopy(fds, e) EXCEPT ![io] = v]
  BY CopyIsTable DEF Tables, RedirAssumption
<1> HIDE DEF v
<1>3. fds' = [WithCopy(fds, e) EXCEPT ![io] = v] BY <1>1, <1>2
<1>4. QED BY <1>1, <1>2, <1>3, SavedAndChanged

\* A step that only moves the innermost command to its next step.
LEMMA StepChanged ==
  ASSUME RedirInv, commands # <<>>, Innermost.step \in {"applies", "runs"},
         NEW step \in {"runs", "restores"},
         Replace([Innermost EXCEPT !.step = step]), UNCHANGED <<fds, begun>>
  PROVE  RedirInv'
<1> DEFINE f == Innermost
           g == [f EXCEPT !.step = step]
<1>1. /\ f \in Frames /\ Len(f.saved) \in 0 .. MaxRedirs
      /\ f.kind = "exec" => Redirected(f.saved) \subseteq 0 .. SaveBase - 1
  BY InnermostIsFrame DEF RedirInv
<1>2. /\ g \in Frames /\ g.saved = f.saved /\ g.before = f.before /\ g.kind = f.kind
      /\ g.step = step /\ g.execed = f.execed /\ g.loose = f.loose
  BY <1>1 DEF Frames
<1>3. Leads(fds, f) /\ ExecKept(fds, f) /\ fds \in Tables BY DEF RedirInv, RedirNesting
<1>4. Replace(g) /\ fds' = fds /\ begun' = begun OBVIOUS
<1> HIDE DEF f, g
<1>5. Leads(fds', g) BY <1>2, <1>3, <1>4 DEF Leads, Restored
<1>6. ExecKept(fds', g) BY <1>2, <1>3, <1>4 DEF ExecKept, f
<1>7. \A d \in SaveBase .. LastFd : fds'[d] # Closed =>
            d \in Targets \/ d \in Copies(g.saved) \/ (fds[d] # Closed /\ d \notin Copies(f.saved))
  BY <1>2, <1>4
<1>8. Len(g.saved) <= MaxRedirs BY <1>1, <1>2
<1>9. QED BY <1>1, <1>2, <1>3, <1>4, <1>5, <1>6, <1>7, <1>8, InnermostChanged DEF f

LEMMA OpenFailsStep == ASSUME RedirInv, OpenFails PROVE RedirInv'
BY StepChanged DEF OpenFails, Redirects, Doing

LEMMA RunStep == ASSUME RedirInv, Run PROVE RedirInv'
BY StepChanged DEF Run, Doing

LEMMA FinishStep == ASSUME RedirInv, Finish PROVE RedirInv'
<1> DEFINE f == Innermost
           g == [f EXCEPT !.step = "discards", !.execed = {e.fd : e \in Entries}]
<1>1. commands # <<>> /\ f.step = "runs" /\ fds' = fds /\ begun' = begun BY DEF Finish, Doing
<1>2. CASE f.kind # "exec"
  <2>1. Replace([f EXCEPT !.step = "restores"]) BY <1>2 DEF Finish
  <2>2. QED BY <1>1, <2>1, StepChanged
<1>3. CASE f.kind = "exec"
  <2>1. Replace(g) BY <1>3 DEF Finish
  <2>2. /\ f \in Frames /\ Len(f.saved) \in 0 .. MaxRedirs
        /\ Redirected(f.saved) \subseteq 0 .. SaveBase - 1
    BY <1>1, <1>3, InnermostIsFrame DEF RedirInv
  <2>3. {e.fd : e \in Entries} = Redirected(f.saved) BY DEF Entries, Redirected
  <2>4. /\ g \in Frames /\ g.saved = f.saved /\ g.before = f.before /\ g.kind = "exec"
        /\ g.step = "discards" /\ g.execed = Redirected(f.saved)
    BY <2>2, <2>3, <1>3 DEF Frames
  <2>5. ExecKept(fds, f) /\ fds \in Tables BY <1>1 DEF RedirInv, RedirNesting
  <2> HIDE DEF f, g
  <2>6. ExecKept(fds', g) BY <2>4, <2>5, <1>1, <1>3 DEF ExecKept
  <2>7. \A d \in SaveBase .. LastFd : fds'[d] # Closed =>
            d \in Targets \/ d \in Copies(g.saved) \/ (fds[d] # Closed /\ d \notin Copies(f.saved))
    BY <2>4, <1>1
  <2>8. Len(g.saved) <= MaxRedirs /\ Redirected(g.saved) \subseteq 0 .. SaveBase - 1 BY <2>2, <2>4
  <2>9. QED BY <1>1, <2>1, <2>4, <2>5, <2>6, <2>7, <2>8, InnermostChanged DEF f
<1>4. QED BY <1>2, <1>3

LEMMA RestoreFdStep == ASSUME RedirAssumption, RedirInv, RestoreFd PROVE RedirInv'
<1> DEFINE f == Innermost
           e == Head(f.saved)
           g == [f EXCEPT !.saved = Tail(@)]
<1>1. /\ commands # <<>> /\ f.step = "restores" /\ f.saved # <<>> /\ begun' = begun
      /\ fds' = Undone(fds, e) /\ Replace(g)
  BY DEF RestoreFd, Doing, Drop, Undone
<1>2. /\ f \in Frames /\ f.saved \in Seq(SavedFds) /\ Len(f.saved) \in 0 .. MaxRedirs /\ MaxRedirs \in Nat
      /\ f.kind = "exec" => Redirected(f.saved) \subseteq 0 .. SaveBase - 1
  BY <1>1, InnermostIsFrame DEF RedirInv, RedirAssumption
<1>3. /\ e \in SavedFds /\ Tail(f.saved) \in Seq(SavedFds) /\ Len(Tail(f.saved)) = Len(f.saved) - 1
      /\ Copies(f.saved) = {e.saved} \cup Copies(Tail(f.saved))
      /\ Redirected(f.saved) = {e.fd} \cup Redirected(Tail(f.saved))
  BY <1>1, <1>2, OneEntryLess
<1>4. /\ g \in Frames /\ g.saved = Tail(f.saved) /\ g.before = f.before /\ g.kind = f.kind
      /\ g.step = "restores" /\ g.execed = f.execed /\ g.loose = f.loose
  BY <1>1, <1>2, <1>3 DEF Frames
<1>5. fds \in Tables /\ Leads(fds, f) BY <1>1 DEF RedirInv, RedirNesting
<1> HIDE DEF f, e, g
<1>6. Undone(fds, Head(f.saved)) \in Tables /\ Leads(Undone(fds, Head(f.saved)), g)
  BY <1>1, <1>2, <1>4, <1>5, Popped
<1>7. fds' \in Tables /\ Leads(fds', g) BY <1>1, <1>6 DEF e
<1>8. ExecKept(fds', g) BY <1>4 DEF ExecKept
<1>9. ASSUME NEW d \in SaveBase .. LastFd, fds'[d] # Closed
      PROVE  d \in Targets \/ d \in Copies(g.saved) \/ (fds[d] # Closed /\ d \notin Copies(f.saved))
  <2>1. d \in Fds BY DEF Fds, RedirAssumption
  <2>2. fds'[d] = IF d = e.saved THEN Closed ELSE IF d # e.fd THEN fds[d]
              ELSE IF e.saved = -1 THEN Closed
              ELSE IF fds[e.saved] = Closed THEN fds[d] ELSE fds[e.saved]
    BY <1>1, <1>3, <1>5, <2>1, UndoneTable
  <2>3. CASE d = e.fd BY <2>3, <1>3 DEF SavedFds
  <2>4. CASE d # e.fd BY <2>2, <2>4, <1>3, <1>4, <1>9
  <2>5. QED BY <2>3, <2>4
<1>10. /\ Len(g.saved) <= MaxRedirs
       /\ g.kind = "exec" => Redirected(g.saved) \subseteq 0 .. SaveBase - 1
  BY <1>2, <1>3, <1>4
<1>11. QED BY <1>1, <1>4, <1>7, <1>8, <1>9, <1>10, InnermostChanged DEF f

LEMMA DiscardFdStep == ASSUME RedirAssumption, RedirInv, DiscardFd PROVE RedirInv'
<1> DEFINE f == Innermost
           e == Head(f.saved)
           g == [f EXCEPT !.saved = Tail(@)]
<1>1. /\ commands # <<>> /\ f.step = "discards" /\ f.saved # <<>> /\ begun' = begun
      /\ fds' = (IF e.saved = -1 THEN fds ELSE [fds EXCEPT ![e.saved] = Closed]) /\ Replace(g)
  BY DEF DiscardFd, Doing, Drop
<1>2. /\ f \in Frames /\ f.saved \in Seq(SavedFds) /\ Len(f.saved) \in 0 .. MaxRedirs /\ MaxRedirs \in Nat
      /\ f.kind = "exec" /\ Redirected(f.saved) \subseteq 0 .. SaveBase - 1
  BY <1>1, InnermostIsFrame DEF RedirInv, RedirAssumption
<1>3. /\ e \in SavedFds /\ Tail(f.saved) \in Seq(SavedFds) /\ Len(Tail(f.saved)) = Len(f.saved) - 1
      /\ Copies(f.saved) = {e.saved} \cup Copies(Tail(f.saved))
      /\ Redirected(f.saved) = {e.fd} \cup Redirected(Tail(f.saved))
  BY <1>1, <1>2, OneEntryLess
<1>4. /\ g \in Frames /\ g.saved = Tail(f.saved) /\ g.before = f.before /\ g.kind = f.kind
      /\ g.step = "discards" /\ g.execed = f.execed
  BY <1>1, <1>2, <1>3 DEF Frames
<1>5. fds \in Tables /\ ExecKept(fds, f) BY <1>1 DEF RedirInv, RedirNesting
<1> HIDE DEF f, e, g
<1>6. fds' \in Tables /\ \A d \in Fds : fds'[d] = IF d = e.saved THEN Closed ELSE fds[d]
  <2>1. -1 \notin Fds BY DEF Fds
  <2>2. QED BY <1>1, <1>3, <1>5, <2>1 DEF Tables
<1>7. ExecKept(fds', g)
  <2> SUFFICES ASSUME NEW d \in Fds \ g.execed
               PROVE  IF d \in Copies(g.saved) THEN g.before[d] = Closed ELSE fds'[d] = g.before[d]
    BY <1>4 DEF ExecKept
  <2>1. IF d \in Copies(f.saved) THEN f.before[d] = Closed ELSE fds[d] = f.before[d]
    BY <1>1, <1>2, <1>4, <1>5 DEF ExecKept
  <2>2. QED BY <2>1, <1>3, <1>4, <1>6
<1>8. \A d \in SaveBase .. LastFd : fds'[d] # Closed =>
          d \in Targets \/ d \in Copies(g.saved) \/ (fds[d] # Closed /\ d \notin Copies(f.saved))
  <2>1. \A d \in SaveBase .. LastFd : d \in Fds BY DEF Fds, RedirAssumption
  <2>2. QED BY <2>1, <1>3, <1>4, <1>6
<1>9. Len(g.saved) <= MaxRedirs /\ Redirected(g.saved) \subseteq 0 .. SaveBase - 1
  BY <1>2, <1>3, <1>4
<1>10. QED BY <1>1, <1>2, <1>4, <1>6, <1>7, <1>8, <1>9, InnermostChanged DEF f

\* A command that is over has restored its descriptors.
LEMMA OverIsRestored ==
  ASSUME RedirInv, Over
  PROVE  Restored(fds, Innermost) /\ Innermost \in Frames /\ commands # <<>> /\ Innermost.saved = <<>>
<1> DEFINE f == Innermost
<1>1. /\ commands # <<>> /\ f.step \in {"restores", "discards"} /\ f.saved = <<>>
  BY DEF Over
<1>2. f \in Frames /\ (f.step = "discards" => f.kind = "exec") /\ fds \in Tables
  BY <1>1, InnermostIsFrame DEF RedirInv, RedirNesting
<1>3. CASE f.step = "restores"
  <2>1. Leads(fds, f) BY <1>1, <1>3 DEF RedirInv
  <2>2. QED BY <1>1, <1>2, <2>1, NoEntryLeads
<1>4. CASE f.step = "discards"
  <2>1. ExecKept(fds, f) BY <1>1 DEF RedirInv
  <2>2. Copies(f.saved) = {} BY <1>1 DEF Copies
  <2>3. QED BY <1>1, <1>2, <1>4, <2>1, <2>2 DEF ExecKept, Restored
<1>5. QED BY <1>1, <1>2, <1>3, <1>4

LEMMA EndStep == ASSUME RedirAssumption, RedirInv, End PROVE RedirInv'
<1>0. PICK n \in Nat \ {0} : n = Len(commands)
  BY EmptySeq DEF RedirInv, RedirNesting, End, Over
<1> DEFINE f == Innermost
           rest == SubSeq(commands, 1, n - 1)
<1>1. /\ Restored(fds, f) /\ f \in Frames /\ commands # <<>> /\ f.saved = <<>>
      /\ fds' = fds /\ begun' = begun
  BY OverIsRestored DEF End
<1>2. /\ commands \in Seq(Frames) /\ n \in 1 .. n /\ n <= MaxDepth /\ fds \in Tables
      /\ begun \in 0 .. MaxCommands /\ MaxDepth \in Nat
  BY <1>0 DEF RedirInv, RedirNesting, RedirAssumption
<1>3. rest \in Seq(Frames) /\ Len(rest) = n - 1 /\ \A c \in 1 .. n - 1 : rest[c] = commands[c]
  <2>1. \A c \in 1 .. n - 1 : commands[c] \in Frames BY <1>0, <1>2, ElementOfSeq
  <2>2. /\ rest \in Seq(Frames) /\ Len(rest) = (IF 1 <= n - 1 THEN n - 1 - 1 + 1 ELSE 0)
        /\ \A c \in 1 .. n - 1 - 1 + 1 : rest[c] = commands[1 + c - 1]
    BY <1>2, <2>1, SubSeqProperties
  <2>3. \A c \in 1 .. n - 1 : 1 + c - 1 = c /\ c \in 1 .. n - 1 - 1 + 1 BY <1>2
  <2>4. (IF 1 <= n - 1 THEN n - 1 - 1 + 1 ELSE 0) = n - 1 BY <1>2
  <2> HIDE DEF rest
  <2>5. QED BY <2>2, <2>3, <2>4
<1>4. Copies(f.saved) = {} BY <1>1 DEF Copies
<1>5. CASE n = 1
  <2>1. rest = <<>> BY <1>3, <1>5, EmptySeq
  <2>2. commands' = <<>> BY <1>0, <2>1 DEF End
  <2>3. Len(commands') = 0 /\ commands' \in Seq(Frames) BY <2>2
  <2>4. OpenOrCopied'
    <3> SUFFICES ASSUME NEW d \in SaveBase .. LastFd, fds[d] # Closed PROVE d \in Targets
      BY <1>1 DEF OpenOrCopied
    <3>1. d \in Targets \/ \E c \in 1 .. n : d \in Copies(commands[c].saved)
      BY <1>0 DEF RedirInv, OpenOrCopied
    <3>2. \A c \in 1 .. n : commands[c] = f BY <1>0, <1>5 DEF Innermost
    <3>3. QED BY <3>1, <3>2, <1>4
  <2>5. RedirNesting' BY <1>1, <1>2, <2>3 DEF RedirNesting
  <2>6. QED BY <2>2, <2>3, <2>4, <2>5 DEF RedirInv
<1>6. CASE n # 1
  <2> DEFINE m == n - 1
             p == commands[m]
             g == Around(p, f)
  <2>1. m \in 1 .. m /\ m \in 1 .. n /\ Len(rest) = m /\ rest # <<>> /\ m + 1 = n /\ n - 1 = m
    <3>1. n > 1 BY <1>2, <1>6
    <3>2. Len(rest) = m /\ m # 0 BY <1>3, <3>1
    <3> HIDE DEF rest
    <3>3. rest # <<>> BY <3>2
    <3>4. QED BY <1>2, <3>1, <3>2, <3>3
  <2>2. commands' = [rest EXCEPT ![m] = g]
    <3>1. commands' = [rest EXCEPT ![Len(rest)] = Around(@, f)] BY <1>0, <2>1 DEF End
    <3>2. rest[Len(rest)] = p /\ Len(rest) = m BY <1>3, <2>1
    <3> HIDE DEF rest, f
    <3>3. QED BY <3>1, <3>2
  <2>3. p \in Frames BY <1>0, <1>2, <2>1, ElementOfSeq
  <2>4. /\ g \in Frames /\ g.saved = p.saved /\ g.before = p.before /\ g.kind = p.kind /\ g.step = p.step
        /\ g.execed = p.execed \cup f.execed /\ g.loose = p.loose \cup f.loose
    BY <1>1, <2>3 DEF Frames, Around
  <2>5. p.kind = "compound" /\ p.step = "runs" /\ Len(p.saved) <= MaxRedirs
    <3>1. m < n BY <1>2
    <3>2. QED BY <1>0, <2>1, <3>1 DEF RedirInv, RedirNesting
  <2> HIDE DEF g, rest, p
  <2>6. /\ commands' \in Seq(Frames) /\ Len(commands') = m
        /\ \A c \in 1 .. m : commands'[c] = IF c = m THEN g ELSE rest[c]
    BY <1>3, <2>1, <2>2, <2>4, ExceptSeq
  <2>7. commands'[m] = g /\ \A c \in 1 .. m - 1 : commands'[c] = commands[c]
    BY <2>1, <2>6, <1>3
  <2>8. \A c \in 1 .. m : commands'[c].saved = commands[c].saved /\ commands'[c].before = commands[c].before
    <3> SUFFICES ASSUME NEW c \in 1 .. m
                 PROVE  commands'[c].saved = commands[c].saved /\ commands'[c].before = commands[c].before
      OBVIOUS
    <3>1. CASE c = m BY <3>1, <2>4, <2>7 DEF p
    <3>2. CASE c # m BY <3>2, <2>1, <2>7
    <3>3. QED BY <3>1, <3>2
  <2>9. RedirNesting'
    <3>1. \A c \in 1 .. m :
        /\ Len(commands'[c].saved) <= MaxRedirs
        /\ commands'[c].kind = "compound" /\ commands'[c].step = "runs"
      <4> SUFFICES ASSUME NEW c \in 1 .. m
                   PROVE  /\ Len(commands'[c].saved) <= MaxRedirs
                          /\ commands'[c].kind = "compound" /\ commands'[c].step = "runs"
        OBVIOUS
      <4>1. CASE c = m BY <4>1, <2>4, <2>5, <2>7
      <4>2. CASE c # m
        <5>1. c \in 1 .. n /\ c < n /\ commands'[c] = commands[c] BY <4>2, <1>2, <2>1, <2>7
        <5>2. QED BY <1>0, <5>1 DEF RedirInv, RedirNesting
      <4>3. QED BY <4>1, <4>2
    <3>2. m <= MaxDepth BY <1>2
    <3>3. QED BY <1>1, <1>2, <2>6, <3>1, <3>2 DEF RedirNesting
  <2>10. OpenOrCopied'
    <3> SUFFICES ASSUME NEW d \in SaveBase .. LastFd, fds[d] # Closed, d \notin Targets
                 PROVE  \E c \in 1 .. m : d \in Copies(commands'[c].saved)
      BY <1>1, <2>6 DEF OpenOrCopied
    <3>1. PICK c \in 1 .. n : d \in Copies(commands[c].saved) BY <1>0 DEF RedirInv, OpenOrCopied
    <3>2. c # n BY <3>1, <1>0, <1>4 DEF Innermost
    <3>3. c \in 1 .. m BY <3>2, <1>2
    <3>4. QED BY <3>1, <3>3, <2>8
  <2>11. Leads(fds, g)
    <3>1. Leads(commands[m + 1].before, commands[m]) BY <1>0, <2>1 DEF RedirInv
    <3>2. Leads(f.before, p) BY <1>0, <2>1, <3>1 DEF Innermost, p
    <3>3. \A d \in Fds : fds[d] = f.before[d] \/ d \in f.execed \/ (d \in f.loose /\ f.before[d] = Closed)
      BY <1>1 DEF Restored
    <3>4. f.before \in Tables /\ f.execed \in SUBSET (0 .. SaveBase - 1) /\ f.loose \in SUBSET Fds
      BY <1>1 DEF Frames
    <3> HIDE DEF f
    <3>5. QED BY <1>2, <2>3, <2>4, <3>2, <3>3, <3>4, Perturbed
  <2>12. \A c \in 1 .. m - 1 : Leads(commands'[c + 1].before, commands'[c])
    <3> SUFFICES ASSUME NEW c \in 1 .. m - 1 PROVE Leads(commands'[c + 1].before, commands'[c])
      OBVIOUS
    <3>1. c \in 1 .. n - 1 /\ c + 1 \in 1 .. m BY <2>1
    <3>2. Leads(commands[c + 1].before, commands[c]) BY <1>0, <3>1 DEF RedirInv
    <3>3. QED BY <3>1, <3>2, <2>7, <2>8
  <2>13. (Innermost)' = g BY <2>6, <2>7 DEF Innermost
  <2>14. ExecKept(fds', g) BY <2>4, <2>5 DEF ExecKept
  <2>15. (commands' # <<>> => /\ (Innermost)'.step # "discards" => Leads(fds', (Innermost)')
                              /\ ExecKept(fds', (Innermost)'))
    BY <1>1, <2>11, <2>13, <2>14
  <2>16. QED BY <2>6, <2>9, <2>10, <2>12, <2>15 DEF RedirInv
<1>7. QED BY <1>5, <1>6

LEMMA StartStep ==
  ASSUME RedirAssumption, RedirInv, NEW kind \in CommandKinds, Start(kind)
  PROVE  RedirInv'
<1> DEFINE n == Len(commands)
           g == [kind |-> kind, step |-> "applies", saved |-> <<>>, before |-> fds,
                 execed |-> {}, loose |-> {}]
<1>1. /\ commands # <<>> => Innermost.step = "runs" /\ Innermost.kind = "compound"
      /\ n < MaxDepth /\ begun < MaxCommands /\ begun' = begun + 1 /\ fds' = fds
      /\ commands' = Append(commands, g)
  BY DEF Start, Doing
<1>2. /\ commands \in Seq(Frames) /\ n \in Nat /\ fds \in Tables /\ begun \in 0 .. MaxCommands
      /\ MaxDepth \in Nat /\ MaxCommands \in Nat
  BY LenProperties DEF RedirInv, RedirNesting, RedirAssumption
<1>3. /\ g \in Frames /\ g.saved = <<>> /\ g.before = fds /\ g.step = "applies" /\ Len(g.saved) = 0
      /\ Copies(g.saved) = {} /\ Redirected(g.saved) = {}
  BY <1>2 DEF Frames, Copies, Redirected
<1> HIDE DEF g
<1>4. /\ commands' \in Seq(Frames) /\ Len(commands') = n + 1 /\ commands'[n + 1] = g
      /\ \A c \in 1 .. n : commands'[c] = commands[c]
  BY <1>1, <1>2, <1>3, AppendProperties
<1>5. (Innermost)' = g BY <1>4 DEF Innermost
<1>6. n # 0 => n \in 1 .. n /\ commands # <<>> /\ Innermost = commands[n] BY <1>2 DEF Innermost
<1>7. RedirNesting'
  <2>1. \A c \in 1 .. n + 1 :
        /\ Len(commands'[c].saved) <= MaxRedirs
        /\ c < n + 1 => commands'[c].kind = "compound" /\ commands'[c].step = "runs"
        /\ commands'[c].kind = "exec" => Redirected(commands'[c].saved) \subseteq 0 .. SaveBase - 1
        /\ commands'[c].step = "discards" => commands'[c].kind = "exec"
    <3> SUFFICES ASSUME NEW c \in 1 .. n + 1
                 PROVE  /\ Len(commands'[c].saved) <= MaxRedirs
                        /\ c < n + 1 => commands'[c].kind = "compound" /\ commands'[c].step = "runs"
                        /\ commands'[c].kind = "exec" => Redirected(commands'[c].saved) \subseteq 0 .. SaveBase - 1
                        /\ commands'[c].step = "discards" => commands'[c].kind = "exec"
      OBVIOUS
    <3>1. CASE c = n + 1 BY <3>1, <1>2, <1>3, <1>4 DEF RedirAssumption
    <3>2. CASE c # n + 1
      <4>1. c \in 1 .. n /\ commands'[c] = commands[c] BY <3>2, <1>2, <1>4
      <4>2. commands[c].kind = "compound" /\ commands[c].step = "runs"
        <5>1. CASE c = n BY <4>1, <5>1, <1>1, <1>6
        <5>2. CASE c # n
          <6>1. c < n BY <4>1, <5>2, <1>2
          <6>2. QED BY <4>1, <6>1 DEF RedirInv, RedirNesting
        <5>3. QED BY <5>1, <5>2
      <4>3. QED BY <4>1, <4>2 DEF RedirInv, RedirNesting
    <3>3. QED BY <3>1, <3>2
  <2>2. begun' \in 0 .. MaxCommands /\ n + 1 <= MaxDepth BY <1>1, <1>2
  <2>3. QED BY <1>1, <1>2, <1>4, <2>1, <2>2 DEF RedirNesting
<1>8. OpenOrCopied'
  <2> SUFFICES ASSUME NEW d \in SaveBase .. LastFd, fds[d] # Closed, d \notin Targets
               PROVE  \E c \in 1 .. n + 1 : d \in Copies(commands'[c].saved)
    BY <1>1, <1>4 DEF OpenOrCopied
  <2>1. PICK c \in 1 .. n : d \in Copies(commands[c].saved) BY DEF RedirInv, OpenOrCopied
  <2>2. c \in 1 .. n + 1 /\ commands'[c] = commands[c] BY <1>2, <1>4
  <2>3. QED BY <2>1, <2>2
<1>9. \A c \in 1 .. n : Leads(commands'[c + 1].before, commands'[c])
  <2> SUFFICES ASSUME NEW c \in 1 .. n PROVE Leads(commands'[c + 1].before, commands'[c])
    OBVIOUS
  <2>1. CASE c = n
    <3>1. Leads(fds, commands[n]) BY <2>1, <1>1, <1>2, <1>6 DEF RedirInv
    <3>2. QED BY <2>1, <3>1, <1>3, <1>4
  <2>2. CASE c # n
    <3>1. c \in 1 .. n - 1 /\ c + 1 \in 1 .. n BY <2>2, <1>2
    <3>2. Leads(commands[c + 1].before, commands[c]) BY <3>1 DEF RedirInv
    <3>3. QED BY <3>1, <3>2, <1>4
  <2>3. QED BY <2>1, <2>2
<1>10. Leads(fds, g) /\ ExecKept(fds, g)
  <2>1. Restored(fds, g) BY <1>3 DEF Restored
  <2>2. Leads(fds, g) BY <1>2, <1>3, <2>1, NoEntryLeads
  <2>3. ExecKept(fds, g) BY <1>3 DEF ExecKept
  <2>4. QED BY <2>2, <2>3
<1>11. \A c \in 1 .. (n + 1) - 1 : Leads(commands'[c + 1].before, commands'[c]) BY <1>2, <1>9
<1>12. (commands' # <<>> => /\ (Innermost)'.step # "discards" => Leads(fds', (Innermost)')
                            /\ ExecKept(fds', (Innermost)'))
  BY <1>1, <1>5, <1>10
<1>13. QED BY <1>4, <1>7, <1>8, <1>11, <1>12 DEF RedirInv

-----------------------------------------------------------------------------

LEMMA RedirInitInv == ASSUME RedirAssumption, RedirInit PROVE RedirInv
<1>1. fds \in Tables BY DEF RedirInit, Tables, Files
<1>2. commands = <<>> /\ Len(commands) = 0 /\ commands \in Seq(Frames) /\ begun = 0 BY DEF RedirInit
<1>3. RedirNesting BY <1>1, <1>2 DEF RedirNesting, RedirAssumption
<1>4. OpenOrCopied
  <2> SUFFICES ASSUME NEW d \in SaveBase .. LastFd PROVE fds[d] = Closed BY DEF OpenOrCopied
  <2>1. d \in Fds /\ d \notin Standard BY DEF Fds, RedirAssumption
  <2>2. QED BY <2>1 DEF RedirInit
<1>5. QED BY <1>2, <1>3, <1>4 DEF RedirInv

\* Each step keeps the invariant.
LEMMA RedirStep ==
  ASSUME RedirAssumption, RoomAssumption, RedirInv, [RedirNext]_redirVars PROVE RedirInv'
<1>1. ASSUME NEW kind \in CommandKinds, Start(kind) PROVE RedirInv' BY <1>1, StartStep
<1>2. ASSUME NEW io \in Targets, OpenFile(io) PROVE RedirInv' BY <1>2, OpenFileStep
<1>3. ASSUME NEW io \in Targets, HereDocument(io) PROVE RedirInv' BY <1>3, HereDocumentStep
<1>4. ASSUME NEW io \in Targets, CloseFd(io) PROVE RedirInv' BY <1>4, CloseFdStep
<1>5. ASSUME NEW io \in Targets, NEW src \in Sources, DupFd(io, src) PROVE RedirInv' BY <1>5, DupFdStep
<1>6. ASSUME NEW io \in Targets, NEW src \in Sources, DupFails(io, src) PROVE RedirInv'
  BY <1>6, DupFailsStep
<1>7. CASE OpenFails BY <1>7, OpenFailsStep
<1>8. CASE Run BY <1>8, RunStep
<1>9. CASE Finish BY <1>9, FinishStep
<1>10. CASE RestoreFd BY <1>10, RestoreFdStep
<1>11. CASE DiscardFd BY <1>11, DiscardFdStep
<1>12. CASE End BY <1>12, EndStep
<1>13. CASE UNCHANGED redirVars
  BY <1>13 DEF redirVars, RedirInv, RedirNesting, OpenOrCopied, Innermost
<1>14. QED
  BY <1>1, <1>2, <1>3, <1>4, <1>5, <1>6, <1>7, <1>8, <1>9, <1>10, <1>11, <1>12, <1>13 DEF RedirNext

LEMMA RedirInvGives == ASSUME RedirAssumption, RedirInv PROVE DescriptorsRestored
<1>1. fds \in [Fds -> Files \cup {Closed}] BY DEF RedirInv, RedirNesting, Tables
<1>2. Len(commands) <= MaxDepth /\ begun <= MaxCommands
  BY DEF RedirInv, RedirNesting, RedirAssumption
<1>3. ASSUME NEW i \in 1 .. Len(commands)
      PROVE  /\ commands[i].kind \in CommandKinds
             /\ commands[i].step \in {"applies", "runs", "restores", "discards"}
             /\ commands[i].saved \in Seq([fd : Fds, saved : -1 .. LastFd])
             /\ commands[i].before \in [Fds -> Files \cup {Closed}]
             /\ commands[i].execed \cup commands[i].loose \subseteq Fds
  <2>1. commands[i] \in Frames BY ElementOfSeq DEF RedirInv, RedirNesting
  <2>2. commands[i].saved \in Seq(SavedFds) BY <2>1 DEF Frames
  <2>3. SavedFds \subseteq [fd : Fds, saved : -1 .. LastFd] BY DEF SavedFds, RedirAssumption
  <2>4. commands[i].saved \in Seq([fd : Fds, saved : -1 .. LastFd]) BY <2>2, <2>3, SeqMonotonic
  <2>5. 0 .. SaveBase - 1 \subseteq Fds BY DEF Fds, RedirAssumption
  <2>6. QED BY <2>1, <2>4, <2>5 DEF Frames, Tables
<1>4. RedirTypeOK BY <1>1, <1>2, <1>3 DEF RedirTypeOK
<1>5. ASSUME Over, NEW d \in Fds \ (Innermost.execed \cup Innermost.loose)
      PROVE  fds[d] = Innermost.before[d]
  BY <1>5, OverIsRestored DEF Restored
<1>6. QED BY <1>4, <1>5 DEF DescriptorsRestored

\* "exec redirections persist in the shell; everything else restores": when a
\* command is over, every descriptor stands for what it stood for when the command
\* began, but for those that exec changed in it and those that were closed and
\* where open put the file of their own redirection, and no copy is left.
THEOREM EverythingIsRestored == RedirSpec => []DescriptorsRestored
<1> USE RedirAssumption, RoomAssumption
<1>1. RedirInit => RedirInv BY RedirInitInv
<1>2. RedirInv /\ [RedirNext]_redirVars => RedirInv' BY RedirStep
<1>3. RedirInv => DescriptorsRestored BY RedirInvGives
<1>4. QED BY <1>1, <1>2, <1>3, PTL DEF RedirSpec
=============================================================================
