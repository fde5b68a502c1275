---------------------------- MODULE ShVars_proofs ----------------------------
(***************************************************************************)
(* ShVars implements ShScopes for every set of names and values, however   *)
(* deep calls nest: the one table with its saved copies always means a     *)
(* stack of scopes.                                                        *)
(*                                                                         *)
(* What call i declares of n is the copy that the first later call saved,  *)
(* or the table's entry when none did (Declared).  The table therefore     *)
(* shows the innermost declaration (InnermostDeclared), so an assignment   *)
(* changes that one alone; local moves the entry into a copy; and the      *)
(* copies of a call that ends are put back as they were (RestoredIsSaved). *)
(* The only fact needed beyond the types is that scripts save nothing.     *)
(***************************************************************************)
EXTENDS ShVars, TLAPS, SequenceTheorems, WellFoundedInduction

ScriptsSaveNothing ==
    \A i \in 1 .. Len(frames) : frames[i].kind = "script" =>
        \A n \in Names : frames[i].locals[n] = NotSaved

VarsInv == TypeOK /\ ScriptsSaveNothing

-----------------------------------------------------------------------------
(* One variable.                                                           *)

\* The word that stands for "not saved" is no variable.
LEMMA NotSavedIsNone == NotSaved \notin Bindings
BY ValuesAssumption DEF NotSaved, Bindings, VarTypes, Unset, Null

\* The functions of sh_var.c make variables of variables.
LEMMA VarFunctions ==
    ASSUME NEW v \in Bindings, NEW value \in Values \cup {Null}, NEW exported \in BOOLEAN,
           opt_allexport \in BOOLEAN
    PROVE  /\ shVarSet(v, value, exported) \in Bindings
           /\ shVarUnset(v) \in Bindings
           /\ shVarExport(v, value) \in Bindings
           /\ shVarMakeReadOnly(v, value) \in Bindings
<1>1. v.exported \in BOOLEAN /\ v.read_only \in BOOLEAN
  <2>1. CASE v \in VarTypes
        BY <2>1 DEF VarTypes
  <2>2. CASE v = Unset
    <3>1. v.exported = FALSE /\ v.read_only = FALSE
          BY <2>2 DEF Unset
    <3> QED BY <3>1, Zenon
  <2> QED BY <2>1, <2>2 DEF Bindings
<1>2. \A e \in BOOLEAN : (v.exported \/ e \/ opt_allexport) \in BOOLEAN
      BY Zenon
<1>3. \A val \in Values \cup {Null}, e \in BOOLEAN : shVarSet(v, val, e) \in Bindings
      BY <1>1, <1>2 DEF shVarSet, Bindings, VarTypes
<1>4. shVarUnset(v) \in Bindings
      BY DEF shVarUnset, Bindings
<1>5. shVarExport(v, value) \in Bindings
      BY <1>3 DEF shVarExport, Bindings, VarTypes
<1>6. shVarMakeReadOnly(v, value) \in Bindings
  <2>1. CASE v = Unset
    <3> DEFINE val == IF value = Null THEN "" ELSE value
    <3>1. val \in Values \cup {Null}
          BY ValuesAssumption
    <3>2. shVarSet(v, val, FALSE) \in VarTypes
          BY <1>2, <2>1, <3>1 DEF shVarSet, VarTypes, Unset
    <3> QED BY <2>1, <3>2 DEF shVarMakeReadOnly, Bindings, VarTypes
  <2>2. CASE v # Unset
        BY <2>2 DEF shVarMakeReadOnly, Bindings, VarTypes
  <2> QED BY <2>1, <2>2
<1> QED BY <1>3, <1>4, <1>5, <1>6

\* None of them changes the value of a read-only variable, or makes it writable.
LEMMA ReadOnlyKept ==
    ASSUME NEW v \in Bindings, NEW value, v.read_only
    PROVE  \A w \in {shVarSet(v, value, FALSE), shVarUnset(v), shVarExport(v, value),
                     shVarMakeReadOnly(v, value)} :
               w.read_only /\ w.value = v.value
BY DEF shVarSet, shVarUnset, shVarExport, shVarMakeReadOnly, Bindings, VarTypes, Unset

\* The end of a call puts back what local found, whatever the variable is by then.
LEMMA RestoredIsSaved ==
    ASSUME NEW v \in Bindings, NEW save \in Bindings
    PROVE  Restored(v, save) = save
<1> DEFINE w == [v EXCEPT !.read_only = FALSE]
<1>1. w.read_only = FALSE
      BY DEF Bindings, VarTypes, Unset
<1>2. CASE save = Unset
      BY <1>1, <1>2 DEF Restored, shVarUnset
<1>3. CASE save \in VarTypes /\ save # Unset
  <2>1. shVarSet(w, save.value, FALSE).value = save.value
        BY <1>1 DEF shVarSet
  <2>2. save = [value |-> save.value, exported |-> save.exported, read_only |-> save.read_only]
        BY <1>3 DEF VarTypes
  <2> QED BY <1>3, <2>1, <2>2 DEF Restored
<1> QED BY <1>2, <1>3 DEF Bindings

-----------------------------------------------------------------------------
(* What a table and frames mean.                                           *)

\* A nonempty set of numbers has a first one.
LEMMA FirstIsLeast ==
    ASSUME NEW s, s \subseteq Nat, s # {}
    PROVE  First(s) \in s /\ \A k \in s : First(s) <= k
<1> DEFINE R == OpToRel(<, Nat)
<1>1. \A x, y \in Nat : <<x, y>> \in R <=> x < y
      BY DEF OpToRel
<1>2. IsWellFoundedOn(R, Nat)
      BY NatLessThanWellFounded
<1> HIDE DEF R
<1>3. \E x \in s : \A y \in s : ~ (<<y, x>> \in R)
      BY <1>2, WFMin
<1>4. PICK x \in s : \A y \in s : ~ (<<y, x>> \in R)
      BY <1>3
<1>5. ASSUME NEW y \in s PROVE x <= y
  <2>1. x \in Nat /\ y \in Nat
        OBVIOUS
  <2>2. ~ (<<y, x>> \in R)
        BY <1>4
  <2>3. ~ (y < x)
        BY <1>1, <2>1, <2>2
  <2> QED BY <2>1, <2>3
<1> QED BY <1>5 DEF First

\* The meaning of a declaration, by cases.
LEMMA DeclaredCases ==
    ASSUME NEW t \in [Names -> Bindings], NEW fs \in Seq(Frames),
           NEW i \in 0 .. Len(fs), NEW n \in Names
    PROVE  /\ SavedAfter(fs, n, i) \subseteq Nat
           /\ (i > 0 /\ fs[i].locals[n] = NotSaved) <=> Declared(t, fs, i, n) = NotSaved
           /\ Declared(t, fs, i, n) \in Bindings \cup {NotSaved}
<1>1. SavedAfter(fs, n, i) \subseteq i + 1 .. Len(fs)
      BY DEF SavedAfter
<1>2. ASSUME SavedAfter(fs, n, i) # {}
      PROVE  fs[First(SavedAfter(fs, n, i))].locals[n] \in Bindings
  <2> DEFINE f == First(SavedAfter(fs, n, i))
  <2>1. f \in SavedAfter(fs, n, i)
        BY <1>1, <1>2, FirstIsLeast
  <2>2. f \in 1 .. Len(fs) /\ fs[f].locals[n] # NotSaved
        BY <2>1 DEF SavedAfter
  <2>3. fs[f] \in Frames
        BY <2>2
  <2> QED BY <2>2, <2>3 DEF Frames
<1>3. t[n] \in Bindings
      OBVIOUS
<1> QED BY <1>1, <1>2, <1>3, NotSavedIsNone DEF Declared

\* The declaration that a command sees: no later call saved the name, and so
\* the entry of the table is the one that call i declares.
LEMMA InnermostDeclared ==
    ASSUME NEW t \in [Names -> Bindings], NEW fs \in Seq(Frames),
           NEW i \in 0 .. Len(fs), NEW n \in Names
    PROVE  (/\ Declared(t, fs, i, n) # NotSaved
            /\ \A j \in i + 1 .. Len(fs) : Declared(t, fs, j, n) = NotSaved)
             <=> (i = 0 \/ fs[i].locals[n] # NotSaved) /\ SavedAfter(fs, n, i) = {}
<1>1. Declared(t, fs, i, n) # NotSaved <=> i = 0 \/ fs[i].locals[n] # NotSaved
      BY DeclaredCases
<1>2. ASSUME NEW j \in i + 1 .. Len(fs)
      PROVE  Declared(t, fs, j, n) = NotSaved <=> fs[j].locals[n] = NotSaved
      BY DeclaredCases
<1>3. SavedAfter(fs, n, i) = {} <=> \A j \in i + 1 .. Len(fs) : fs[j].locals[n] = NotSaved
      BY DEF SavedAfter
<1> QED BY <1>1, <1>2, <1>3

\* The stack of scopes that a table and frames mean.
LEMMA StackOfScopes ==
    ASSUME NEW t \in [Names -> Bindings], NEW fs \in Seq(Frames), NEW p \in Parameters
    PROVE  /\ Env(t, fs) \in Seq([Names -> Bindings \cup {NotSaved}])
           /\ Len(Env(t, fs)) = Len(fs) + 1
           /\ \A i \in 1 .. Len(fs) + 1, n \in Names :
                 Env(t, fs)[i][n] = Declared(t, fs, i - 1, n)
           /\ \A i \in 1 .. Len(fs) + 1 :
                 Env(t, fs)[i] = [n \in Names |-> Declared(t, fs, i - 1, n)]
           /\ Args(fs, p) \in Seq(Parameters)
           /\ Len(Args(fs, p)) = Len(fs) + 1
           /\ Len(Kinds(fs)) = Len(fs) + 1
<1> DEFINE D == Len(fs) + 1
<1>1. D \in Nat /\ \A i \in 1 .. D : i - 1 \in 0 .. Len(fs)
      OBVIOUS
<1>2. ASSUME NEW i \in 1 .. D
      PROVE  [n \in Names |-> Declared(t, fs, i - 1, n)] \in [Names -> Bindings \cup {NotSaved}]
      BY <1>1, DeclaredCases
<1>3. ASSUME NEW i \in 1 .. D
      PROVE  (IF i > Len(fs) THEN p ELSE fs[i].old_params) \in Parameters
  <2>1. CASE i \in 1 .. Len(fs)
    <3>1. fs[i] \in Frames
          BY <2>1
    <3> QED BY <2>1, <3>1 DEF Frames
  <2>2. CASE i > Len(fs)
        BY <2>2
  <2> QED BY <2>1, <2>2
<1>4. Env(t, fs) \in [1 .. D -> [Names -> Bindings \cup {NotSaved}]]
      BY <1>2 DEF Env
<1>5. Args(fs, p) \in [1 .. D -> Parameters]
      BY <1>3 DEF Args
<1>6. ASSUME NEW S, NEW f \in [1 .. D -> S] PROVE f \in Seq(S) /\ Len(f) = D
      BY <1>1
<1>7. \E S : Kinds(fs) \in [1 .. D -> S]
  <2> DEFINE S == {IF i = 1 THEN "global" ELSE fs[i - 1].kind : i \in 1 .. D}
  <2>1. Kinds(fs) \in [1 .. D -> S]
        BY DEF Kinds
  <2> QED BY <2>1
<1> QED BY <1>4, <1>5, <1>6, <1>7 DEF Env

\* ShScopes has the names of this module for what a variable may be.
LEMMA SameWords ==
    /\ Scopes!Bindings = Bindings
    /\ Scopes!NotHere = NotSaved
    /\ Scopes!Parameters = Parameters
BY DEF Scopes!Bindings, Scopes!Vars, Scopes!Unset, Scopes!NotHere, Scopes!Parameters,
       Bindings, VarTypes, Unset, Null, NotSaved, Parameters

\* local saves the entry of a name: nothing but the call's own declaration appears.
LEMMA DeclaredAfterSave ==
    ASSUME NEW t \in [Names -> Bindings], NEW fs \in Seq(Frames), NEW n \in Names,
           NEW f \in 1 .. Len(fs), \A j \in f .. Len(fs) : fs[j].locals[n] = NotSaved,
           NEW i \in 0 .. Len(fs), NEW m \in Names
    PROVE  Declared(t, [fs EXCEPT ![f].locals[n] = t[n]], i, m)
             = IF i = f /\ m = n THEN t[n] ELSE Declared(t, fs, i, m)
<1> DEFINE gs == [fs EXCEPT ![f].locals[n] = t[n]]
<1>1. fs[f] \in Frames
      OBVIOUS
<1>2. /\ Len(gs) = Len(fs)
      /\ \A j \in 1 .. Len(fs) : j # f => gs[j] = fs[j]
      /\ gs[f].locals = [fs[f].locals EXCEPT ![n] = t[n]]
  <2> DEFINE saved == [fs[f].locals EXCEPT ![n] = t[n]]
             frame == [fs[f] EXCEPT !.locals = saved]
  <2>1. saved \in [Names -> Bindings \cup {NotSaved}]
        BY <1>1 DEF Frames
  <2>2. gs = [fs EXCEPT ![f] = frame]
        OBVIOUS
  <2> HIDE DEF saved
  <2>3. frame \in Frames /\ frame.locals = saved
        BY <1>1, <2>1 DEF Frames
  <2> HIDE DEF frame
  <2>4. Len(gs) = Len(fs) /\ gs[f] = frame /\ \A j \in 1 .. Len(fs) : j # f => gs[j] = fs[j]
        BY <2>2, <2>3
  <2> QED BY <2>3, <2>4 DEF saved
<1>3. /\ \A j \in 1 .. Len(fs) : j # f \/ m # n => gs[j].locals[m] = fs[j].locals[m]
      /\ gs[f].locals[n] = t[n]
      BY <1>1, <1>2 DEF Frames
<1> HIDE DEF gs
<1> SUFFICES Declared(t, gs, i, m) = IF i = f /\ m = n THEN t[n] ELSE Declared(t, fs, i, m)
    BY DEF gs
<1>4. t[n] \in Bindings /\ t[n] # NotSaved
      BY NotSavedIsNone
<1>5. CASE m # n
  <2>1. SavedAfter(gs, m, i) = SavedAfter(fs, m, i)
        BY <1>2, <1>3, <1>5 DEF SavedAfter
  <2>2. ASSUME SavedAfter(fs, m, i) # {}
        PROVE  First(SavedAfter(fs, m, i)) \in 1 .. Len(fs)
    <3>1. SavedAfter(fs, m, i) \subseteq 1 .. Len(fs)
          BY DEF SavedAfter
    <3> QED BY <2>2, <3>1, FirstIsLeast
  <2> QED BY <1>3, <1>5, <2>1, <2>2 DEF Declared
<1>6. CASE m = n /\ i >= f
  <2>1. SavedAfter(gs, m, i) = {} /\ SavedAfter(fs, m, i) = {}
        BY <1>2, <1>3, <1>6 DEF SavedAfter
  <2> QED BY <1>3, <1>4, <1>6, <2>1 DEF Declared
<1>7. CASE m = n /\ i < f
  <2>1. SavedAfter(gs, n, i) = SavedAfter(fs, n, i) \cup {f}
        BY <1>2, <1>3, <1>4, <1>7 DEF SavedAfter
  <2>2. SavedAfter(fs, n, i) \subseteq 1 .. f - 1
        BY DEF SavedAfter
  <2>3. CASE SavedAfter(fs, n, i) = {}
    <3>1. {f} \subseteq Nat /\ {f} # {}
          OBVIOUS
    <3>2. First({f}) = f
          BY <3>1, FirstIsLeast
    <3> QED BY <3>2, <1>3, <1>7, <2>1, <2>3, <3>1 DEF Declared
  <2>4. CASE SavedAfter(fs, n, i) # {}
    <3> DEFINE S == SavedAfter(fs, n, i)
    <3>1. S \subseteq Nat /\ S \cup {f} \subseteq Nat
          BY <2>2
    <3>2. First(S) \in S /\ \A k \in S : First(S) <= k
          BY <2>4, <3>1, FirstIsLeast
    <3>3. First(S \cup {f}) \in S \cup {f} /\ \A k \in S \cup {f} : First(S \cup {f}) <= k
          BY <3>1, FirstIsLeast
    <3> HIDE DEF S
    <3>4. ASSUME NEW a \in S, \A k \in S : a <= k,
                 NEW b \in S \cup {f}, \A k \in S \cup {f} : b <= k
          PROVE  b = a /\ a \in 1 .. Len(fs) /\ a # f
      <4>1. \A k \in S : k \in 1 .. f - 1
            BY <2>2 DEF S
      <4>2. b <= a /\ a < f
            BY <3>4, <4>1
      <4>3. b \in S
            BY <3>4, <4>1, <4>2
      <4> QED BY <3>4, <4>1, <4>2, <4>3
    <3>5. First(S \cup {f}) = First(S) /\ First(S) \in 1 .. Len(fs) /\ First(S) # f
          BY <3>2, <3>3, <3>4
    <3> QED BY <1>3, <1>7, <2>1, <2>4, <3>5 DEF Declared, S
  <2> QED BY <2>3, <2>4
<1> QED BY <1>5, <1>6, <1>7

\* A call declares nothing when it begins.
LEMMA DeclaredAfterEnter ==
    ASSUME NEW t \in [Names -> Bindings], NEW fs \in Seq(Frames), NEW frame \in Frames,
           NEW m \in Names, frame.locals[m] = NotSaved
    PROVE  /\ \A i \in 0 .. Len(fs) :
                 Declared(t, Append(fs, frame), i, m) = Declared(t, fs, i, m)
           /\ Declared(t, Append(fs, frame), Len(fs) + 1, m) = NotSaved
<1> DEFINE gs == Append(fs, frame)
<1>1. Len(gs) = Len(fs) + 1 /\ gs[Len(fs) + 1] = frame /\ \A j \in 1 .. Len(fs) : gs[j] = fs[j]
      OBVIOUS
<1> HIDE DEF gs
<1>2. ASSUME NEW i \in 0 .. Len(fs)
      PROVE  Declared(t, gs, i, m) = Declared(t, fs, i, m)
  <2>1. SavedAfter(gs, m, i) = SavedAfter(fs, m, i)
        BY <1>1 DEF SavedAfter
  <2>2. ASSUME SavedAfter(fs, m, i) # {}
        PROVE  First(SavedAfter(fs, m, i)) \in 1 .. Len(fs)
    <3>1. SavedAfter(fs, m, i) \subseteq 1 .. Len(fs)
          BY DEF SavedAfter
    <3> QED BY <2>2, <3>1, FirstIsLeast
  <2> QED BY <1>1, <2>1, <2>2 DEF Declared
<1>3. Declared(t, gs, Len(fs) + 1, m) = NotSaved
      BY <1>1 DEF Declared
<1> QED BY <1>2, <1>3 DEF gs

\* What is left of the frames when the last call ends.
LEMMA CallsButTheLast ==
    ASSUME NEW fs \in Seq(Frames), Len(fs) > 0
    PROVE  /\ Len(fs) \in Nat
           /\ SubSeq(fs, 1, Len(fs) - 1) \in Seq(Frames)
           /\ Len(SubSeq(fs, 1, Len(fs) - 1)) = Len(fs) - 1
           /\ \A j \in 1 .. Len(fs) - 1 : SubSeq(fs, 1, Len(fs) - 1)[j] = fs[j]
<1>1. Len(fs) \in Nat /\ Len(fs) - 1 \in Int /\ 1 \in Int
      OBVIOUS
<1>2. \A j \in 1 .. Len(fs) - 1 : fs[j] \in Frames
      OBVIOUS
<1>3. /\ SubSeq(fs, 1, Len(fs) - 1) \in Seq(Frames)
      /\ Len(SubSeq(fs, 1, Len(fs) - 1)) = IF 1 <= Len(fs) - 1 THEN (Len(fs) - 1) - 1 + 1 ELSE 0
      /\ \A j \in 1 .. (Len(fs) - 1) - 1 + 1 : SubSeq(fs, 1, Len(fs) - 1)[j] = fs[1 + j - 1]
      BY <1>1, <1>2, SubSeqProperties
<1>4. \A j \in 1 .. Len(fs) - 1 : 1 + j - 1 = j
      OBVIOUS
<1>5. Len(SubSeq(fs, 1, Len(fs) - 1)) = Len(fs) - 1
  <2> DEFINE l == Len(fs)
             m == Len(SubSeq(fs, 1, Len(fs) - 1))
  <2>1. l \in Nat /\ l > 0 /\ m = IF 1 <= l - 1 THEN (l - 1) - 1 + 1 ELSE 0
        BY <1>1, <1>3
  <2> HIDE DEF l, m
  <2>2. m = l - 1
        BY <2>1
  <2> QED BY <2>2 DEF l, m
<1>6. ASSUME NEW j \in 1 .. Len(fs) - 1
      PROVE  SubSeq(fs, 1, Len(fs) - 1)[j] = fs[j]
  <2>1. j \in 1 .. (Len(fs) - 1) - 1 + 1
        BY <1>1
  <2>2. SubSeq(fs, 1, Len(fs) - 1)[j] = fs[1 + j - 1]
        BY <1>3, <2>1
  <2> QED BY <1>4, <2>2
<1> QED BY <1>1, <1>3, <1>5, <1>6

\* The last call puts its copies back, and the others declare what they did.
LEMMA DeclaredAfterLeave ==
    ASSUME NEW t \in [Names -> Bindings], NEW fs \in Seq(Frames), Len(fs) > 0, NEW m \in Names,
           NEW u, u[m] = IF fs[Len(fs)].locals[m] = NotSaved THEN t[m] ELSE fs[Len(fs)].locals[m],
           NEW i \in 0 .. Len(fs) - 1
    PROVE  Declared(u, SubSeq(fs, 1, Len(fs) - 1), i, m) = Declared(t, fs, i, m)
<1> DEFINE gs == SubSeq(fs, 1, Len(fs) - 1)
           S == SavedAfter(fs, m, i)
           last == Len(fs)
<1>1. last \in Nat /\ Len(gs) = last - 1 /\ \A j \in 1 .. last - 1 : gs[j] = fs[j]
      BY CallsButTheLast
<1> HIDE DEF gs
<1>2. SavedAfter(gs, m, i) = S \ {last} /\ S \subseteq 1 .. last
      BY <1>1 DEF SavedAfter
<1>3. last \in S <=> fs[last].locals[m] # NotSaved
      BY <1>1 DEF SavedAfter
<1>4. i \in 0 .. last - 1 /\ (i > 0 => gs[i] = fs[i])
      BY <1>1
<1> SUFFICES Declared(u, gs, i, m) = Declared(t, fs, i, m)
    BY DEF gs
<1>5. CASE S = {}
      BY <1>2, <1>3, <1>4, <1>5 DEF Declared
<1>6. CASE S = {last}
  <2>1. {last} \subseteq Nat /\ {last} # {}
        BY <1>1
  <2>2. First(S) = last
        BY <1>6, <2>1, FirstIsLeast
  <2> QED BY <1>2, <1>3, <1>4, <1>6, <2>2 DEF Declared
<1>7. CASE S # {} /\ S # {last}
  <2> HIDE DEF S
  <2>1. S \subseteq Nat /\ S \ {last} \subseteq Nat /\ S \ {last} # {}
    <3>1. PICK k \in S : TRUE
          BY <1>7
    <3>2. ASSUME S \ {last} = {} PROVE S = {last}
          BY <3>1, <3>2, Zenon
    <3>3. S \subseteq Nat
          BY <1>2
    <3> QED BY <1>7, <3>2, <3>3
  <2>2. First(S) \in S /\ \A k \in S : First(S) <= k
        BY <1>7, <2>1, FirstIsLeast
  <2>3. First(S \ {last}) \in S \ {last} /\ \A k \in S \ {last} : First(S \ {last}) <= k
        BY <2>1, FirstIsLeast
  <2>4. ASSUME NEW a \in S, \A k \in S : a <= k,
               NEW b \in S \ {last}, \A k \in S \ {last} : b <= k
        PROVE  b = a /\ a \in 1 .. last - 1
    <3>1. a \in 1 .. last /\ b \in 1 .. last /\ b # last /\ a <= b
          BY <1>2, <2>4
    <3>2. a < last
          BY <1>1, <3>1
    <3>3. b <= a
          BY <2>4, <3>2
    <3> QED BY <1>1, <3>1, <3>2, <3>3
  <2>5. First(S \ {last}) = First(S) /\ First(S) \in 1 .. last - 1
        BY <2>2, <2>3, <2>4
  <2>6. gs[First(S)] = fs[First(S)]
        BY <1>1, <2>5
  <2> QED BY <1>2, <1>4, <1>7, <2>1, <2>5, <2>6 DEF Declared, S
<1> QED BY <1>5, <1>6, <1>7

-----------------------------------------------------------------------------
(* The steps of the shell are steps of the scopes.                         *)

\* A command that changes the table alone, and leaves read-only variables as
\* they are, writes where the names are declared.
LEMMA TableStep ==
    ASSUME VarsInv, table' \in [Names -> Bindings], UNCHANGED <<frames, params>>,
           \A n \in Names : table[n].read_only =>
               table'[n].read_only /\ table'[n].value = table[n].value
    PROVE  Scopes!Write
<1> DEFINE E == Env(table, frames)
           F == Env(table', frames)
           D == Len(frames) + 1
<1>1. table \in [Names -> Bindings] /\ frames \in Seq(Frames) /\ params \in Parameters
      BY DEF VarsInv, TypeOK
<1>2. /\ F \in Seq([Names -> Bindings \cup {NotSaved}])
      /\ Len(F) = D
      /\ \A i \in 1 .. D, n \in Names :
            E[i][n] = Declared(table, frames, i - 1, n) /\ F[i][n] = Declared(table', frames, i - 1, n)
      /\ Len(Kinds(frames)) = D
      BY <1>1, StackOfScopes
<1>3. ASSUME NEW i \in 1 .. D, NEW n \in Names
      PROVE  IF E[i][n] # NotSaved /\ \A j \in i + 1 .. D : E[j][n] = NotSaved
             THEN /\ F[i][n] # NotSaved
                  /\ E[i][n].read_only =>
                        F[i][n].read_only /\ F[i][n].value = E[i][n].value
             ELSE F[i][n] = E[i][n]
  <2>1. i - 1 \in 0 .. Len(frames)
        BY <1>1
  <2>2. (\A j \in i + 1 .. D : E[j][n] = NotSaved)
          <=> \A j \in i .. Len(frames) : Declared(table, frames, j, n) = NotSaved
    <3>1. ASSUME NEW j \in i + 1 .. D
          PROVE  j - 1 \in i .. Len(frames) /\ E[j][n] = Declared(table, frames, j - 1, n)
          BY <1>1, <1>2
    <3>2. ASSUME NEW j \in i .. Len(frames)
          PROVE  j + 1 \in i + 1 .. D /\ E[j + 1][n] = Declared(table, frames, j, n)
      <4>1. j + 1 \in 1 .. D /\ j + 1 \in i + 1 .. D /\ (j + 1) - 1 = j
            BY <1>1
      <4> QED BY <1>2, <4>1
    <3> QED BY <3>1, <3>2
  <2>3. (E[i][n] # NotSaved /\ \A j \in i + 1 .. D : E[j][n] = NotSaved)
          <=> (i - 1 = 0 \/ frames[i - 1].locals[n] # NotSaved) /\ SavedAfter(frames, n, i - 1) = {}
    <3> DEFINE k == i - 1
    <3>1. k \in 0 .. Len(frames) /\ k + 1 = i
          BY <1>1, <2>1
    <3>2. E[i][n] = Declared(table, frames, k, n)
          BY <1>2
    <3> HIDE DEF k
    <3>3. (/\ Declared(table, frames, k, n) # NotSaved
           /\ \A j \in k + 1 .. Len(frames) : Declared(table, frames, j, n) = NotSaved)
             <=> (k = 0 \/ frames[k].locals[n] # NotSaved) /\ SavedAfter(frames, n, k) = {}
          BY <1>1, <3>1, InnermostDeclared
    <3>4. (/\ Declared(table, frames, k, n) # NotSaved
           /\ \A j \in i .. Len(frames) : Declared(table, frames, j, n) = NotSaved)
             <=> (k = 0 \/ frames[k].locals[n] # NotSaved) /\ SavedAfter(frames, n, k) = {}
          BY <3>1, <3>3
    <3>5. (/\ E[i][n] # NotSaved /\ \A j \in i + 1 .. D : E[j][n] = NotSaved)
             <=> (k = 0 \/ frames[k].locals[n] # NotSaved) /\ SavedAfter(frames, n, k) = {}
          BY <2>2, <3>2, <3>4
    <3> QED BY <3>5 DEF k
  <2>4. CASE (i - 1 = 0 \/ frames[i - 1].locals[n] # NotSaved) /\ SavedAfter(frames, n, i - 1) = {}
    <3>1. E[i][n] = table[n] /\ F[i][n] = table'[n]
          BY <1>2, <2>1, <2>4 DEF Declared
    <3>2. table'[n] # NotSaved
          BY NotSavedIsNone
    <3> QED BY <2>3, <2>4, <3>1, <3>2
  <2>5. CASE ~((i - 1 = 0 \/ frames[i - 1].locals[n] # NotSaved) /\ SavedAfter(frames, n, i - 1) = {})
    <3>1. F[i][n] = E[i][n]
          BY <1>2, <2>1, <2>5 DEF Declared
    <3> QED BY <2>3, <2>5, <3>1
  <2> QED BY <2>4, <2>5
<1>4. Env(table, frames)' = F /\ Args(frames, params)' = Args(frames, params) /\ Kinds(frames)' = Kinds(frames)
      BY DEF Env, Args, Kinds, Declared, SavedAfter
<1> HIDE DEF E, F, D
<1> QED BY <1>2, <1>3, <1>4, SameWords DEF Scopes!Write, Scopes!Depth, Scopes!Innermost, E

\* The function that local writes to is the last one; the frames after it are
\* scripts.
LEMMA TopFunctionIsLast ==
    ASSUME TypeOK, Functions # {}
    PROVE  /\ TopFunction \in 1 .. Len(frames) /\ frames[TopFunction].kind = "function"
           /\ \A j \in TopFunction + 1 .. Len(frames) : frames[j].kind = "script"
<1> DEFINE L == Len(frames)
           Left == {L - g : g \in Functions}
<1>1. L \in Nat /\ Functions \subseteq 1 .. L
      BY DEF TypeOK, Functions
<1>2. Left \subseteq Nat /\ Left # {}
  <2>1. PICK g \in Functions : TRUE
        OBVIOUS
  <2>2. L - g \in Left
        BY <2>1
  <2>3. ASSUME NEW h \in Functions PROVE L - h \in Nat
        BY <1>1
  <2> QED BY <2>2, <2>3
<1>3. First(Left) \in Left /\ \A k \in Left : First(Left) <= k
      BY <1>2, FirstIsLeast
<1>4. PICK f \in Functions : First(Left) = L - f
      BY <1>3
<1>5. ASSUME NEW g \in Functions PROVE g <= f
  <2>1. L - g \in Left
        OBVIOUS
  <2>2. L - f <= L - g
        BY <1>3, <1>4, <2>1
  <2> QED BY <1>1, <2>2
<1>6. TopFunction \in Functions /\ \A g \in Functions : g <= TopFunction
  <2>1. \E h \in Functions : \A g \in Functions : g <= h
        BY <1>5
  <2> QED BY <2>1, Zenon DEF TopFunction
<1>7. ASSUME NEW j \in TopFunction + 1 .. L PROVE frames[j].kind = "script"
  <2>1. j \in 1 .. L /\ ~ (j <= TopFunction)
        BY <1>1, <1>6
  <2>2. j \notin Functions
        BY <1>6, <2>1
  <2>3. frames[j] \in Frames
        BY <2>1 DEF TypeOK
  <2> QED BY <2>1, <2>2, <2>3 DEF Functions, Frames
<1> QED BY <1>1, <1>6, <1>7 DEF Functions

\* Some call declares what the table holds.
LEMMA SomeCallDeclares ==
    ASSUME NEW fs \in Seq(Frames), NEW n \in Names
    PROVE  \E i \in 0 .. Len(fs) :
               (i = 0 \/ fs[i].locals[n] # NotSaved) /\ SavedAfter(fs, n, i) = {}
<1> DEFINE Clear == {i \in 0 .. Len(fs) : SavedAfter(fs, n, i) = {}}
<1>1. Len(fs) \in Clear /\ Clear \subseteq Nat
      BY DEF SavedAfter
<1>2. PICK i \in Clear : \A k \in Clear : i <= k
  <2>1. Clear # {}
        BY <1>1
  <2> QED BY <1>1, <2>1, FirstIsLeast
<1>3. CASE i = 0
      BY <1>3
<1>4. CASE i > 0 /\ fs[i].locals[n] = NotSaved
  <2>1. i - 1 \in 0 .. Len(fs) /\ i - 1 \notin Clear
        BY <1>1, <1>2, <1>4
  <2>2. PICK j \in (i - 1) + 1 .. Len(fs) : fs[j].locals[n] # NotSaved
        BY <2>1 DEF SavedAfter
  <2>3. j \in i + 1 .. Len(fs)
        BY <1>1, <1>4, <2>2
  <2>4. j \in SavedAfter(fs, n, i)
        BY <2>2, <2>3 DEF SavedAfter
  <2> QED BY <2>4
<1>5. CASE fs[i].locals[n] # NotSaved
      BY <1>5
<1> QED BY <1>1, <1>3, <1>4, <1>5

\* local declares the name in the innermost function.
LEMMA DeclareStep ==
    ASSUME VarsInv, NEW n \in Names, NEW value, builtinLocal(n, value)
    PROVE  Scopes!Declare(n)
<1> DEFINE f == TopFunction
           E == Env(table, frames)
           F == Env(table, frames')
           D == Len(frames) + 1
<1>1. /\ table \in [Names -> Bindings] /\ frames \in Seq(Frames) /\ params \in Parameters
      /\ table' = table /\ params' = params
      /\ frames' = [frames EXCEPT ![f].locals[n] = table[n]]
      /\ frames[f].locals[n] = NotSaved
      BY DEF VarsInv, TypeOK, builtinLocal
<1>2. /\ f \in 1 .. Len(frames) /\ frames[f].kind = "function"
      /\ \A j \in f + 1 .. Len(frames) : frames[j].kind = "script"
      BY TopFunctionIsLast DEF VarsInv, builtinLocal
<1>3. \A j \in f .. Len(frames) : frames[j].locals[n] = NotSaved
  <2>1. ASSUME NEW j \in f + 1 .. Len(frames) PROVE frames[j].locals[n] = NotSaved
        BY <1>2, <2>1 DEF VarsInv, ScriptsSaveNothing
  <2>2. \A j \in f .. Len(frames) : j = f \/ j \in f + 1 .. Len(frames)
        BY <1>2
  <2> QED BY <1>1, <2>1, <2>2
<1>4. ASSUME NEW i \in 0 .. Len(frames), NEW m \in Names
      PROVE  Declared(table, frames', i, m)
               = IF i = f /\ m = n THEN table[n] ELSE Declared(table, frames, i, m)
  <2> HIDE DEF f
  <2>1. table \in [Names -> Bindings] /\ frames \in Seq(Frames) /\ f \in 1 .. Len(frames)
        BY <1>1, <1>2
  <2>2. Declared(table, [frames EXCEPT ![f].locals[n] = table[n]], i, m)
          = IF i = f /\ m = n THEN table[n] ELSE Declared(table, frames, i, m)
        BY <1>3, <2>1, DeclaredAfterSave
  <2> QED BY <1>1, <2>2
<1>5. /\ Len(frames') = Len(frames) /\ frames' \in Seq(Frames)
      /\ \A j \in 1 .. Len(frames) :
            frames'[j].old_params = frames[j].old_params /\ frames'[j].kind = frames[j].kind
  <2> DEFINE saved == [frames[f].locals EXCEPT ![n] = table[n]]
             frame == [frames[f] EXCEPT !.locals = saved]
  <2>1. frames[f] \in Frames
        BY <1>1, <1>2
  <2>2. saved \in [Names -> Bindings \cup {NotSaved}]
        BY <1>1, <2>1 DEF Frames
  <2>3. frames' = [frames EXCEPT ![f] = frame]
        BY <1>1
  <2> HIDE DEF saved
  <2>4. frame \in Frames /\ frame.old_params = frames[f].old_params /\ frame.kind = frames[f].kind
        BY <2>1, <2>2 DEF Frames
  <2> HIDE DEF frame
  <2> QED BY <1>1, <1>2, <2>3, <2>4
<1>6. Args(frames', params) = Args(frames, params) /\ Kinds(frames') = Kinds(frames)
      BY <1>5 DEF Args, Kinds
<1>7. PICK k \in 0 .. Len(frames) :
            (k = 0 \/ frames[k].locals[n] # NotSaved) /\ SavedAfter(frames, n, k) = {}
      BY <1>1, SomeCallDeclares
<1>8. /\ \A i \in 1 .. D, m \in Names : E[i][m] = Declared(table, frames, i - 1, m)
      /\ \A i \in 1 .. D : E[i] = [m \in Names |-> Declared(table, frames, i - 1, m)]
      /\ E \in Seq([Names -> Bindings \cup {NotSaved}]) /\ Len(E) = D
      /\ F \in Seq([Names -> Bindings \cup {NotSaved}]) /\ Len(F) = D
      /\ \A i \in 1 .. D, m \in Names : F[i][m] = Declared(table, frames', i - 1, m)
      /\ Len(Kinds(frames)) = D
  <2>1. /\ \A i \in 1 .. D, m \in Names : E[i][m] = Declared(table, frames, i - 1, m)
        /\ \A i \in 1 .. D : E[i] = [m \in Names |-> Declared(table, frames, i - 1, m)]
        /\ E \in Seq([Names -> Bindings \cup {NotSaved}]) /\ Len(E) = D
        /\ Len(Kinds(frames)) = D
        BY <1>1, StackOfScopes
  <2>2. /\ F \in Seq([Names -> Bindings \cup {NotSaved}]) /\ Len(F) = Len(frames') + 1
        /\ \A i \in 1 .. Len(frames') + 1, m \in Names : F[i][m] = Declared(table, frames', i - 1, m)
    <3>1. ASSUME NEW gs \in Seq(Frames)
          PROVE  /\ Env(table, gs) \in Seq([Names -> Bindings \cup {NotSaved}])
                 /\ Len(Env(table, gs)) = Len(gs) + 1
                 /\ \A i \in 1 .. Len(gs) + 1, m \in Names :
                        Env(table, gs)[i][m] = Declared(table, gs, i - 1, m)
          BY <1>1, StackOfScopes
    <3> QED BY <1>5, <3>1
  <2> QED BY <1>5, <2>1, <2>2
<1>9. E[k + 1][n] = table[n] /\ E[k + 1][n] # NotSaved
      /\ \A j \in k + 2 .. D : E[j][n] = NotSaved
  <2>1. k + 1 \in 1 .. D /\ (k + 1) - 1 = k
        BY <1>1
  <2>2. Declared(table, frames, k, n) # NotSaved
        /\ \A j \in k + 1 .. Len(frames) : Declared(table, frames, j, n) = NotSaved
        BY <1>1, <1>7, InnermostDeclared
  <2>3. Declared(table, frames, k, n) = table[n]
        BY <1>7 DEF Declared
  <2>4. ASSUME NEW j \in k + 2 .. D PROVE E[j][n] = NotSaved
    <3>1. j \in 1 .. D /\ j - 1 \in k + 1 .. Len(frames)
          BY <1>1
    <3> QED BY <1>8, <2>2, <3>1
  <2> QED BY <1>8, <2>1, <2>2, <2>3, <2>4
<1>10. F = [E EXCEPT ![f + 1][n] = E[k + 1][n]]
  <2> DEFINE G == [E EXCEPT ![f + 1][n] = E[k + 1][n]]
  <2>1. E \in [1 .. D -> [Names -> Bindings \cup {NotSaved}]]
        /\ F \in [1 .. D -> [Names -> Bindings \cup {NotSaved}]]
        BY <1>8
  <2>2. f + 1 \in 1 .. D /\ E[k + 1][n] \in Bindings \cup {NotSaved}
        BY <1>1, <1>2, <1>9
  <2>3. G \in [1 .. D -> [Names -> Bindings \cup {NotSaved}]]
        BY <2>1, <2>2
  <2>4. ASSUME NEW i \in 1 .. D, NEW m \in Names
        PROVE  F[i][m] = G[i][m]
    <3>1. G[i][m] = IF i = f + 1 /\ m = n THEN table[n] ELSE E[i][m]
          BY <1>9, <2>1, <2>2
    <3>2. i - 1 \in 0 .. Len(frames) /\ (i - 1 = f <=> i = f + 1)
          BY <1>1, <1>2
    <3> QED BY <1>4, <1>8, <3>1, <3>2
  <2> HIDE DEF G, E, F
  <2>5. ASSUME NEW i \in 1 .. D PROVE F[i] = G[i]
        BY <2>1, <2>3, <2>4
  <2>6. F = G
        BY <2>1, <2>3, <2>5
  <2> QED BY <2>6 DEF G
<1>11. /\ f + 1 \in 2 .. D /\ k + 1 \in 1 .. D
       /\ Kinds(frames)[f + 1] = "function"
       /\ \A j \in f + 2 .. D : Kinds(frames)[j] # "function"
       /\ E[f + 1][n] = NotSaved
  <2>1. f + 1 \in 1 .. D /\ f + 1 # 1 /\ (f + 1) - 1 = f
        BY <1>1, <1>2
  <2>2. Kinds(frames)[f + 1] = "function"
        BY <1>2, <2>1 DEF Kinds
  <2>3. ASSUME NEW j \in f + 2 .. D PROVE Kinds(frames)[j] # "function"
    <3>1. j \in 1 .. D /\ j # 1 /\ j - 1 \in f + 1 .. Len(frames)
          BY <1>1, <1>2
    <3> QED BY <1>2, <3>1 DEF Kinds
  <2>4. Declared(table, frames, f, n) = NotSaved
        BY <1>1, <1>2 DEF Declared
  <2>5. f + 1 \in 2 .. D /\ k + 1 \in 1 .. D
        BY <1>1, <1>2
  <2> QED BY <1>8, <2>1, <2>2, <2>3, <2>4, <2>5
<1>12. /\ Env(table, frames)' = F /\ Args(frames, params)' = Args(frames, params)
       /\ Kinds(frames)' = Kinds(frames)
       BY <1>1, <1>6
<1>13. /\ (f + 1) + 1 = f + 2 /\ (k + 1) + 1 = k + 2
       BY <1>2, <1>7
<1> DEFINE a == f + 1
           b == k + 1
<1>14. /\ a \in 2 .. D /\ Kinds(frames)[a] = "function"
       /\ \A j \in a + 1 .. D : Kinds(frames)[j] # "function"
       /\ E[a][n] = NotSaved
       BY <1>11, <1>13
<1>15. /\ b \in 1 .. D /\ E[b][n] # NotSaved /\ \A j \in b + 1 .. D : E[j][n] = NotSaved
       BY <1>9, <1>11, <1>13
<1>16. F = [E EXCEPT ![a][n] = E[b][n]]
       BY <1>10
<1> HIDE DEF a, b, F, D, f
<1>17. \E g \in 2 .. D :
        /\ Kinds(frames)[g] = "function" /\ \A j \in g + 1 .. D : Kinds(frames)[j] # "function"
        /\ E[g][n] = NotSaved
        /\ \E i \in 1 .. D :
            /\ E[i][n] # NotSaved /\ \A j \in i + 1 .. D : E[j][n] = NotSaved
            /\ F = [E EXCEPT ![g][n] = E[i][n]]
       BY <1>14, <1>15, <1>16, Zenon
<1>18. Scopes!Depth = D
       BY <1>8 DEF Scopes!Depth, D
<1>19. \A i \in 1 .. D : Scopes!Innermost(n, i)
         <=> E[i][n] # NotSaved /\ \A j \in i + 1 .. D : E[j][n] = NotSaved
       BY <1>18, SameWords DEF Scopes!Innermost
<1> QED BY <1>12, <1>17, <1>18, <1>19, SameWords DEF Scopes!Declare

\* set -- and shift change the parameters of the innermost call.
LEMMA ParametersStep ==
    ASSUME VarsInv, params' \in Parameters, UNCHANGED <<table, frames>>
    PROVE  Scopes!SetParameters
<1> DEFINE D == Len(frames) + 1
<1>1. /\ table \in [Names -> Bindings] /\ frames \in Seq(Frames) /\ params \in Parameters
      /\ table' = table /\ frames' = frames
      BY DEF VarsInv, TypeOK
<1>2. Args(frames, params') \in Seq(Parameters) /\ Len(Args(frames, params')) = D
      /\ Len(Kinds(frames)) = D
      BY <1>1, StackOfScopes
<1>3. \A i \in 1 .. D - 1 : Args(frames, params')[i] = Args(frames, params)[i]
      BY <1>1 DEF Args
<1>4. /\ Env(table, frames)' = Env(table, frames) /\ Kinds(frames)' = Kinds(frames)
      /\ Args(frames, params)' = Args(frames, params')
      BY <1>1
<1> QED BY <1>2, <1>3, <1>4, SameWords DEF Scopes!SetParameters, Scopes!Depth

\* A sequence with one more element, as a function.
LEMMA AppendAsFunction ==
    ASSUME NEW S, NEW s \in Seq(S), NEW e \in S
    PROVE  Append(s, e) = [i \in 1 .. Len(s) + 1 |-> IF i = Len(s) + 1 THEN e ELSE s[i]]
<1> DEFINE k == Len(s) + 1
           a == Append(s, e)
           b == [i \in 1 .. k |-> IF i = k THEN e ELSE s[i]]
<1>1. a \in Seq(S) /\ Len(a) = k /\ k \in Nat
      OBVIOUS
<1>2. ASSUME NEW i \in 1 .. k PROVE a[i] = IF i = k THEN e ELSE s[i]
      BY AppendProperties
<1> HIDE DEF k, a
<1>3. a = [i \in 1 .. k |-> a[i]]
      BY <1>1
<1>4. a = b
      BY <1>2, <1>3
<1> QED BY <1>4 DEF a, k

\* A call begins.
LEMMA EnterStep ==
    ASSUME VarsInv, NEW call \in {"function", "script"}, NEW given \in Parameters,
           Enter(call, given)
    PROVE  Scopes!Enter(call)
<1> DEFINE frame == [kind |-> call, old_params |-> params, locals |-> [n \in Names |-> NotSaved]]
           L == Len(frames)
           gs == Append(frames, frame)
<1>1. /\ table \in [Names -> Bindings] /\ frames \in Seq(Frames) /\ params \in Parameters
      /\ table' = table /\ frames' = gs /\ params' = given
      BY DEF VarsInv, TypeOK, Enter
<1>2. frame \in Frames /\ \A m \in Names : frame.locals[m] = NotSaved
      BY <1>1 DEF Frames
<1>3. /\ Env(table, frames) = [i \in 1 .. L + 1 |-> [n \in Names |-> Declared(table, frames, i - 1, n)]]
      /\ Env(table, gs) = [i \in 1 .. Len(gs) + 1 |-> [n \in Names |-> Declared(table, gs, i - 1, n)]]
      BY DEF Env
<1>4. frame.kind = call /\ frame.old_params = params
      OBVIOUS
<1> HIDE DEF frame
<1>5. /\ gs \in Seq(Frames) /\ Len(gs) = L + 1 /\ gs[L + 1] = frame /\ L \in Nat
      /\ \A j \in 1 .. L : gs[j] = frames[j]
      BY <1>1, <1>2
<1>6. ASSUME NEW m \in Names
      PROVE  /\ \A i \in 0 .. L : Declared(table, gs, i, m) = Declared(table, frames, i, m)
             /\ Declared(table, gs, L + 1, m) = NotSaved
      BY <1>1, <1>2, DeclaredAfterEnter
<1> HIDE DEF gs
<1>7. ASSUME NEW i \in 1 .. L + 1
      PROVE  [n \in Names |-> Declared(table, gs, i - 1, n)]
               = [n \in Names |-> Declared(table, frames, i - 1, n)]
  <2>1. i - 1 \in 0 .. L
        BY <1>5
  <2> QED BY <1>6, <2>1
<1>8. [n \in Names |-> Declared(table, gs, (L + 2) - 1, n)] = [n \in Names |-> NotSaved]
  <2>1. (L + 2) - 1 = L + 1
        BY <1>5
  <2> QED BY <1>6, <2>1
<1>9. Env(table, gs) = Append(Env(table, frames), [n \in Names |-> NotSaved])
  <2> DEFINE E == Env(table, frames)
             none == [n \in Names |-> NotSaved]
             S == [Names -> Bindings \cup {NotSaved}]
  <2>1. E \in Seq(S) /\ Len(E) = L + 1
        BY <1>1, StackOfScopes
  <2>2. \A i \in 1 .. L + 1 : E[i] = [n \in Names |-> Declared(table, frames, i - 1, n)]
        BY <1>3
  <2>3. none \in S
        OBVIOUS
  <2>4. Len(gs) + 1 = L + 2
        BY <1>5
  <2>5. Env(table, gs) = [i \in 1 .. L + 2 |-> IF i = L + 2 THEN none ELSE E[i]]
    <3>1. ASSUME NEW i \in 1 .. L + 2
          PROVE  [n \in Names |-> Declared(table, gs, i - 1, n)] = IF i = L + 2 THEN none ELSE E[i]
      <4>1. i = L + 2 \/ i \in 1 .. L + 1
            BY <1>5
      <4>2. i \in 1 .. L + 1 => i # L + 2
            BY <1>5
      <4> QED BY <1>7, <1>8, <2>2, <4>1, <4>2
    <3> HIDE DEF E, none
    <3> QED BY <1>3, <2>4, <3>1
  <2> HIDE DEF E, none, S
  <2>6. Append(E, none) = [i \in 1 .. L + 2 |-> IF i = L + 2 THEN none ELSE E[i]]
    <3>1. Len(E) + 1 = L + 2
          BY <1>5, <2>1
    <3>2. Append(E, none) = [i \in 1 .. Len(E) + 1 |-> IF i = Len(E) + 1 THEN none ELSE E[i]]
          BY <2>1, <2>3, AppendAsFunction
    <3> QED BY <3>1, <3>2
  <2> QED BY <2>5, <2>6 DEF E, none
<1>10. /\ Args(gs, given) \in Seq(Parameters) /\ Len(Args(gs, given)) = L + 2
       /\ \A i \in 1 .. L + 1 : Args(gs, given)[i] = Args(frames, params)[i]
  <2>1. Args(gs, given) \in Seq(Parameters) /\ Len(Args(gs, given)) = L + 2
        BY <1>1, <1>5, StackOfScopes
  <2>2. ASSUME NEW i \in 1 .. L + 1
        PROVE  Args(gs, given)[i] = Args(frames, params)[i]
    <3>1. CASE i \in 1 .. L
          BY <1>5, <3>1 DEF Args
    <3>2. CASE i = L + 1
          BY <1>4, <1>5, <3>2 DEF Args
    <3> QED BY <1>5, <3>1, <3>2
  <2> QED BY <2>1, <2>2
<1>11. Kinds(gs) = Append(Kinds(frames), call)
  <2> DEFINE K == Kinds(frames)
             S == {"global", "function", "script"}
  <2>1. K \in Seq(S) /\ Len(K) = L + 1
    <3>1. ASSUME NEW i \in 1 .. L + 1
          PROVE  (IF i = 1 THEN "global" ELSE frames[i - 1].kind) \in S
      <4>1. i = 1 \/ i - 1 \in 1 .. L
            BY <1>5
      <4>2. \A j \in 1 .. L : frames[j].kind \in S
        <5>1. ASSUME NEW j \in 1 .. L PROVE frames[j].kind \in S
          <6>1. frames[j] \in Frames
                BY <1>1
          <6> QED BY <6>1 DEF Frames
        <5> QED BY <5>1
      <4> QED BY <4>1, <4>2
    <3>2. K \in [1 .. L + 1 -> S]
          BY <3>1 DEF Kinds
    <3> HIDE DEF K, S
    <3> QED BY <1>5, <3>2
  <2>2. Kinds(gs) = [i \in 1 .. L + 2 |-> IF i = L + 2 THEN call ELSE K[i]]
    <3>1. Len(gs) + 1 = L + 2
          BY <1>5
    <3>2. ASSUME NEW i \in 1 .. L + 2
          PROVE  (IF i = 1 THEN "global" ELSE gs[i - 1].kind) = IF i = L + 2 THEN call ELSE K[i]
      <4>1. CASE i = L + 2
        <5>1. i # 1 /\ i - 1 = L + 1
              BY <1>5, <4>1
        <5> QED BY <1>4, <1>5, <4>1, <5>1
      <4>2. CASE i = 1
        <5>1. i # L + 2 /\ i \in 1 .. L + 1
              BY <1>5, <4>2
        <5> QED BY <4>2, <5>1 DEF Kinds
      <4>3. CASE i # 1 /\ i # L + 2
        <5>1. i - 1 \in 1 .. L /\ i \in 1 .. L + 1
              BY <1>5, <4>3
        <5> QED BY <1>5, <4>3, <5>1 DEF Kinds
      <4> QED BY <4>1, <4>2, <4>3
    <3> HIDE DEF K
    <3> QED BY <3>1, <3>2 DEF Kinds
  <2> HIDE DEF K
  <2>3. Append(K, call) = [i \in 1 .. L + 2 |-> IF i = L + 2 THEN call ELSE K[i]]
    <3>1. Len(K) + 1 = L + 2
          BY <1>5, <2>1
    <3>2. Append(K, call) = [i \in 1 .. Len(K) + 1 |-> IF i = Len(K) + 1 THEN call ELSE K[i]]
          BY <2>1, AppendAsFunction
    <3> QED BY <3>1, <3>2
  <2> QED BY <2>2, <2>3 DEF K
<1>12. Len(Kinds(frames)) = L + 1
       BY <1>1, StackOfScopes
<1>13. /\ Env(table, frames)' = Env(table, gs) /\ Kinds(frames)' = Kinds(gs)
       /\ Args(frames, params)' = Args(gs, given)
       BY <1>1
<1>14. (L + 1) + 1 = L + 2
       BY <1>5
<1> HIDE DEF L
<1> QED BY <1>9, <1>10, <1>11, <1>12, <1>13, <1>14, SameWords DEF Scopes!Enter, Scopes!Depth

\* The beginning of a sequence, as a function.
LEMMA FrontAsFunction ==
    ASSUME NEW S, NEW s \in Seq(S), NEW k \in 0 .. Len(s)
    PROVE  SubSeq(s, 1, k) = [i \in 1 .. k |-> s[i]]
OBVIOUS

\* A call ends.
LEMMA LeaveStep ==
    ASSUME VarsInv, Leave
    PROVE  Scopes!Leave
<1> DEFINE L == Len(frames)
           gs == SubSeq(frames, 1, L - 1)
<1>1. /\ table \in [Names -> Bindings] /\ frames \in Seq(Frames) /\ params \in Parameters
      /\ L > 0 /\ L \in Nat
      /\ frames' = gs /\ params' = frames[L].old_params
      /\ table' = [n \in Names |-> IF frames[L].locals[n] = NotSaved THEN table[n]
                                   ELSE Restored(table[n], frames[L].locals[n])]
      BY DEF VarsInv, TypeOK, Leave, Top
<1>2. frames[L] \in Frames
      BY <1>1
<1>3. ASSUME NEW n \in Names
      PROVE  table'[n] = IF frames[L].locals[n] = NotSaved THEN table[n] ELSE frames[L].locals[n]
  <2>1. CASE frames[L].locals[n] = NotSaved
        BY <1>1, <2>1
  <2>2. CASE frames[L].locals[n] # NotSaved
    <3>1. frames[L].locals[n] \in Bindings
          BY <1>2, <2>2 DEF Frames
    <3> QED BY <1>1, <2>2, <3>1, RestoredIsSaved
  <2> QED BY <2>1, <2>2
<1>4. /\ gs \in Seq(Frames) /\ Len(gs) = L - 1
      /\ \A j \in 1 .. L - 1 : gs[j] = frames[j]
      BY <1>1, CallsButTheLast
<1>5. ASSUME NEW m \in Names, NEW i \in 0 .. L - 1
      PROVE  Declared(table', gs, i, m) = Declared(table, frames, i, m)
      BY <1>1, <1>3, DeclaredAfterLeave
<1> HIDE DEF gs
<1>6. Len(gs) + 1 = L /\ Len(frames) + 1 = L + 1 /\ L \in 0 .. L + 1
      BY <1>1, <1>4
<1>7. Env(table', gs) = SubSeq(Env(table, frames), 1, L)
  <2> DEFINE E == Env(table, frames)
             S == [Names -> Bindings \cup {NotSaved}]
  <2>1. E \in Seq(S) /\ Len(E) = L + 1
        /\ \A i \in 1 .. L : E[i] = [n \in Names |-> Declared(table, frames, i - 1, n)]
    <3>1. E \in Seq(S) /\ Len(E) = L + 1
          BY <1>1, StackOfScopes
    <3>2. \A i \in 1 .. L + 1 : E[i] = [n \in Names |-> Declared(table, frames, i - 1, n)]
          BY <1>1, StackOfScopes
    <3>3. \A i \in 1 .. L : i \in 1 .. L + 1
          BY <1>1
    <3> HIDE DEF E, S
    <3> QED BY <3>1, <3>2, <3>3
  <2>2. ASSUME NEW i \in 1 .. L
        PROVE  [n \in Names |-> Declared(table', gs, i - 1, n)] = E[i]
    <3>1. i - 1 \in 0 .. L - 1
          BY <1>1
    <3> QED BY <1>5, <2>1, <3>1
  <2>3. Env(table', gs) = [i \in 1 .. L |-> [n \in Names |-> Declared(table', gs, i - 1, n)]]
        BY <1>6 DEF Env
  <2> HIDE DEF E, S
  <2>4. SubSeq(E, 1, L) = [i \in 1 .. L |-> E[i]]
        BY <1>6, <2>1, FrontAsFunction
  <2>5. Env(table', gs) = [i \in 1 .. L |-> E[i]]
        BY <2>2, <2>3
  <2> QED BY <2>4, <2>5 DEF E
<1>8. Args(gs, frames[L].old_params) = SubSeq(Args(frames, params), 1, L)
  <2> DEFINE A == Args(frames, params)
  <2>1. A \in Seq(Parameters) /\ Len(A) = L + 1
        BY <1>1, <1>6, StackOfScopes
  <2>2. ASSUME NEW i \in 1 .. L
        PROVE  (IF i > Len(gs) THEN frames[L].old_params ELSE gs[i].old_params) = A[i]
    <3>1. A[i] = frames[i].old_params
          BY <1>1, <1>6 DEF Args
    <3>2. i = L \/ i \in 1 .. L - 1
          BY <1>1
    <3> QED BY <1>1, <1>4, <3>1, <3>2
  <2>3. Args(gs, frames[L].old_params)
          = [i \in 1 .. L |-> IF i > Len(gs) THEN frames[L].old_params ELSE gs[i].old_params]
        BY <1>6 DEF Args
  <2> HIDE DEF A
  <2>4. SubSeq(A, 1, L) = [i \in 1 .. L |-> A[i]]
        BY <1>6, <2>1, FrontAsFunction
  <2> QED BY <2>2, <2>3, <2>4 DEF A
<1>9. Kinds(gs) = SubSeq(Kinds(frames), 1, L)
  <2> DEFINE K == Kinds(frames)
             S == {K[i] : i \in 1 .. L + 1}
  <2>1. K \in Seq(S) /\ Len(K) = L + 1
    <3>1. K = [i \in 1 .. L + 1 |-> K[i]]
          BY <1>6 DEF Kinds
    <3> HIDE DEF K
    <3>2. K \in [1 .. L + 1 -> S]
          BY <3>1
    <3> HIDE DEF S
    <3> QED BY <1>1, <3>2
  <2>2. ASSUME NEW i \in 1 .. L
        PROVE  (IF i = 1 THEN "global" ELSE gs[i - 1].kind) = K[i]
    <3>1. i # 1 => i - 1 \in 1 .. L - 1
          BY <1>1
    <3>2. i \in 1 .. Len(frames) + 1
          BY <1>1
    <3> QED BY <1>4, <3>1, <3>2 DEF Kinds
  <2>3. Kinds(gs) = [i \in 1 .. L |-> IF i = 1 THEN "global" ELSE gs[i - 1].kind]
        BY <1>6 DEF Kinds
  <2> HIDE DEF K, S
  <2>4. SubSeq(K, 1, L) = [i \in 1 .. L |-> K[i]]
        BY <1>6, <2>1, FrontAsFunction
  <2> QED BY <2>2, <2>3, <2>4 DEF K
<1>10. Len(Kinds(frames)) = L + 1 /\ (L + 1) - 1 = L /\ L + 1 > 1
       BY <1>1, <1>6, StackOfScopes
<1>11. /\ Env(table, frames)' = Env(table', gs) /\ Kinds(frames)' = Kinds(gs)
       /\ Args(frames, params)' = Args(gs, frames[L].old_params)
       BY <1>1
<1> HIDE DEF L
<1> QED BY <1>7, <1>8, <1>9, <1>10, <1>11 DEF Scopes!Leave, Scopes!Depth

-----------------------------------------------------------------------------
(* Types.                                                                  *)

\* The assignments in front of a command are assignments to be made.
LEMMA AssignmentsArePending == SetLists \subseteq Seq(Pending)
<1>1. ASSUME NEW s \in OneSet PROVE s \in Seq(Pending)
  <2>1. PICK a \in [op : {"set"}, name : Names, value : Values] : s = <<a>>
        BY DEF OneSet
  <2>2. a \in Pending
        BY <2>1 DEF Pending
  <2> QED BY <2>1, <2>2
<1>2. ASSUME NEW a \in OneSet, NEW b \in OneSet PROVE a \o b \in Seq(Pending)
      BY <1>1
<1>3. ASSUME NEW s \in SetLists PROVE s \in Seq(Pending)
  <2>1. CASE s \in OneSet
        BY <1>1, <2>1
  <2>2. CASE s \notin OneSet
    <3>1. PICK a \in OneSet, b \in OneSet : s = a \o b
          BY <2>2 DEF SetLists
    <3> QED BY <1>2, <3>1
  <2> QED BY <2>1, <2>2
<1> QED BY <1>3

\* So are those that put the values back.
LEMMA RestoresArePending ==
    ASSUME TypeOK, NEW sets \in Seq(Pending)
    PROVE  RestoreOf(sets) \in Seq(Pending)
<1> DEFINE back(i) == LET v == table[sets[i].name] IN
               IF v.value \in Values THEN [op |-> "set", name |-> sets[i].name, value |-> v.value]
               ELSE [op |-> "unset", name |-> sets[i].name, value |-> Null]
<1>1. ASSUME NEW i \in 1 .. Len(sets) PROVE back(i) \in Pending
  <2>1. sets[i] \in Pending
        OBVIOUS
  <2> QED BY <2>1 DEF Pending
<1>2. RestoreOf(sets) = [i \in 1 .. Len(sets) |-> back(i)]
      BY DEF RestoreOf
<1> HIDE DEF back
<1>3. RestoreOf(sets) \in [1 .. Len(sets) -> Pending]
      BY <1>1, <1>2
<1> QED BY <1>3

\* A table in which one variable is replaced.
LEMMA ChangeType ==
    ASSUME TypeOK, NEW n \in Names, NEW v \in Bindings, Change(n, v)
    PROVE  /\ table' \in [Names -> Bindings]
           /\ \A m \in Names : table'[m] = IF m = n THEN v ELSE table[m]
BY DEF TypeOK, Change

\* What a command may make of one variable.
LEMMA OneVariableChanges ==
    ASSUME VarsInv, NEW n \in Names, NEW value \in Values \cup {Null},
           NEW v \in {shVarSet(table[n], value, FALSE), shVarUnset(table[n]),
                      shVarExport(table[n], value), shVarMakeReadOnly(table[n], value)},
           Change(n, v)
    PROVE  /\ table' \in [Names -> Bindings]
           /\ \A m \in Names : table[m].read_only =>
                 table'[m].read_only /\ table'[m].value = table[m].value
<1>1. table[n] \in Bindings /\ opt_allexport \in BOOLEAN
      BY DEF VarsInv, TypeOK
<1>2. v \in Bindings
  <2>1. FALSE \in BOOLEAN
        BY Zenon
  <2> QED BY <1>1, <2>1, VarFunctions
<1>3. ASSUME table[n].read_only PROVE v.read_only /\ v.value = table[n].value
  <2> DEFINE x == table[n]
  <2>1. x \in Bindings /\ x.read_only
        BY <1>1, <1>3
  <2> HIDE DEF x
  <2>2. \A w \in {shVarSet(x, value, FALSE), shVarUnset(x), shVarExport(x, value),
                  shVarMakeReadOnly(x, value)} : w.read_only /\ w.value = x.value
        BY <2>1, ReadOnlyKept
  <2> QED BY <2>2 DEF x
<1>4. /\ table' \in [Names -> Bindings]
      /\ \A m \in Names : table'[m] = IF m = n THEN v ELSE table[m]
      BY <1>2, ChangeType DEF VarsInv
<1> QED BY <1>3, <1>4

\* The commands that change the table alone.
LEMMA TableActions ==
    ASSUME VarsInv,
           \/ DoSet \/ DoUnset
           \/ \E n \in Names :
                \/ \E value \in Values \cup {Null} : builtinExport(n, value) \/ builtinReadonly(n, value)
                \/ builtinUnset(n)
                \/ \E value \in Values : builtinLocalAgain(n, value)
    PROVE  /\ UNCHANGED <<frames, params, prefixes, opt_allexport, interactive>>
           /\ todo' \in Seq(Pending) /\ flow' \in {"NONE", "EXIT"}
           /\ table' \in [Names -> Bindings]
           /\ \A m \in Names : table[m].read_only =>
                 table'[m].read_only /\ table'[m].value = table[m].value
<1>1. todo \in Seq(Pending) /\ flow \in {"NONE", "EXIT"}
      BY DEF VarsInv, TypeOK
<1>2. ASSUME todo # <<>>
      PROVE  /\ Head(todo) \in Pending /\ Tail(todo) \in Seq(Pending)
             /\ Head(todo).name \in Names /\ Head(todo).value \in Values \cup {Null}
  <2>1. Head(todo) \in Pending /\ Tail(todo) \in Seq(Pending)
        BY <1>1, <1>2
  <2> QED BY <2>1 DEF Pending
<1>3. CASE DoSet
  <2>1. Change(Head(todo).name, shVarSet(table[Head(todo).name], Head(todo).value, FALSE))
        BY <1>3 DEF DoSet
  <2>2. todo # <<>>
        BY <1>3 DEF DoSet
  <2>3. /\ table' \in [Names -> Bindings]
        /\ \A m \in Names : table[m].read_only =>
              table'[m].read_only /\ table'[m].value = table[m].value
        BY <1>2, <2>1, <2>2, OneVariableChanges
  <2> QED BY <1>1, <1>2, <1>3, <2>2, <2>3 DEF DoSet
<1>4. CASE DoUnset
  <2>1. Change(Head(todo).name, shVarUnset(table[Head(todo).name]))
        BY <1>4 DEF DoUnset
  <2>2. todo # <<>>
        BY <1>4 DEF DoUnset
  <2>3. /\ table' \in [Names -> Bindings]
        /\ \A m \in Names : table[m].read_only =>
              table'[m].read_only /\ table'[m].value = table[m].value
        BY <1>2, <2>1, <2>2, OneVariableChanges
  <2> QED BY <1>1, <1>2, <1>4, <2>2, <2>3 DEF DoUnset
<1>5. ASSUME NEW n \in Names, NEW value \in Values \cup {Null},
             NEW v \in {shVarSet(table[n], value, FALSE), shVarUnset(table[n]),
                        shVarExport(table[n], value), shVarMakeReadOnly(table[n], value)},
             Change(n, v)
      PROVE  /\ table' \in [Names -> Bindings]
             /\ \A m \in Names : table[m].read_only =>
                   table'[m].read_only /\ table'[m].value = table[m].value
      BY <1>5, OneVariableChanges
<1>6. CASE \E n \in Names :
             \/ \E value \in Values \cup {Null} : builtinExport(n, value) \/ builtinReadonly(n, value)
             \/ builtinUnset(n)
             \/ \E value \in Values : builtinLocalAgain(n, value)
  <2>1. \E n \in Names, value \in Values \cup {Null} :
            \E v \in {shVarSet(table[n], value, FALSE), shVarUnset(table[n]),
                      shVarExport(table[n], value), shVarMakeReadOnly(table[n], value)} :
                Change(n, v)
        BY <1>6 DEF builtinExport, builtinReadonly, builtinUnset, builtinLocalAgain
  <2>2. UNCHANGED <<frames, params, prefixes, todo, opt_allexport, interactive, flow>>
        BY <1>6 DEF builtinExport, builtinReadonly, builtinUnset, builtinLocalAgain
  <2> QED BY <1>1, <1>5, <2>1, <2>2
<1> QED BY <1>3, <1>4, <1>6

-----------------------------------------------------------------------------
(* The theorems.                                                           *)

\* Every step keeps the types and leaves scripts without copies.
LEMMA VarsInvStep ==
    ASSUME VarsInv, [Next]_vars
    PROVE  VarsInv'
<1>1. /\ table \in [Names -> Bindings] /\ frames \in Seq(Frames) /\ params \in Parameters
      /\ prefixes \in Seq([depth : Nat, restore : Seq(Pending)])
      /\ todo \in Seq(Pending) /\ opt_allexport \in BOOLEAN /\ interactive \in BOOLEAN
      /\ flow \in {"NONE", "EXIT"}
      /\ ScriptsSaveNothing
      BY DEF VarsInv, TypeOK
<1>2. CASE UNCHANGED vars
      BY <1>1, <1>2 DEF vars, VarsInv, TypeOK, ScriptsSaveNothing
<1>3. CASE \E s \in SetLists : Assign(s)
  <2>1. PICK s \in SetLists : Assign(s)
        BY <1>3
  <2>2. s \in Seq(Pending)
        BY AssignmentsArePending
  <2>3. todo' \in Seq(Pending)
    <3>1. ASSUME NEW i \in 1 .. Len(s) PROVE [s[i] EXCEPT !.op = "assign"] \in Pending
      <4>1. s[i] \in Pending
            BY <2>2
      <4> QED BY <4>1 DEF Pending
    <3>2. todo' \in [1 .. Len(s) -> Pending]
          BY <2>1, <3>1 DEF Assign
    <3> QED BY <2>2, <3>2
  <2> QED BY <1>1, <2>1, <2>3 DEF Assign, VarsInv, TypeOK, ScriptsSaveNothing
<1>4. CASE \E s \in SetLists : StartPrefix(s)
  <2>1. PICK s \in SetLists : StartPrefix(s)
        BY <1>4
  <2>2. s \in Seq(Pending) /\ RestoreOf(s) \in Seq(Pending)
        BY AssignmentsArePending, RestoresArePending DEF VarsInv
  <2>3. todo' \in Seq(Pending) /\ prefixes' \in Seq([depth : Nat, restore : Seq(Pending)])
    <3>1. [depth |-> Len(frames), restore |-> RestoreOf(s)] \in [depth : Nat, restore : Seq(Pending)]
          BY <1>1, <2>2
    <3> QED BY <1>1, <2>1, <2>2, <3>1 DEF StartPrefix
  <2> QED BY <1>1, <2>1, <2>3 DEF StartPrefix, VarsInv, TypeOK, ScriptsSaveNothing
<1>5. CASE \E s \in SetLists : SpecialPrefix(s)
  <2>1. PICK s \in SetLists : SpecialPrefix(s)
        BY <1>5
  <2>2. s \in Seq(Pending)
        BY AssignmentsArePending
  <2> QED BY <1>1, <2>1, <2>2 DEF SpecialPrefix, VarsInv, TypeOK, ScriptsSaveNothing
<1>6. CASE EndPrefix
  <2> DEFINE P == [depth : Nat, restore : Seq(Pending)]
  <2>1. prefixes # <<>> /\ prefixes \in Seq(P)
        BY <1>1, <1>6 DEF EndPrefix, PrefixOnTop
  <2> HIDE DEF P
  <2>4. prefixes[Len(prefixes)] \in P /\ SubSeq(prefixes, 1, Len(prefixes) - 1) \in Seq(P)
        BY <2>1
  <2> USE DEF P
  <2>2. prefixes[Len(prefixes)] \in [depth : Nat, restore : Seq(Pending)]
        BY <2>4
  <2>3. SubSeq(prefixes, 1, Len(prefixes) - 1) \in Seq([depth : Nat, restore : Seq(Pending)])
        BY <2>4
  <2> QED BY <1>1, <1>6, <2>2, <2>3 DEF EndPrefix, VarsInv, TypeOK, ScriptsSaveNothing
<1>7. CASE \/ DoSet \/ DoUnset
           \/ \E n \in Names :
                \/ \E value \in Values \cup {Null} : builtinExport(n, value) \/ builtinReadonly(n, value)
                \/ builtinUnset(n)
                \/ \E value \in Values : builtinLocalAgain(n, value)
  <2>1. /\ UNCHANGED <<frames, params, prefixes, opt_allexport, interactive>>
        /\ todo' \in Seq(Pending) /\ flow' \in {"NONE", "EXIT"} /\ table' \in [Names -> Bindings]
        BY <1>7, TableActions
  <2> QED BY <1>1, <2>1 DEF VarsInv, TypeOK, ScriptsSaveNothing
<1>8. CASE \E n \in Names, value \in Values : builtinLocal(n, value)
  <2>1. PICK n \in Names, value \in Values : builtinLocal(n, value)
        BY <1>8
  <2> DEFINE f == TopFunction
             saved == [frames[f].locals EXCEPT ![n] = table[n]]
             frame == [frames[f] EXCEPT !.locals = saved]
  <2>2. f \in 1 .. Len(frames) /\ frames[f].kind = "function"
        BY <2>1, TopFunctionIsLast DEF builtinLocal, VarsInv
  <2>3. frames[f] \in Frames
        BY <1>1, <2>2
  <2>4. frames' = [frames EXCEPT ![f] = frame]
        BY <2>1 DEF builtinLocal
  <2>5. saved \in [Names -> Bindings \cup {NotSaved}]
        BY <1>1, <2>3 DEF Frames
  <2> HIDE DEF saved, f
  <2>6. frame \in Frames /\ frame.kind = "function"
        BY <2>2, <2>3, <2>5 DEF Frames
  <2> HIDE DEF frame
  <2>7. /\ frames' \in Seq(Frames) /\ Len(frames') = Len(frames) /\ frames'[f] = frame
        /\ \A j \in 1 .. Len(frames) : j # f => frames'[j] = frames[j]
        BY <1>1, <2>2, <2>4, <2>6
  <2>8. ScriptsSaveNothing'
        BY <1>1, <2>6, <2>7 DEF ScriptsSaveNothing
  <2>9. todo' \in Seq(Pending)
    <3>1. [op |-> "set", name |-> n, value |-> value] \in Pending
          BY DEF Pending
    <3> QED BY <2>1, <3>1 DEF builtinLocal
  <2>10. UNCHANGED <<table, params, prefixes, opt_allexport, interactive, flow>>
        BY <2>1 DEF builtinLocal
  <2> QED BY <1>1, <2>7, <2>8, <2>9, <2>10 DEF VarsInv, TypeOK
<1>9. CASE \E value \in BOOLEAN : SetAllexport(value)
      BY <1>1, <1>9 DEF SetAllexport, VarsInv, TypeOK, ScriptsSaveNothing
<1>10. CASE \/ \E given \in ArgLists : setPositionalParams(given)
            \/ \E n \in 0 .. MaxParams : builtinShift(n)
  <2>1. params' \in Parameters
    <3>1. CASE \E given \in ArgLists : setPositionalParams(given)
          BY <3>1, ValuesAssumption DEF setPositionalParams
    <3>2. CASE \E n \in 0 .. MaxParams : builtinShift(n)
      <4>1. PICK n \in 0 .. MaxParams : builtinShift(n)
            BY <3>2
      <4>2. n \in Nat /\ n <= Len(params) /\ params \in Seq(Values)
        <5>1. MaxParams \in Nat /\ n <= Len(params)
              BY <4>1, ValuesAssumption DEF builtinShift
        <5> QED BY <1>1, <5>1 DEF Parameters
      <4>3. SubSeq(params, n + 1, Len(params)) \in Seq(Values)
            BY <4>2
      <4> QED BY <4>1, <4>3 DEF builtinShift, Parameters
    <3> QED BY <1>10, <3>1, <3>2
  <2> QED BY <1>1, <1>10, <2>1
          DEF setPositionalParams, builtinShift, VarsInv, TypeOK, ScriptsSaveNothing
<1>11. CASE \E given \in ArgLists, call \in {"function", "script"} : Enter(call, given)
  <2>1. PICK given \in ArgLists, call \in {"function", "script"} : Enter(call, given)
        BY <1>11
  <2> DEFINE frame == [kind |-> call, old_params |-> params, locals |-> [n \in Names |-> NotSaved]]
  <2>2. frame \in Frames /\ \A n \in Names : frame.locals[n] = NotSaved
        BY <1>1 DEF Frames
  <2>3. frames' = Append(frames, frame) /\ params' \in Parameters
        /\ UNCHANGED <<table, prefixes, todo, opt_allexport, interactive, flow>>
        BY <2>1, ValuesAssumption DEF Enter
  <2> HIDE DEF frame
  <2>4. /\ frames' \in Seq(Frames) /\ Len(frames') = Len(frames) + 1
        /\ frames'[Len(frames) + 1] = frame
        /\ \A j \in 1 .. Len(frames) : frames'[j] = frames[j]
        BY <1>1, <2>2, <2>3
  <2>5. ScriptsSaveNothing'
    <3>1. ASSUME NEW i \in 1 .. Len(frames') PROVE i \in 1 .. Len(frames) \/ i = Len(frames) + 1
          BY <1>1, <2>4
    <3> QED BY <1>1, <2>2, <2>4, <3>1 DEF ScriptsSaveNothing
  <2> QED BY <1>1, <2>3, <2>4, <2>5 DEF VarsInv, TypeOK
<1>12. CASE Leave
  <2>1. Len(frames) > 0 /\ frames' = SubSeq(frames, 1, Len(frames) - 1)
        BY <1>1, <1>12 DEF Leave
  <2>2. /\ frames' \in Seq(Frames) /\ Len(frames') = Len(frames) - 1
        /\ \A j \in 1 .. Len(frames) - 1 : frames'[j] = frames[j]
        BY <1>1, <2>1, CallsButTheLast
  <2>3. Top \in Frames
        BY <1>1, <2>1 DEF Top
  <2>4. params' \in Parameters
        BY <1>12, <2>3 DEF Leave, Frames
  <2>5. table' \in [Names -> Bindings]
    <3>1. ASSUME NEW n \in Names, Top.locals[n] # NotSaved
          PROVE  Restored(table[n], Top.locals[n]) \in Bindings
      <4>1. Top.locals[n] \in Bindings /\ table[n] \in Bindings
            BY <1>1, <2>3, <3>1 DEF Frames
      <4> QED BY <4>1, RestoredIsSaved
    <3> QED BY <1>1, <1>12, <3>1 DEF Leave
  <2>6. ScriptsSaveNothing'
    <3>1. \A i \in 1 .. Len(frames') : i \in 1 .. Len(frames) /\ i \in 1 .. Len(frames) - 1
          BY <1>1, <2>2
    <3> QED BY <1>1, <2>2, <3>1 DEF ScriptsSaveNothing
  <2> QED BY <1>1, <1>12, <2>2, <2>4, <2>5, <2>6 DEF Leave, VarsInv, TypeOK
<1> QED BY <1>2, <1>3, <1>4, <1>5, <1>6, <1>7, <1>8, <1>9, <1>10, <1>11, <1>12
        DEF Next, Assignments, Builtins, Calls, callFunction, builtinDot

\* A new shell: the environment's variables, and no scripts under way.
LEMMA VarsInvInit == ASSUME Init PROVE VarsInv
<1>1. PICK given \in Environment :
        table = [n \in Names |-> IF given[n] = "unset" THEN Unset
                    ELSE [value |-> given[n], exported |-> TRUE, read_only |-> FALSE]]
      BY DEF Init
<1>2. given \in [Names -> Values \cup {"unset"}]
      BY ValuesAssumption
<1>3. ASSUME NEW n \in Names
      PROVE  (IF given[n] = "unset" THEN Unset
              ELSE [value |-> given[n], exported |-> TRUE, read_only |-> FALSE]) \in Bindings
  <2>1. TRUE \in BOOLEAN /\ FALSE \in BOOLEAN
        BY Zenon
  <2>2. given[n] = "unset" \/ given[n] \in Values
        BY <1>2
  <2> QED BY <2>1, <2>2 DEF Bindings, VarTypes
<1>4. table \in [Names -> Bindings]
      BY <1>1, <1>3
<1>5. params \in Parameters /\ interactive \in BOOLEAN
      BY ValuesAssumption DEF Init
<1>6. opt_allexport \in BOOLEAN
  <2>1. opt_allexport = FALSE
        BY DEF Init
  <2> QED BY <2>1, Zenon
<1> QED BY <1>4, <1>5, <1>6 DEF Init, VarsInv, TypeOK, ScriptsSaveNothing

\* A new shell has one scope.
LEMMA ScopesInit == ASSUME Init PROVE Scopes!Init
<1> DEFINE s == [n \in Names |-> table[n]]
<1>1. /\ table \in [Names -> Bindings] /\ params \in Parameters /\ frames = <<>>
      /\ frames \in Seq(Frames) /\ Len(frames) = 0
      BY VarsInvInit DEF VarsInv, TypeOK, Init
<1>2. /\ Len(Env(table, frames)) = 1 /\ Args(frames, params) \in Seq(Parameters)
      /\ Len(Args(frames, params)) = 1
  <2>1. ASSUME NEW fs \in Seq(Frames)
        PROVE  /\ Len(Env(table, fs)) = Len(fs) + 1 /\ Args(fs, params) \in Seq(Parameters)
               /\ Len(Args(fs, params)) = Len(fs) + 1
    <3>1. table \in [Names -> Bindings] /\ params \in Parameters
          BY <1>1
    <3> QED BY <3>1, StackOfScopes
  <2>2. /\ Len(Env(table, frames)) = Len(frames) + 1 /\ Args(frames, params) \in Seq(Parameters)
        /\ Len(Args(frames, params)) = Len(frames) + 1
    <3>1. frames \in Seq(Frames)
          BY <1>1
    <3> QED BY <3>1, <2>1
  <2>3. Len(frames) + 1 = 1
        BY <1>1
  <2> HIDE DEF s
  <2> QED BY <2>2, <2>3
<1>3. Kinds(frames) = <<"global">>
      BY <1>1 DEF Kinds
<1>4. Env(table, frames) = <<s>>
  <2>1. ASSUME NEW n \in Names PROVE Declared(table, frames, 0, n) = table[n]
        BY <1>1 DEF Declared, SavedAfter
  <2>2. [n \in Names |-> Declared(table, frames, 0, n)] = s
        BY <2>1
  <2>3. Env(table, frames) = [i \in 1 .. 1 |-> [n \in Names |-> Declared(table, frames, i - 1, n)]]
        BY <1>1 DEF Env
  <2>4. \A i \in 1 .. 1 : i - 1 = 0
        OBVIOUS
  <2>5. Env(table, frames) = [i \in 1 .. 1 |-> s]
        BY <2>2, <2>3, <2>4
  <2> HIDE DEF s
  <2> QED BY <2>5
<1>5. <<s>> \in Seq([Names -> Bindings])
      BY <1>1
<1> QED BY <1>2, <1>3, <1>4, <1>5, SameWords DEF Scopes!Init

\* Every step of the shell is a step of the scopes, or changes none.
LEMMA ScopesStep ==
    ASSUME VarsInv, [Next]_vars
    PROVE  [Scopes!Next]_(Scopes!vars)
<1>1. ASSUME UNCHANGED <<table, frames, params>> PROVE UNCHANGED Scopes!vars
      BY <1>1 DEF Scopes!vars
<1>2. CASE UNCHANGED vars
      BY <1>1, <1>2 DEF vars
<1>3. CASE \/ \E s \in SetLists : Assign(s) \/ StartPrefix(s) \/ SpecialPrefix(s)
           \/ EndPrefix
           \/ \E value \in BOOLEAN : SetAllexport(value)
  <2>1. UNCHANGED <<table, frames, params>>
        BY <1>3 DEF Assign, StartPrefix, SpecialPrefix, EndPrefix, SetAllexport
  <2> QED BY <1>1, <2>1
<1>4. CASE \/ DoSet \/ DoUnset
           \/ \E n \in Names :
                \/ \E value \in Values \cup {Null} : builtinExport(n, value) \/ builtinReadonly(n, value)
                \/ builtinUnset(n)
                \/ \E value \in Values : builtinLocalAgain(n, value)
  <2>1. Scopes!Write
        BY <1>4, TableActions, TableStep
  <2> QED BY <2>1 DEF Scopes!Next
<1>5. CASE \E n \in Names, value \in Values : builtinLocal(n, value)
  <2>1. PICK n \in Names, value \in Values : builtinLocal(n, value)
        BY <1>5
  <2>2. Scopes!Declare(n)
        BY <2>1, DeclareStep
  <2> QED BY <2>2 DEF Scopes!Next
<1>6. CASE \/ \E given \in ArgLists : setPositionalParams(given)
           \/ \E n \in 0 .. MaxParams : builtinShift(n)
  <2>1. UNCHANGED <<table, frames>>
        BY <1>6 DEF setPositionalParams, builtinShift
  <2>2. params' \in Parameters
        BY VarsInvStep DEF VarsInv, TypeOK
  <2>3. Scopes!SetParameters
        BY <2>1, <2>2, ParametersStep
  <2> QED BY <2>3 DEF Scopes!Next
<1>7. CASE \E given \in ArgLists, call \in {"function", "script"} : Enter(call, given)
  <2>1. PICK given \in ArgLists, call \in {"function", "script"} : Enter(call, given)
        BY <1>7
  <2>2. given \in Parameters
        BY ValuesAssumption
  <2>3. Scopes!Enter(call)
        BY <2>1, <2>2, EnterStep
  <2> QED BY <2>3 DEF Scopes!Next
<1>8. CASE Leave
  <2>1. Scopes!Leave
        BY <1>8, LeaveStep
  <2> QED BY <2>1 DEF Scopes!Next
<1> QED BY <1>2, <1>3, <1>4, <1>5, <1>6, <1>7, <1>8
        DEF Next, Assignments, Builtins, Calls, callFunction, builtinDot

\* The table, the frames, the parameters and the pending assignments of
\* runSimpleCommand keep their types, however deep calls nest.
THEOREM VariablesTyped == Spec => []TypeOK
<1>1. Init => VarsInv
      BY VarsInvInit
<1>2. VarsInv /\ [Next]_vars => VarsInv'
      BY VarsInvStep
<1>3. VarsInv => TypeOK
      BY DEF VarsInv
<1> QED BY <1>1, <1>2, <1>3, PTL DEF Spec

\* Shallow binding (shVarMarkLocal and shPopLocalScope, with the parameters that
\* callFunction and builtinDot save) is dynamic scoping: for any names and
\* values, in calls nested to any depth, what local and the positional
\* parameters shadowed comes back, and a read-only variable keeps its value
\* while it is in scope.
THEOREM ShallowBindingIsScoping == Spec => ScopesRestored
<1>1. Init => VarsInv /\ Scopes!Init
      BY VarsInvInit, ScopesInit
<1>2. VarsInv /\ [Next]_vars => VarsInv'
      BY VarsInvStep
<1>3. VarsInv /\ [Next]_vars => [Scopes!Next]_(Scopes!vars)
      BY ScopesStep
<1> QED BY <1>1, <1>2, <1>3, PTL DEF Spec, ScopesRestored, Scopes!Spec

=============================================================================
