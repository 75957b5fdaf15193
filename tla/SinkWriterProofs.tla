-------------------------- MODULE SinkWriterProofs --------------------------
(***************************************************************************)
(* Theorems about SinkWriter, for any set of threads, any finite set of    *)
(* rows, any producers and any positive batch_rows: its variables keep     *)
(* their types, a row an insert returned for is never lost silently, none  *)
(* is stored twice, a close that can store leaves no row behind, and a     *)
(* full buffer shows in the health.                                        *)
(*                                                                         *)
(* The inductive invariant says what the lock gives: one thread at most is *)
(* inside a method, the rows in its hand are nowhere else, the buffer      *)
(* holds each row once, and no buffered row is stored except between a     *)
(* commit and the clearing of the buffer.                                  *)
(*                                                                         *)
(* What Kept returns is a recursion on the length of a sequence; the facts *)
(* about it come from the least counterexample, as naturals are            *)
(* well-founded.                                                           *)
(***************************************************************************)
EXTENDS SinkWriter, SequenceTheorems, FiniteSetTheorems, WellFoundedInduction, TLAPS
-----------------------------------------------------------------------------
(* What the judging of an insert keeps *)

\* A set of naturals has a least member.
LEMMA LeastExists ==
  ASSUME NEW S \in SUBSET Nat, S # {}
  PROVE  \E x \in S : \A y \in S : x <= y
<1> DEFINE R == OpToRel(<, Nat)
<1>1. IsWellFoundedOn(R, Nat)
  BY NatLessThanWellFounded
<1>2. \E x \in S : \A y \in S : ~(<<y, x>> \in R)
  <2> HIDE DEF R
  <2> QED  BY <1>1, WFMin, Zenon
<1>3. PICK x \in S : \A y \in S : ~(<<y, x>> \in R)
  BY <1>2
<1>4. ASSUME NEW y \in S
      PROVE  x <= y
  <2>1. ~(<<y, x>> \in {ss \in Nat \X Nat : ss[1] < ss[2]})
    BY <1>3 DEF OpToRel
  <2>2. ~(y < x)
    BY <2>1
  <2> QED  BY <2>2
<1> QED  BY <1>4

\* The recursion of Kept, and its solutions up to n.
KeepBody(s, g, n) ==
  IF n = 0 THEN <<>>
  ELSE IF ReadsOff(s[n]) THEN g[n - 1] ELSE Append(g[n - 1], s[n])
IsKeep(s, g, n) == g = [k \in 0 .. n |-> KeepBody(s, g, k)]

\* There is a solution: the least n without one would follow one that has it.
LEMMA KeepExists ==
  ASSUME NEW s, NEW n \in Nat
  PROVE  \E g : IsKeep(s, g, n)
<1> DEFINE Bad == {m \in Nat : ~\E g : IsKeep(s, g, m)}
<1>1. SUFFICES ASSUME Bad # {}
               PROVE  FALSE
  OBVIOUS
<1>2. PICK m \in Bad : \A l \in Bad : m <= l
  <2>1. Bad \in SUBSET Nat
    OBVIOUS
  <2> HIDE DEF Bad
  <2> QED  BY <1>1, <2>1, LeastExists
<1>3. CASE m = 0
  <2> DEFINE g == [k \in 0 .. 0 |-> <<>>]
  <2>1. IsKeep(s, g, 0)
    BY DEF IsKeep, KeepBody
  <2> QED  BY <1>3, <2>1
<1>4. CASE m # 0
  <2>1. m - 1 \in Nat /\ m - 1 \notin Bad
    BY <1>2, <1>4
  <2>2. PICK g : IsKeep(s, g, m - 1)
    BY <2>1
  <2> DEFINE h == [k \in 0 .. m |-> IF k < m THEN g[k] ELSE KeepBody(s, g, m)]
  <2>3. ASSUME NEW k \in 0 .. m
        PROVE  h[k] = KeepBody(s, h, k)
    <3>1. k # 0 => k - 1 \in 0 .. m /\ k - 1 < m /\ h[k - 1] = g[k - 1]
      OBVIOUS
    <3>2. KeepBody(s, h, k) = KeepBody(s, g, k)
      <4> HIDE DEF h
      <4> QED  BY <3>1 DEF KeepBody
    <3>3. k < m => g[k] = KeepBody(s, g, k)
      <4>1. k < m => k \in 0 .. m - 1
        OBVIOUS
      <4> QED  BY <2>2, <4>1 DEF IsKeep
    <3>4. h[k] = IF k < m THEN g[k] ELSE KeepBody(s, g, m)
      OBVIOUS
    <3>5. k < m \/ k = m
      OBVIOUS
    <3> HIDE DEF h
    <3> QED  BY <3>2, <3>3, <3>4, <3>5
  <2>4. IsKeep(s, h, m)
    <3>1. h = [k \in 0 .. m |-> h[k]]
      OBVIOUS
    <3> HIDE DEF h
    <3> QED  BY <2>3, <3>1 DEF IsKeep
  <2> QED  BY <1>2, <2>4
<1> QED  BY <1>3, <1>4

\* Kept is the last value of a solution.
LEMMA KeptIsLast ==
  ASSUME NEW s, Len(s) \in Nat
  PROVE  \E g : IsKeep(s, g, Len(s)) /\ Kept(s) = g[Len(s)]
<1> DEFINE keep == CHOOSE g : IsKeep(s, g, Len(s))
<1>1. IsKeep(s, keep, Len(s))
  BY KeepExists
<1>2. Kept(s) = keep[Len(s)]
  BY DEF Kept, IsKeep, KeepBody
<1> QED  BY <1>1, <1>2

\* A row appended is a row of the sequence.
LEMMA AppendRow ==
  ASSUME NEW s \in Seq(Rows), NEW r \in Rows
  PROVE  /\ Append(s, r) \in Seq(Rows) /\ RowsOf(Append(s, r)) = RowsOf(s) \cup {r}
         /\ IsInjective(s) /\ r \notin RowsOf(s) => IsInjective(Append(s, r))
<1> DEFINE t == Append(s, r)
           n == Len(s)
<1>1. /\ n \in Nat /\ DOMAIN s = 1 .. n /\ t \in Seq(Rows) /\ DOMAIN t = 1 .. n + 1
      /\ \A i \in 1 .. n : t[i] = s[i]
      /\ t[n + 1] = r
  BY LenProperties, AppendProperties
<1> HIDE DEF t, n
<1>2. RowsOf(t) = RowsOf(s) \cup {r}
  <2>1. 1 .. n + 1 = 1 .. n \cup {n + 1}
    BY <1>1
  <2> QED  BY <1>1, <2>1 DEF RowsOf
<1>3. ASSUME IsInjective(s), r \notin RowsOf(s)
      PROVE  IsInjective(t)
  <2>1. \A i \in 1 .. n : t[i] # r
    BY <1>1, <1>3 DEF RowsOf
  <2> QED  BY <1>1, <1>3, <2>1 DEF IsInjective
<1> QED  BY <1>1, <1>2, <1>3 DEF t

\* The kept rows of s: those that do not read off, once where s has them once.
LEMMA KeptRows ==
  ASSUME NEW s \in Seq(Rows)
  PROVE  /\ Kept(s) \in Seq(Rows)
         /\ RowsOf(Kept(s)) = {r \in RowsOf(s) : ~ReadsOff(r)}
         /\ IsInjective(s) => IsInjective(Kept(s))
<1> DEFINE n == Len(s)
<1>1. n \in Nat /\ DOMAIN s = 1 .. n /\ \A i \in 1 .. n : s[i] \in Rows
  BY LenProperties, ElementOfSeq
<1>2. PICK g : IsKeep(s, g, n) /\ Kept(s) = g[n]
  BY <1>1, KeptIsLast
<1> HIDE DEF n
<1> DEFINE Good(k) ==
      /\ g[k] \in Seq(Rows)
      /\ RowsOf(g[k]) = {s[i] : i \in {j \in 1 .. k : ~ReadsOff(s[j])}}
      /\ IsInjective(s) => IsInjective(g[k])
    Bad == {k \in 0 .. n : ~Good(k)}
<1>3. Bad = {}
  <2>1. SUFFICES ASSUME Bad # {}
                 PROVE  FALSE
    OBVIOUS
  <2>2. PICK m \in Bad : \A l \in Bad : m <= l
    <3>1. Bad \in SUBSET Nat
      BY <1>1
    <3> HIDE DEF Bad
    <3> QED  BY <2>1, <3>1, LeastExists
  <2>3. m \in 0 .. n /\ g[m] = KeepBody(s, g, m) /\ ~Good(m)
    BY <1>2, <2>2 DEF IsKeep
  <2>4. CASE m = 0
    <3>1. g[m] = <<>>
      BY <2>3, <2>4 DEF KeepBody
    <3>2. <<>> \in Seq(Rows) /\ RowsOf(<<>>) = {} /\ IsInjective(<<>>)
      BY EmptySeq DEF RowsOf, IsInjective
    <3>3. 1 .. m = {}
      BY <2>4
    <3>4. Good(m)
      BY <3>1, <3>2, <3>3
    <3> HIDE DEF Good
    <3> QED  BY <2>3, <3>4
  <2>5. CASE m # 0
    <3>1. m \in 1 .. n /\ m - 1 \in 0 .. n /\ 1 .. m = 1 .. m - 1 \cup {m}
      BY <1>1, <2>3, <2>5
    <3>2. Good(m - 1)
      <4>1. m \in Int /\ ~(m <= m - 1)
        BY <2>3
      <4>2. m - 1 \notin Bad
        <5> HIDE DEF Bad
        <5> QED  BY <2>2, <4>1
      <4> HIDE DEF Good
      <4> QED  BY <3>1, <4>2
    <3>3. g[m] = IF ReadsOff(s[m]) THEN g[m - 1] ELSE Append(g[m - 1], s[m])
      BY <2>3, <2>5 DEF KeepBody
    <3>4. CASE ReadsOff(s[m])
      <4>1. {j \in 1 .. m : ~ReadsOff(s[j])} = {j \in 1 .. m - 1 : ~ReadsOff(s[j])}
        BY <3>1, <3>4
      <4>2. Good(m)
        BY <3>2, <3>3, <3>4, <4>1
      <4> HIDE DEF Good
      <4> QED  BY <2>3, <4>2
    <3>5. CASE ~ReadsOff(s[m])
      <4>1. {j \in 1 .. m : ~ReadsOff(s[j])} = {j \in 1 .. m - 1 : ~ReadsOff(s[j])} \cup {m}
        BY <3>1, <3>5
      <4>2. /\ g[m] \in Seq(Rows) /\ RowsOf(g[m]) = RowsOf(g[m - 1]) \cup {s[m]}
            /\ IsInjective(g[m - 1]) /\ s[m] \notin RowsOf(g[m - 1]) => IsInjective(g[m])
        BY <1>1, <3>1, <3>2, <3>3, <3>5, AppendRow
      <4>3. RowsOf(g[m]) = {s[i] : i \in {j \in 1 .. m : ~ReadsOff(s[j])}}
        BY <3>2, <4>1, <4>2
      <4>4. IsInjective(s) => s[m] \notin RowsOf(g[m - 1])
        <5>1. \A j \in 1 .. m - 1 : j \in 1 .. n /\ j # m
          BY <1>1, <3>1
        <5> QED  BY <1>1, <3>1, <3>2, <5>1 DEF IsInjective
      <4>5. Good(m)
        BY <3>2, <4>2, <4>3, <4>4
      <4> HIDE DEF Good
      <4> QED  BY <2>3, <4>5
    <3> QED  BY <3>4, <3>5
  <2> QED  BY <2>4, <2>5
<1>4. Good(n)
  <2>1. n \in 0 .. n
    BY <1>1
  <2> HIDE DEF Good
  <2> QED  BY <1>3, <2>1
<1> QED  BY <1>1, <1>2, <1>4 DEF RowsOf
-----------------------------------------------------------------------------
(* Facts about the sequences a writer handles *)

\* The buffer's maximum is a positive number.
LEMMA MaxIsPositive == BufferMax \in Nat \ {0} /\ BatchRows < BufferMax
BY WriterAssumption DEF BufferMax

\* A sequence appended: the rows of both, each once if they are disjoint.
LEMMA ConcatRows ==
  ASSUME NEW s \in Seq(Rows), NEW u \in Seq(Rows)
  PROVE  /\ s \o u \in Seq(Rows)
         /\ RowsOf(s \o u) = RowsOf(s) \cup RowsOf(u)
         /\ \A i \in DOMAIN s : i \in DOMAIN (s \o u) /\ (s \o u)[i] = s[i]
         /\ IsInjective(s) /\ IsInjective(u) /\ RowsOf(s) \cap RowsOf(u) = {}
              => IsInjective(s \o u)
<1> DEFINE w == s \o u
           n == Len(s)
           m == Len(u)
<1>1. /\ n \in Nat /\ m \in Nat /\ w \in Seq(Rows)
      /\ DOMAIN s = 1 .. n /\ DOMAIN u = 1 .. m /\ DOMAIN w = 1 .. n + m
      /\ \A i \in 1 .. n + m : w[i] = IF i <= n THEN s[i] ELSE u[i - n]
  BY LenProperties, ConcatProperties
<1> HIDE DEF w, n, m
<1>2. \A i \in 1 .. n : i \in 1 .. n + m /\ w[i] = s[i]
  BY <1>1
<1>3. \A i \in 1 .. m : i + n \in 1 .. n + m /\ w[i + n] = u[i]
  BY <1>1
<1>4. \A i \in 1 .. n + m : i \in 1 .. n \/ i - n \in 1 .. m
  BY <1>1
<1>5. RowsOf(w) = RowsOf(s) \cup RowsOf(u)
  <2>1. RowsOf(w) \subseteq RowsOf(s) \cup RowsOf(u)
    <3>1. ASSUME NEW i \in 1 .. n + m
          PROVE  w[i] \in RowsOf(s) \cup RowsOf(u)
      <4>1. CASE i \in 1 .. n
        BY <1>1, <1>2, <4>1 DEF RowsOf
      <4>2. CASE i \notin 1 .. n
        <5>1. i - n \in 1 .. m /\ w[i] = u[i - n]
          BY <1>1, <1>4, <4>2
        <5> QED  BY <1>1, <5>1 DEF RowsOf
      <4> QED  BY <4>1, <4>2
    <3> QED  BY <1>1, <3>1 DEF RowsOf
  <2>2. RowsOf(s) \cup RowsOf(u) \subseteq RowsOf(w)
    <3>1. \A i \in 1 .. n : s[i] \in RowsOf(w)
      BY <1>1, <1>2 DEF RowsOf
    <3>2. ASSUME NEW i \in 1 .. m
          PROVE  u[i] \in RowsOf(w)
      <4>1. i + n \in DOMAIN w /\ w[i + n] = u[i]
        BY <1>1, <1>3
      <4> QED  BY <4>1 DEF RowsOf
    <3> QED  BY <1>1, <3>1, <3>2 DEF RowsOf
  <2> QED  BY <2>1, <2>2
<1>6. ASSUME IsInjective(s), IsInjective(u), RowsOf(s) \cap RowsOf(u) = {},
             NEW i \in 1 .. n + m, NEW j \in 1 .. n + m, w[i] = w[j]
      PROVE  i = j
  <2>1. CASE i \in 1 .. n /\ j \in 1 .. n
    BY <1>1, <1>2, <1>6, <2>1 DEF IsInjective
  <2>2. CASE i \notin 1 .. n /\ j \notin 1 .. n
    <3>1. i - n \in 1 .. m /\ j - n \in 1 .. m /\ u[i - n] = u[j - n]
      BY <1>1, <1>4, <1>6, <2>2
    <3>2. i - n = j - n
      BY <1>1, <1>6, <3>1 DEF IsInjective
    <3> QED  BY <1>1, <1>6, <3>2
  <2>3. ASSUME NEW k \in 1 .. n + m, NEW l \in 1 .. n + m, k \in 1 .. n, l \notin 1 .. n,
               w[k] = w[l]
        PROVE  FALSE
    <3>1. w[k] \in RowsOf(s)
      BY <1>1, <1>2, <2>3 DEF RowsOf
    <3>2. l - n \in 1 .. m /\ w[l] = u[l - n]
      BY <1>1, <1>4, <2>3
    <3>3. w[l] \in RowsOf(u)
      BY <1>1, <3>2 DEF RowsOf
    <3> QED  BY <1>6, <2>3, <3>1, <3>3
  <2> QED  BY <1>6, <2>1, <2>2, <2>3
<1>7. IsInjective(s) /\ IsInjective(u) /\ RowsOf(s) \cap RowsOf(u) = {} => IsInjective(w)
  BY <1>1, <1>6 DEF IsInjective
<1> QED  BY <1>1, <1>2, <1>5, <1>7 DEF w

\* What is left of a buffer that ran over: its first rows.
LEMMA TruncatedRows ==
  ASSUME NEW s \in Seq(Rows), Len(s) > BufferMax
  PROVE  /\ Truncated(s) \in Seq(Rows) /\ Len(Truncated(s)) = BufferMax
         /\ DOMAIN Truncated(s) = 1 .. BufferMax
         /\ \A i \in 1 .. BufferMax : i \in DOMAIN s /\ Truncated(s)[i] = s[i]
         /\ RowsOf(Truncated(s)) \subseteq RowsOf(s)
         /\ IsInjective(s) => IsInjective(Truncated(s))
<1> DEFINE u == Truncated(s)
<1>1. Len(s) \in Nat /\ DOMAIN s = 1 .. Len(s) /\ \A i \in 1 .. Len(s) : s[i] \in Rows
  BY LenProperties, ElementOfSeq
<1>2. BufferMax \in Nat \ {0}
  BY MaxIsPositive
<1>3. \A i \in 1 .. BufferMax : i \in 1 .. Len(s)
  BY <1>1, <1>2
<1>4. /\ u \in Seq(Rows) /\ Len(u) = BufferMax
      /\ \A i \in 1 .. BufferMax : u[i] = s[i]
  BY <1>1, <1>2, <1>3, SubSeqProperties DEF Truncated
<1>5. DOMAIN u = 1 .. BufferMax
  BY <1>4, LenProperties
<1> HIDE DEF u
<1>6. RowsOf(u) \subseteq RowsOf(s)
  BY <1>1, <1>3, <1>4, <1>5 DEF RowsOf
<1>7. IsInjective(s) => IsInjective(u)
  BY <1>1, <1>3, <1>4, <1>5 DEF IsInjective
<1> QED  BY <1>1, <1>3, <1>4, <1>5, <1>6, <1>7 DEF u

\* An order of a finite set of rows is a sequence of them, each once.
LEMMA OrdersAreSequences ==
  ASSUME NEW S \in SUBSET Rows, NEW s \in SetToSeqs(S), Cardinality(S) <= MaxInsert
  PROVE  s \in Seq(Rows) /\ Len(s) <= MaxInsert /\ RowsOf(s) \subseteq S /\ IsInjective(s)
<1>1. Cardinality(S) \in Nat
  BY WriterAssumption, FS_Subset, FS_CardinalityType
<1>2. s \in [1 .. Cardinality(S) -> S] /\ IsInjective(s)
  BY DEF SetToSeqs, IsInjective
<1>3. s \in Seq(Rows) /\ Len(s) = Cardinality(S)
  <2>1. s \in [1 .. Cardinality(S) -> Rows]
    BY <1>2
  <2>2. s \in Seq(Rows)
    BY <1>1, <2>1, SeqDef
  <2>3. DOMAIN s = 1 .. Len(s) /\ Len(s) \in Nat
    BY <2>2, LenProperties
  <2> QED  BY <1>1, <1>2, <2>2, <2>3
<1>4. RowsOf(s) \subseteq S
  BY <1>2 DEF RowsOf
<1> QED  BY <1>2, <1>3, <1>4

\* A transaction stores one copy of each row of an injective buffer.
LEMMA CopiesOfOne ==
  ASSUME NEW s \in Seq(Rows), IsInjective(s), NEW r \in Rows
  PROVE  Cardinality({i \in DOMAIN s : s[i] = r}) = IF r \in RowsOf(s) THEN 1 ELSE 0
<1>1. CASE r \in RowsOf(s)
  <2>1. PICK i \in DOMAIN s : s[i] = r
    BY <1>1 DEF RowsOf
  <2>2. {j \in DOMAIN s : s[j] = r} = {i}
    BY <2>1 DEF IsInjective
  <2> QED  BY <1>1, <2>2, FS_Singleton
<1>2. CASE r \notin RowsOf(s)
  <2>1. {j \in DOMAIN s : s[j] = r} = {}
    BY <1>2 DEF RowsOf
  <2> QED  BY <1>2, <2>1, FS_EmptySet
<1> QED  BY <1>1, <1>2
-----------------------------------------------------------------------------
(* The inductive invariant *)

\* A thread inside a method holds the lock; one outside has nothing in hand.
Locked ==
  \A t \in Threads :
    /\ pc[t] # "idle" => lock = t
    /\ pc[t] = "idle" => arg[t] = <<>>

\* Only an insert that has not yet met its trigger runs past the maximum.
Room == (\A t \in Threads : pc[t] # "trigger") => Len(buffer) <= BufferMax

\* The buffer and an insert hold each row once.
Distinct == IsInjective(buffer) /\ \A t \in Threads : IsInjective(arg[t])

\* Rows buffered or being inserted are not stored, but between a commit and
\* the clearing of the buffer.
Unstored ==
  /\ (\A t \in Threads : pc[t] # "clear") => \A r \in RowsOf(buffer) : stored[r] = 0
  /\ \A t \in Threads : pc[t] \in {"insert", "trigger"} =>
       \A r \in RowsOf(arg[t]) : stored[r] = 0

\* What an insert brings is not in the buffer yet; once judged, it is there
\* or was switched off.
Apart ==
  /\ \A t \in Threads : pc[t] = "insert" => RowsOf(arg[t]) \cap RowsOf(buffer) = {}
  /\ \A t \in Threads : pc[t] = "trigger" => RowsOf(arg[t]) \subseteq judgedOff \cup RowsOf(buffer)

\* A promised row is stored or among the rows an overflow would leave, and
\* stored by the time the buffer is cleared.
Safe ==
  /\ \A r \in promised : stored[r] > 0
                         \/ \E i \in DOMAIN buffer : i <= BufferMax /\ buffer[i] = r
  /\ (\E t \in Threads : pc[t] = "clear") => \A r \in promised : stored[r] > 0

\* A close that could store since it began still can, and is not over.
Ending == \A t \in sound : pc[t] \in {"flush", "clear"} /\ writable /\ Sendable(buffer)

WriterInv ==
  /\ TypeOK /\ Locked /\ Room /\ Distinct /\ Unstored /\ Apart /\ Safe /\ Ending
  /\ StoredOnce /\ HealthIsTrue /\ CloseStoresAll

\* The empty writer satisfies it.
LEMMA InitInv == Init => WriterInv
<1> SUFFICES ASSUME Init
             PROVE  WriterInv
  OBVIOUS
<1>1. buffer = <<>> /\ <<>> \in Seq(Rows) /\ Len(<<>>) = 0 /\ RowsOf(<<>>) = {} /\ IsInjective(<<>>)
  BY EmptySeq DEF Init, RowsOf, IsInjective
<1>2. 0 <= BufferMax /\ ~(0 >= BatchRows) /\ 0 <= MaxInsert
  BY WriterAssumption, MaxIsPositive
<1>3. TypeOK
  BY <1>1, <1>2 DEF Init, TypeOK
<1>4. Locked /\ Room /\ Distinct /\ Unstored /\ Apart
  BY <1>1, <1>2 DEF Init, Locked, Room, Distinct, Unstored, Apart
<1>5. Safe /\ Ending /\ StoredOnce /\ HealthIsTrue /\ CloseStoresAll
  BY <1>1, <1>2 DEF Init, Safe, Ending, StoredOnce, HealthIsTrue, CloseStoresAll
<1> QED  BY <1>3, <1>4, <1>5 DEF WriterInv

\* With the lock free every thread is idle; with t in a method the others are.
LEMMA OthersIdle ==
  ASSUME WriterInv
  PROVE  /\ lock = NoThread => \A u \in Threads : pc[u] = "idle"
         /\ \A t \in Threads : pc[t] # "idle" => lock = t /\ \A u \in Threads \ {t} : pc[u] = "idle"
BY WriterAssumption DEF WriterInv, Locked

\* No such close while no thread, or an insert, is inside.
LEMMA NoneEnding ==
  ASSUME WriterInv, lock = NoThread \/ \E t \in Threads : pc[t] \in {"insert", "trigger"}
  PROVE  sound = {}
BY OthersIdle DEF WriterInv, Ending, TypeOK

\* What an empty buffer and idle threads keep of the invariant.
LEMMA EmptyInv ==
  ASSUME WriterInv, buffer' = <<>>, stored' = stored, lock' = NoThread,
         \A u \in Threads : pc'[u] = "idle", Locked', Distinct', TypeOK',
         \A r \in promised' : stored[r] > 0, lostAtExit' = lostAtExit, sound' = {}
  PROVE  WriterInv'
<1>1. RowsOf(<<>>) = {} /\ Len(<<>>) = 0 /\ 0 <= BufferMax /\ ~(0 >= BatchRows)
  BY EmptySeq, MaxIsPositive, WriterAssumption DEF RowsOf
<1>2. Room' /\ Unstored' /\ Apart' /\ HealthIsTrue'
  BY <1>1 DEF Room, Unstored, Apart, HealthIsTrue
<1>3. Safe' /\ Ending' /\ StoredOnce' /\ CloseStoresAll'
  BY DEF WriterInv, Safe, Ending, StoredOnce, CloseStoresAll
<1> QED  BY <1>2, <1>3 DEF WriterInv
-----------------------------------------------------------------------------
(* The steps of a thread *)

\* An insert takes the lock with rows that are nowhere else.
LEMMA InsertInv ==
  ASSUME WriterInv, NEW t \in Threads, Insert(t)
  PROVE  WriterInv'
<1>1. /\ pc[t] = "idle" /\ lock = NoThread /\ lock' = t /\ pc' = [pc EXCEPT ![t] = "insert"]
      /\ UNCHANGED <<closing, buffer, conn, health, aged, stored, writable, enforced, off,
                     promised, judgedOff, sound, lostAtExit>>
  BY DEF Insert, LockFree, Goto, writer, switch, history, atExit
<1>2. PICK S \in SUBSET Fresh : \E s \in SetToSeqs(S) :
        Cardinality(S) <= MaxInsert /\ arg' = [arg EXCEPT ![t] = s]
  BY DEF Insert
<1>3. PICK s \in SetToSeqs(S) : Cardinality(S) <= MaxInsert /\ arg' = [arg EXCEPT ![t] = s]
  BY <1>2
<1>4. S \in SUBSET Rows
  BY DEF Fresh
<1>5. s \in Seq(Rows) /\ Len(s) <= MaxInsert /\ RowsOf(s) \subseteq S /\ IsInjective(s)
  BY <1>3, <1>4, OrdersAreSequences
<1>6. \A r \in RowsOf(s) : stored[r] = 0 /\ r \notin RowsOf(buffer)
  BY <1>5 DEF Fresh
<1> HIDE DEF Fresh
<1>7. \A u \in Threads : pc[u] = "idle"
  BY <1>1, OthersIdle
<1>8. pc' \in [Threads -> {"idle", "insert", "trigger", "flush", "clear"}]
      /\ \A u \in Threads : pc'[u] = IF u = t THEN "insert" ELSE "idle"
  BY <1>1, <1>7 DEF WriterInv, TypeOK
<1>9. /\ arg' \in [Threads -> Seq(Rows)]
      /\ \A u \in Threads : arg'[u] = IF u = t THEN s ELSE arg[u]
  BY <1>3, <1>5 DEF WriterInv, TypeOK
<1>10. TypeOK'
  BY <1>1, <1>5, <1>8, <1>9 DEF WriterInv, TypeOK
<1>11. Locked' /\ Room' /\ Distinct'
  BY <1>1, <1>5, <1>7, <1>8, <1>9 DEF WriterInv, Locked, Room, Distinct
<1>12. Unstored'
  BY <1>1, <1>6, <1>7, <1>8, <1>9 DEF WriterInv, Unstored, RowsOf
<1>13. Apart'
  BY <1>1, <1>6, <1>8, <1>9 DEF WriterInv, Apart
<1>14. Safe' /\ StoredOnce' /\ HealthIsTrue' /\ CloseStoresAll'
  BY <1>1, <1>8, WriterAssumption DEF WriterInv, Safe, StoredOnce, HealthIsTrue, CloseStoresAll
<1>15. Ending'
  BY <1>1, NoneEnding DEF Ending
<1> QED  BY <1>10, <1>11, <1>12, <1>13, <1>14, <1>15 DEF WriterInv

\* A flush or a close takes the lock.
LEMMA FlushInv ==
  ASSUME WriterInv, NEW t \in Threads, Flush(t) \/ (Close(t) /\ buffer # <<>>)
  PROVE  WriterInv'
<1>1. /\ pc[t] = "idle" /\ lock = NoThread /\ lock' = t /\ pc' = [pc EXCEPT ![t] = "flush"]
      /\ closing' \in {closing, closing \cup {t}}
      /\ sound' = sound \/ (writable /\ Sendable(buffer) /\ sound' = sound \cup {t})
      /\ UNCHANGED <<arg, buffer, conn, health, aged, stored, writable, enforced, off,
                     promised, judgedOff, lostAtExit>>
  BY DEF Flush, Close, LockFree, Goto, writer, switch, history, atExit
<1>2. \A u \in Threads : pc[u] = "idle"
  BY <1>1, OthersIdle
<1>3. pc' \in [Threads -> {"idle", "insert", "trigger", "flush", "clear"}]
      /\ \A u \in Threads : pc'[u] = IF u = t THEN "flush" ELSE "idle"
  BY <1>1, <1>2 DEF WriterInv, TypeOK
<1>4. TypeOK'
  BY <1>1, <1>3, WriterAssumption DEF WriterInv, TypeOK
<1>5. Locked' /\ Room' /\ Distinct' /\ Apart'
  BY <1>1, <1>2, <1>3 DEF WriterInv, Locked, Room, Distinct, Apart
<1>6. Unstored'
  BY <1>1, <1>2, <1>3 DEF WriterInv, Unstored, RowsOf
<1>7. Safe' /\ StoredOnce' /\ HealthIsTrue' /\ CloseStoresAll'
  BY <1>1, <1>3, WriterAssumption DEF WriterInv, Safe, StoredOnce, HealthIsTrue, CloseStoresAll
<1>8. Ending'
  BY <1>1, <1>3, NoneEnding DEF Ending, Sendable, RowsOf
<1> QED  BY <1>4, <1>5, <1>6, <1>7, <1>8 DEF WriterInv

\* With an empty buffer every promised row is stored, and a close is over.
LEMMA CloseInv ==
  ASSUME WriterInv, NEW t \in Threads, Close(t)
  PROVE  WriterInv'
<1>1. SUFFICES ASSUME buffer = <<>>
               PROVE  WriterInv'
  BY FlushInv
<1>2. /\ lock = NoThread /\ conn' = NoThread /\ lostAtExit' \in {lostAtExit, lostAtExit \cup Missing}
      /\ UNCHANGED <<lock, pc, arg, closing, buffer, health, aged, stored, writable, enforced, off,
                     promised, judgedOff, sound>>
  BY <1>1 DEF Close, LockFree, switch
<1>3. Missing = {}
  BY <1>1, EmptySeq DEF WriterInv, Safe, TypeOK, Missing
<1>4. TypeOK'
  BY <1>2, <1>3 DEF WriterInv, TypeOK
<1>5. \A u \in Threads : pc[u] = "idle"
  BY <1>2, OthersIdle
<1>6. Locked' /\ Distinct' /\ sound = {}
  BY <1>2, NoneEnding DEF WriterInv, Locked, Distinct
<1>7. \A r \in promised : stored[r] > 0
  BY <1>1 DEF WriterInv, Safe
<1> QED  BY <1>1, <1>2, <1>3, <1>4, <1>5, <1>6, <1>7, EmptyInv

\* The rows judged on join the buffer; the others are recorded as judged off.
LEMMA JudgeInv ==
  ASSUME WriterInv, NEW t \in Threads, Judge(t)
  PROVE  WriterInv'
<1>1. /\ pc[t] = "insert" /\ pc' = [pc EXCEPT ![t] = "trigger"]
      /\ UNCHANGED <<lock, arg, closing, conn, health, aged, stored, writable, enforced, off,
                     promised, sound, lostAtExit>>
  BY DEF Judge, Goto, switch, atExit
<1>2. lock = t /\ \A u \in Threads \ {t} : pc[u] = "idle"
  BY <1>1, OthersIdle
<1>3. pc' \in [Threads -> {"idle", "insert", "trigger", "flush", "clear"}]
      /\ \A u \in Threads : pc'[u] = IF u = t THEN "trigger" ELSE "idle"
  BY <1>1, <1>2 DEF WriterInv, TypeOK
<1> DEFINE s == arg[t]
<1>4. /\ s \in Seq(Rows) /\ IsInjective(s) /\ buffer \in Seq(Rows) /\ IsInjective(buffer)
      /\ RowsOf(s) \cap RowsOf(buffer) = {} /\ \A r \in RowsOf(s) : stored[r] = 0
      /\ RowsOf(s) \subseteq Rows /\ Len(buffer) <= BufferMax
  <2>1. s \in Seq(Rows) /\ buffer \in Seq(Rows)
    BY DEF WriterInv, TypeOK
  <2>2. RowsOf(s) \subseteq Rows
    BY <2>1, LenProperties, ElementOfSeq DEF RowsOf
  <2> QED  BY <1>1, <1>2, <2>1, <2>2 DEF WriterInv, Distinct, Apart, Unstored, Room
<1>5. \E x \in Seq(Rows) :
        /\ buffer' = buffer \o x /\ IsInjective(x) /\ RowsOf(x) \subseteq RowsOf(s)
        /\ judgedOff \subseteq judgedOff' /\ judgedOff' \subseteq Rows
        /\ RowsOf(s) \subseteq judgedOff' \cup RowsOf(x)
  <2>1. CASE /\ buffer' = buffer \o Kept(s)
             /\ judgedOff' = judgedOff \cup {r \in RowsOf(s) : ReadsOff(r)}
    <3>1. Kept(s) \in Seq(Rows) /\ RowsOf(Kept(s)) = {r \in RowsOf(s) : ~ReadsOff(r)}
          /\ IsInjective(Kept(s))
      BY <1>4, KeptRows
    <3> HIDE DEF s
    <3>2. RowsOf(s) \subseteq judgedOff' \cup RowsOf(Kept(s)) /\ RowsOf(Kept(s)) \subseteq RowsOf(s)
      BY <2>1, <3>1
    <3>3. judgedOff \subseteq judgedOff' /\ judgedOff' \subseteq Rows
      BY <1>4, <2>1 DEF WriterInv, TypeOK
    <3> QED  BY <2>1, <3>1, <3>2, <3>3
  <2>2. CASE buffer' = buffer \o s /\ UNCHANGED judgedOff
    BY <1>4, <2>2 DEF WriterInv, TypeOK
  <2> QED  BY <2>1, <2>2 DEF Judge
<1>6. PICK x \in Seq(Rows) :
        /\ buffer' = buffer \o x /\ IsInjective(x) /\ RowsOf(x) \subseteq RowsOf(s)
        /\ judgedOff \subseteq judgedOff' /\ judgedOff' \subseteq Rows
        /\ RowsOf(s) \subseteq judgedOff' \cup RowsOf(x)
  BY <1>5
<1> HIDE DEF s
<1>7. /\ buffer' \in Seq(Rows) /\ RowsOf(buffer') = RowsOf(buffer) \cup RowsOf(x)
      /\ \A i \in DOMAIN buffer : i \in DOMAIN buffer' /\ buffer'[i] = buffer[i]
      /\ IsInjective(buffer')
  BY <1>4, <1>6, ConcatRows
<1>8. TypeOK'
  BY <1>1, <1>2, <1>3, <1>6, <1>7, WriterAssumption DEF WriterInv, TypeOK
<1>9. Locked' /\ Room' /\ Distinct'
  BY <1>1, <1>2, <1>3, <1>7 DEF WriterInv, Locked, Room, Distinct
<1>10. \A r \in RowsOf(buffer') : stored[r] = 0
  <2>1. \A r \in RowsOf(buffer) : stored[r] = 0
    BY <1>1, <1>2 DEF WriterInv, Unstored
  <2> QED  BY <1>4, <1>6, <1>7, <2>1
<1>11. Unstored'
  BY <1>1, <1>3, <1>4, <1>10 DEF Unstored, s
<1>12. Apart'
  BY <1>1, <1>3, <1>6, <1>7 DEF Apart, s
<1>13. Safe'
  BY <1>1, <1>3, <1>7 DEF WriterInv, Safe
<1>14. StoredOnce' /\ HealthIsTrue' /\ CloseStoresAll'
  BY <1>1, <1>2, WriterAssumption DEF WriterInv, StoredOnce, HealthIsTrue, CloseStoresAll
<1>15. Ending'
  BY <1>1, NoneEnding DEF Ending
<1> QED  BY <1>8, <1>9, <1>11, <1>12, <1>13, <1>14, <1>15 DEF WriterInv

\* What leaving a method does to the threads.
LEMMA LeaveIdles ==
  ASSUME WriterInv, NEW t \in Threads, pc[t] # "idle", Leave(t)
  PROVE  /\ lock = t /\ lock' = NoThread
         /\ pc' \in [Threads -> {"idle", "insert", "trigger", "flush", "clear"}]
         /\ \A u \in Threads : pc'[u] = "idle"
         /\ arg' \in [Threads -> Seq(Rows)] /\ \A u \in Threads : arg'[u] = <<>>
         /\ 0 <= MaxInsert /\ Len(<<>>) = 0
         /\ closing' \subseteq Threads
         /\ Locked' /\ (IsInjective(buffer') => Distinct')
<1>1. lock = t /\ \A u \in Threads \ {t} : pc[u] = "idle"
  BY OthersIdle
<1>2. /\ lock' = NoThread /\ pc' = [pc EXCEPT ![t] = "idle"] /\ arg' = [arg EXCEPT ![t] = <<>>]
      /\ closing' = closing \ {t}
  BY DEF Leave, Goto
<1>3. <<>> \in Seq(Rows) /\ Len(<<>>) = 0 /\ IsInjective(<<>>) /\ 0 <= MaxInsert
  BY EmptySeq, WriterAssumption DEF IsInjective
<1>4. pc' \in [Threads -> {"idle", "insert", "trigger", "flush", "clear"}]
      /\ \A u \in Threads : pc'[u] = "idle"
  BY <1>1, <1>2 DEF WriterInv, TypeOK
<1>5. arg' \in [Threads -> Seq(Rows)] /\ \A u \in Threads : arg'[u] = <<>>
  BY <1>1, <1>2, <1>3 DEF WriterInv, TypeOK, Locked
<1>6. closing' \subseteq Threads
  BY <1>2 DEF WriterInv, TypeOK
<1>7. Locked' /\ (IsInjective(buffer') => Distinct')
  BY <1>3, <1>4, <1>5 DEF Locked, Distinct
<1> QED  BY <1>1, <1>2, <1>3, <1>4, <1>5, <1>6, <1>7

\* An overflow leaves the first rows, among them every promised one.
LEMMA OverflowInv ==
  ASSUME WriterInv, NEW t \in Threads, Overflow(t)
  PROVE  WriterInv'
<1>1. /\ pc[t] = "trigger" /\ Len(buffer) > BufferMax /\ buffer' = Truncated(buffer)
      /\ health' = "degraded" /\ Leave(t)
      /\ UNCHANGED <<conn, aged, stored, writable, enforced, off, promised, judgedOff, sound, lostAtExit>>
  BY DEF Overflow, switch, history, atExit
<1>2. /\ lock = t /\ lock' = NoThread
      /\ pc' \in [Threads -> {"idle", "insert", "trigger", "flush", "clear"}]
      /\ \A u \in Threads : pc'[u] = "idle"
      /\ arg' \in [Threads -> Seq(Rows)] /\ \A u \in Threads : arg'[u] = <<>>
      /\ 0 <= MaxInsert /\ Len(<<>>) = 0
      /\ closing' \subseteq Threads
      /\ Locked' /\ (IsInjective(buffer') => Distinct')
  BY <1>1, LeaveIdles
<1>3. buffer \in Seq(Rows) /\ IsInjective(buffer)
  BY DEF WriterInv, TypeOK, Distinct
<1>4. /\ buffer' \in Seq(Rows) /\ Len(buffer') = BufferMax
      /\ DOMAIN buffer' = 1 .. BufferMax
      /\ \A i \in 1 .. BufferMax : buffer'[i] = buffer[i]
      /\ RowsOf(buffer') \subseteq RowsOf(buffer)
      /\ IsInjective(buffer')
  BY <1>1, <1>3, TruncatedRows
<1>5. BufferMax \in Nat /\ DOMAIN buffer = 1 .. Len(buffer) /\ Len(buffer) \in Nat
  BY <1>3, MaxIsPositive, LenProperties
<1>6. TypeOK'
  BY <1>1, <1>2, <1>4, <1>5, WriterAssumption DEF WriterInv, TypeOK
<1>7. Locked' /\ Distinct' /\ Room'
  BY <1>2, <1>4, <1>5 DEF Room
<1>8. Unstored' /\ Apart'
  <2>1. \A u \in Threads : pc[u] # "clear"
    BY <1>1, <1>2, OthersIdle
  <2> QED  BY <1>1, <1>2, <1>4, <2>1 DEF WriterInv, Unstored, Apart
<1>9. Safe'
  BY <1>1, <1>2, <1>4, <1>5 DEF WriterInv, Safe
<1>10. StoredOnce' /\ HealthIsTrue' /\ CloseStoresAll'
  BY <1>1 DEF WriterInv, StoredOnce, HealthIsTrue, CloseStoresAll
<1>11. Ending'
  BY <1>1, NoneEnding DEF Ending
<1> QED  BY <1>6, <1>7, <1>8, <1>9, <1>10, <1>11 DEF WriterInv

\* The trigger promises the insert's rows, and ends it unless a flush is due.
LEMMA TriggerInv ==
  ASSUME WriterInv, NEW t \in Threads, Trigger(t)
  PROVE  WriterInv'
<1>1. /\ pc[t] = "trigger" /\ Len(buffer) <= BufferMax
      /\ promised' = promised \cup (RowsOf(arg[t]) \ judgedOff)
      /\ UNCHANGED <<buffer, conn, health, aged, stored, writable, enforced, off, judgedOff,
                     sound, lostAtExit>>
  BY DEF Trigger, Promise, writer, switch, atExit
<1>2. lock = t /\ \A u \in Threads \ {t} : pc[u] = "idle"
  BY <1>1, OthersIdle
<1>3. /\ arg[t] \in Seq(Rows) /\ RowsOf(arg[t]) \subseteq Rows
      /\ buffer \in Seq(Rows) /\ Len(buffer) \in Nat /\ DOMAIN buffer = 1 .. Len(buffer)
      /\ BufferMax \in Nat
  <2>1. arg[t] \in Seq(Rows) /\ buffer \in Seq(Rows)
    BY DEF WriterInv, TypeOK
  <2> QED  BY <2>1, LenProperties, ElementOfSeq, MaxIsPositive DEF RowsOf
<1>4. promised' \subseteq Rows
  BY <1>1, <1>3 DEF WriterInv, TypeOK
<1>5. \A r \in promised' : stored[r] > 0
                           \/ \E i \in DOMAIN buffer : i <= BufferMax /\ buffer[i] = r
  <2>1. ASSUME NEW r \in RowsOf(arg[t]) \ judgedOff
        PROVE  \E i \in DOMAIN buffer : i <= BufferMax /\ buffer[i] = r
    <3>1. r \in RowsOf(buffer)
      BY <1>1, <2>1 DEF WriterInv, Apart
    <3>2. PICK i \in DOMAIN buffer : buffer[i] = r
      BY <3>1 DEF RowsOf
    <3>3. i <= BufferMax
      BY <1>1, <1>3
    <3> QED  BY <3>2, <3>3
  <2>2. \A r \in promised : stored[r] > 0
                            \/ \E i \in DOMAIN buffer : i <= BufferMax /\ buffer[i] = r
    BY DEF WriterInv, Safe
  <2> QED  BY <1>1, <2>1, <2>2
<1>6. IsInjective(buffer) /\ \A r \in RowsOf(buffer) : stored[r] = 0
  BY <1>1, <1>2 DEF WriterInv, Distinct, Unstored
<1>7. StoredOnce' /\ CloseStoresAll' /\ Ending'
  BY <1>1, NoneEnding DEF WriterInv, StoredOnce, CloseStoresAll, Ending
<1>8. CASE Goto(t, "flush") /\ UNCHANGED <<lock, arg, closing>>
  <2>1. pc' \in [Threads -> {"idle", "insert", "trigger", "flush", "clear"}]
        /\ \A u \in Threads : pc'[u] = IF u = t THEN "flush" ELSE "idle"
    BY <1>2, <1>8 DEF WriterInv, TypeOK, Goto
  <2>2. TypeOK'
    BY <1>1, <1>2, <1>4, <1>8, <2>1, WriterAssumption DEF WriterInv, TypeOK
  <2>3. Locked' /\ Room' /\ Distinct'
    BY <1>1, <1>2, <1>8, <2>1 DEF WriterInv, Locked, Room, Distinct
  <2>4. Unstored' /\ Apart'
    BY <1>1, <1>6, <1>8, <2>1 DEF Unstored, Apart
  <2>5. Safe' /\ HealthIsTrue'
    BY <1>1, <1>2, <1>5, <1>8, <2>1, WriterAssumption DEF Safe, HealthIsTrue
  <2> QED  BY <1>7, <2>2, <2>3, <2>4, <2>5 DEF WriterInv
<1>9. CASE ~SizeTrigger /\ Leave(t)
  <2>1. /\ lock = t /\ lock' = NoThread
        /\ pc' \in [Threads -> {"idle", "insert", "trigger", "flush", "clear"}]
        /\ \A u \in Threads : pc'[u] = "idle"
        /\ arg' \in [Threads -> Seq(Rows)] /\ \A u \in Threads : arg'[u] = <<>>
        /\ 0 <= MaxInsert /\ Len(<<>>) = 0
        /\ closing' \subseteq Threads
        /\ Locked' /\ (IsInjective(buffer') => Distinct')
    BY <1>1, <1>9, LeaveIdles
  <2>2. TypeOK'
    BY <1>1, <1>4, <2>1, WriterAssumption DEF WriterInv, TypeOK
  <2>3. Locked' /\ Room' /\ Distinct'
    BY <1>1, <1>6, <2>1 DEF Room
  <2>4. Unstored' /\ Apart'
    BY <1>1, <1>6, <2>1 DEF Unstored, Apart
  <2>5. Safe'
    BY <1>1, <1>5, <2>1 DEF Safe
  <2>6. HealthIsTrue'
    BY <1>1, <1>9 DEF HealthIsTrue, SizeTrigger
  <2> QED  BY <1>7, <2>2, <2>3, <2>4, <2>5, <2>6 DEF WriterInv
<1> QED  BY <1>8, <1>9 DEF Trigger

\* A commit stores one copy of every buffered row.
LEMMA FlushCommitsInv ==
  ASSUME WriterInv, NEW t \in Threads, FlushCommits(t)
  PROVE  WriterInv'
<1>1. /\ pc[t] = "flush" /\ pc' = [pc EXCEPT ![t] = "clear"] /\ conn' \in {conn, t}
      /\ stored' = [r \in Rows |-> stored[r] + Cardinality({i \in DOMAIN buffer : buffer[i] = r})]
      /\ UNCHANGED <<lock, arg, closing, buffer, health, aged, writable, enforced, off,
                     promised, judgedOff, sound, lostAtExit>>
  BY DEF FlushCommits, Goto, switch, history, atExit
<1>2. lock = t /\ \A u \in Threads \ {t} : pc[u] = "idle"
  BY <1>1, OthersIdle
<1>3. pc' \in [Threads -> {"idle", "insert", "trigger", "flush", "clear"}]
      /\ \A u \in Threads : pc'[u] = IF u = t THEN "clear" ELSE "idle"
  BY <1>1, <1>2 DEF WriterInv, TypeOK
<1>4. /\ buffer \in Seq(Rows) /\ IsInjective(buffer) /\ promised \subseteq Rows
      /\ stored \in [Rows -> Nat] /\ \A r \in RowsOf(buffer) : stored[r] = 0
  BY <1>1, <1>2 DEF WriterInv, TypeOK, Distinct, Unstored
<1>5. ASSUME NEW r \in Rows
      PROVE  stored'[r] = IF r \in RowsOf(buffer) THEN 1 ELSE stored[r]
  <2>1. Cardinality({i \in DOMAIN buffer : buffer[i] = r}) = IF r \in RowsOf(buffer) THEN 1 ELSE 0
    BY <1>4, CopiesOfOne
  <2>2. stored'[r] = stored[r] + Cardinality({i \in DOMAIN buffer : buffer[i] = r})
    BY <1>1
  <2> QED  BY <1>4, <2>1, <2>2
<1>6. stored' \in [Rows -> Nat]
  BY <1>1, <1>4, <1>5
<1>7. TypeOK'
  BY <1>1, <1>2, <1>3, <1>6, WriterAssumption DEF WriterInv, TypeOK
<1>8. Locked' /\ Room' /\ Distinct'
  BY <1>1, <1>2, <1>3 DEF WriterInv, Locked, Room, Distinct
<1>9. Unstored' /\ Apart'
  BY <1>3 DEF Unstored, Apart
<1>10. \A r \in promised : stored'[r] > 0
  <2>1. ASSUME NEW r \in promised
        PROVE  stored'[r] > 0
    <3>1. stored[r] > 0 \/ r \in RowsOf(buffer)
      BY DEF WriterInv, Safe, RowsOf
    <3> QED  BY <1>4, <1>5, <3>1
  <2> QED  BY <2>1
<1>11. Safe'
  BY <1>1, <1>10 DEF Safe
<1>12. StoredOnce'
  BY <1>5 DEF WriterInv, StoredOnce
<1>13. HealthIsTrue' /\ CloseStoresAll'
  BY <1>1, <1>2, WriterAssumption DEF WriterInv, HealthIsTrue, CloseStoresAll
<1>14. Ending'
  BY <1>1, <1>2, <1>3 DEF WriterInv, Ending, TypeOK, Sendable, RowsOf
<1> QED  BY <1>7, <1>8, <1>9, <1>11, <1>12, <1>13, <1>14 DEF WriterInv

\* A flush that fails leaves the rows and says so in the health.
LEMMA FlushFailsInv ==
  ASSUME WriterInv, NEW t \in Threads, FlushFails(t)
  PROVE  WriterInv'
<1>1. /\ pc[t] = "flush" /\ conn' = NoThread /\ health' = Degrade
      /\ t \notin sound /\ UNCHANGED <<sound, lostAtExit>> /\ Leave(t)
      /\ UNCHANGED <<buffer, aged, stored, writable, enforced, off, promised, judgedOff>>
  BY DEF FlushFails, Usable, Return, switch, WriterInv, Ending
<1>2. /\ lock = t /\ lock' = NoThread
      /\ pc' \in [Threads -> {"idle", "insert", "trigger", "flush", "clear"}]
      /\ \A u \in Threads : pc'[u] = "idle"
      /\ arg' \in [Threads -> Seq(Rows)] /\ \A u \in Threads : arg'[u] = <<>>
      /\ 0 <= MaxInsert /\ Len(<<>>) = 0
      /\ closing' \subseteq Threads
      /\ Locked' /\ (IsInjective(buffer') => Distinct')
  BY <1>1, LeaveIdles
<1>3. \A u \in Threads : pc[u] \notin {"trigger", "clear"}
  BY <1>1, <1>2, OthersIdle
<1>4. Len(buffer) <= BufferMax /\ IsInjective(buffer) /\ \A r \in RowsOf(buffer) : stored[r] = 0
  BY <1>3 DEF WriterInv, Room, Distinct, Unstored
<1>5. TypeOK'
  BY <1>1, <1>2, <1>4 DEF WriterInv, TypeOK, Degrade
<1>6. Locked' /\ Room' /\ Distinct'
  BY <1>1, <1>2, <1>4 DEF Room
<1>7. Unstored' /\ Apart'
  BY <1>1, <1>2, <1>4 DEF Unstored, Apart
<1>8. Safe'
  BY <1>1, <1>2 DEF WriterInv, Safe
<1>9. StoredOnce' /\ HealthIsTrue' /\ CloseStoresAll'
  BY <1>1 DEF WriterInv, StoredOnce, HealthIsTrue, CloseStoresAll, Degrade
<1>10. Ending'
  <2>1. sound = {}
    BY <1>1, <1>2, OthersIdle DEF WriterInv, Ending, TypeOK
  <2> QED  BY <1>1, <2>1 DEF Ending
<1> QED  BY <1>5, <1>6, <1>7, <1>8, <1>9, <1>10 DEF WriterInv

\* The buffer is cleared once its rows are stored.
LEMMA FlushClearsInv ==
  ASSUME WriterInv, NEW t \in Threads, FlushClears(t)
  PROVE  WriterInv'
<1>1. /\ pc[t] = "clear" /\ buffer' = <<>> /\ aged' = FALSE /\ health' = "ok"
      /\ conn' \in {NoThread, conn} /\ Leave(t) /\ sound' = sound \ {t} /\ Missing = {}
      /\ UNCHANGED <<stored, writable, enforced, off, promised, judgedOff, lostAtExit>>
  <2>1. pc[t] = "clear" /\ Missing = {}
    BY DEF FlushClears, WriterInv, Safe, TypeOK, Missing
  <2> QED  BY <2>1 DEF FlushClears, Return, switch
<1>2. /\ lock = t /\ lock' = NoThread
      /\ pc' \in [Threads -> {"idle", "insert", "trigger", "flush", "clear"}]
      /\ \A u \in Threads : pc'[u] = "idle"
      /\ arg' \in [Threads -> Seq(Rows)] /\ \A u \in Threads : arg'[u] = <<>>
      /\ 0 <= MaxInsert /\ Len(<<>>) = 0
      /\ closing' \subseteq Threads
      /\ Locked' /\ (IsInjective(buffer') => Distinct')
  BY <1>1, LeaveIdles
<1>3. <<>> \in Seq(Rows) /\ Len(<<>>) = 0 /\ 0 <= BufferMax /\ IsInjective(<<>>)
  BY EmptySeq, MaxIsPositive DEF IsInjective
<1>4. TypeOK'
  BY <1>1, <1>2, <1>3 DEF WriterInv, TypeOK
<1>5. \A r \in promised' : stored[r] > 0
  BY <1>1 DEF WriterInv, Safe
<1>6. sound' = {}
  BY <1>1, <1>2, OthersIdle DEF WriterInv, Ending, TypeOK
<1> QED  BY <1>1, <1>2, <1>3, <1>4, <1>5, <1>6, EmptyInv
-----------------------------------------------------------------------------
(* The steps of the rest of the world *)

\* The process ends without a close: only stored rows are still promised.
LEMMA CrashInv ==
  ASSUME WriterInv, Crash
  PROVE  WriterInv'
<1>1. /\ lock' = NoThread /\ pc' = [t \in Threads |-> "idle"]
      /\ arg' = [t \in Threads |-> <<>>] /\ closing' = {}
      /\ buffer' = <<>> /\ conn' = NoThread /\ health' = "ok" /\ aged' = FALSE
      /\ promised' = {r \in promised : stored[r] > 0}
      /\ sound' = {} /\ UNCHANGED <<stored, writable, enforced, off, judgedOff, lostAtExit>>
  BY DEF Crash, switch
<1>2. /\ <<>> \in Seq(Rows) /\ Len(<<>>) = 0 /\ 0 <= BufferMax /\ IsInjective(<<>>)
      /\ 0 <= MaxInsert
  BY EmptySeq, MaxIsPositive, WriterAssumption DEF IsInjective
<1>3. TypeOK'
  BY <1>1, <1>2 DEF WriterInv, TypeOK
<1>4. Locked' /\ Distinct'
  BY <1>1, <1>2 DEF Locked, Distinct
<1> QED  BY <1>1, <1>3, <1>4, EmptyInv

\* A shipped row leaves the table; no thread has it in hand.
LEMMA ShippedInv ==
  ASSUME WriterInv, NEW q \in Rows, Shipped(q)
  PROVE  WriterInv'
<1>1. /\ stored[q] = 1 /\ stored' = [stored EXCEPT ![q] = 0]
      /\ promised' = promised \ {q} /\ judgedOff' = judgedOff \ {q}
      /\ UNCHANGED <<lock, pc, arg, closing, buffer, conn, health, aged, writable, enforced, off,
                     sound, lostAtExit>>
  BY DEF Shipped, threads, writer, switch, atExit
<1>2. /\ stored' \in [Rows -> Nat]
      /\ \A r \in Rows : stored'[r] = IF r = q THEN 0 ELSE stored[r]
  BY <1>1 DEF WriterInv, TypeOK
<1>3. TypeOK'
  BY <1>1, <1>2 DEF WriterInv, TypeOK
<1>4. Locked' /\ Room' /\ Distinct' /\ HealthIsTrue' /\ CloseStoresAll' /\ Ending'
  BY <1>1 DEF WriterInv, Locked, Room, Distinct, HealthIsTrue, CloseStoresAll, Ending, Sendable, RowsOf
<1>5. RowsOf(buffer) \subseteq Rows /\ \A t \in Threads : RowsOf(arg[t]) \subseteq Rows
  <2>1. buffer \in Seq(Rows) /\ \A t \in Threads : arg[t] \in Seq(Rows)
    BY DEF WriterInv, TypeOK
  <2> QED  BY <2>1, LenProperties, ElementOfSeq DEF RowsOf
<1>6. Unstored'
  BY <1>1, <1>2, <1>5 DEF WriterInv, Unstored
<1>7. Apart'
  BY <1>1 DEF WriterInv, Apart, Unstored
<1>8. Safe' /\ StoredOnce'
  BY <1>1, <1>2 DEF WriterInv, TypeOK, Safe, StoredOnce
<1> QED  BY <1>3, <1>4, <1>6, <1>7, <1>8 DEF WriterInv

\* A forgotten name was in no thread's hand.
LEMMA ForgottenInv ==
  ASSUME WriterInv, NEW q \in Rows, Forgotten(q)
  PROVE  WriterInv'
<1>1. /\ q \notin InHand /\ judgedOff' = judgedOff \ {q}
      /\ UNCHANGED <<lock, pc, arg, closing, buffer, conn, health, aged, stored, writable,
                     enforced, off, promised, sound, lostAtExit>>
  BY DEF Forgotten, threads, writer, switch, atExit
<1>2. TypeOK'
  BY <1>1 DEF WriterInv, TypeOK
<1>3. Locked' /\ Room' /\ Distinct' /\ HealthIsTrue' /\ CloseStoresAll' /\ Unstored'
  BY <1>1 DEF WriterInv, Locked, Room, Distinct, HealthIsTrue, CloseStoresAll, Unstored
<1>4. Apart'
  BY <1>1 DEF WriterInv, Apart, InHand
<1>5. Safe' /\ StoredOnce' /\ Ending'
  BY <1>1 DEF WriterInv, Safe, StoredOnce, Ending, Sendable, RowsOf
<1> QED  BY <1>2, <1>3, <1>4, <1>5 DEF WriterInv

\* The clock, SQLite and the switches touch none of it.
LEMMA WorldInv ==
  ASSUME WriterInv, AgeElapses \/ SinkChanges \/ SwitchChanges
  PROVE  WriterInv'
<1>1. /\ aged' \in BOOLEAN /\ writable' \in BOOLEAN /\ enforced' \in BOOLEAN
      /\ off' \subseteq Producers
      /\ UNCHANGED <<lock, pc, arg, closing, buffer, conn, health, stored, promised, judgedOff,
                     lostAtExit>>
      /\ sound' = {} \/ UNCHANGED <<sound, writable>>
  BY DEF AgeElapses, SinkChanges, SwitchChanges, WriterInv, TypeOK, threads, writer, switch, history,
         atExit
<1>2. TypeOK'
  BY <1>1 DEF WriterInv, TypeOK
<1>3. Locked' /\ Room' /\ Distinct' /\ HealthIsTrue' /\ CloseStoresAll' /\ Unstored'
  BY <1>1 DEF WriterInv, Locked, Room, Distinct, HealthIsTrue, CloseStoresAll, Unstored
<1>4. Apart' /\ Safe' /\ StoredOnce' /\ Ending'
  BY <1>1 DEF WriterInv, Apart, Safe, StoredOnce, Ending, Sendable, RowsOf
<1> QED  BY <1>2, <1>3, <1>4 DEF WriterInv

\* So does a step that changes nothing.
LEMMA StutterInv ==
  ASSUME WriterInv, UNCHANGED vars
  PROVE  WriterInv'
<1>1. UNCHANGED <<lock, pc, arg, closing, buffer, conn, health, aged, stored, writable, enforced,
                  off, promised, judgedOff, sound, lostAtExit>>
  BY DEF vars, threads, writer, switch, history, atExit
<1>2. TypeOK' /\ Locked' /\ Room' /\ Distinct' /\ Unstored'
  BY <1>1 DEF WriterInv, TypeOK, Locked, Room, Distinct, Unstored
<1>3. Apart' /\ Safe' /\ StoredOnce' /\ HealthIsTrue' /\ CloseStoresAll' /\ Ending'
  BY <1>1
  DEF WriterInv, Apart, Safe, StoredOnce, HealthIsTrue, CloseStoresAll, Ending, Sendable, RowsOf
<1> QED  BY <1>2, <1>3 DEF WriterInv

\* Every step keeps the invariant.
LEMMA NextInv == WriterInv /\ [Next]_vars => WriterInv'
<1> SUFFICES ASSUME WriterInv, [Next]_vars
             PROVE  WriterInv'
  OBVIOUS
<1>1. CASE \E t \in Threads : Step(t)
  BY <1>1, InsertInv, FlushInv, CloseInv, JudgeInv, OverflowInv, TriggerInv, FlushCommitsInv, FlushFailsInv,
     FlushClearsInv DEF Step
<1>2. CASE AgeElapses \/ SinkChanges \/ SwitchChanges \/ Crash
  BY <1>2, WorldInv, CrashInv
<1>3. CASE \E r \in Rows : Shipped(r) \/ Forgotten(r)
  BY <1>3, ShippedInv, ForgottenInv
<1>4. CASE UNCHANGED vars
  BY <1>4, StutterInv
<1> QED  BY <1>1, <1>2, <1>3, <1>4 DEF Next

\* The invariant holds of every behaviour.
LEMMA Invariance == Spec => []WriterInv
BY InitInv, NextInv, PTL DEF Spec
-----------------------------------------------------------------------------
(* The theorems *)

\* The variables keep their types, and between calls the buffer is within its
\* maximum (Writer.insert's BufferFull).
THEOREM WriterTypes == Spec => []TypeOK
<1>1. WriterInv => TypeOK
  BY DEF WriterInv
<1> QED  BY <1>1, Invariance, PTL

\* A row whose insert returned is stored or still buffered: no flush that fails,
\* no overflow and no other thread loses it (Writer.insert, Writer._flush_locked).
THEOREM PromisesAreKept == Spec => []NoSilentLoss
<1>1. WriterInv => NoSilentLoss
  BY DEF WriterInv, Safe, NoSilentLoss, RowsOf
<1> QED  BY <1>1, Invariance, PTL

\* No row is stored twice, by two threads or by a flush that is retried.
THEOREM NoRowStoredTwice == Spec => []StoredOnce
<1>1. WriterInv => StoredOnce
  BY DEF WriterInv
<1> QED  BY <1>1, Invariance, PTL

\* When a close returns that SQLite and the rows let store throughout, every row
\* an insert returned for is in the sink (Writer.close, under Writer._lock).
THEOREM CloseLosesNothing == Spec => []CloseStoresAll
<1>1. WriterInv => CloseStoresAll
  BY DEF WriterInv
<1> QED  BY <1>1, Invariance, PTL

\* Between calls a writer with a full batch in its buffer is not in health ok.
THEOREM FullBufferShows == Spec => []HealthIsTrue
<1>1. WriterInv => HealthIsTrue
  BY DEF WriterInv
<1> QED  BY <1>1, Invariance, PTL
=============================================================================
