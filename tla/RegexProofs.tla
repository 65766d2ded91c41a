---------------------------- MODULE RegexProofs -----------------------------
(****************************************************************************)
(* Proofs about the regular expressions of NativeModules: what matches,     *)
(* replace, split and the helpers give back of the subject, for any         *)
(* subject, any pattern on it and any replacement.                          *)
(*                                                                          *)
(* A scan is a recursive function of the position, and of what it has       *)
(* counted. Each scan starts again further on, so that it has one           *)
(* solution; what it gives is then shown from the end of the subject        *)
(* backwards.                                                               *)
(****************************************************************************)
EXTENDS GameProofs

-----------------------------------------------------------------------------
(* Recursion on a rank: a function that looks at its values of lower rank. *)

\* What F says of d depends on the values of a function at lower ranks only.
LooksDown(F, D, V, rank) ==
    \A d \in D, f, g \in [D -> V] :
        (\A e \in D : rank[e] < rank[d] => f[e] = g[e]) => F[<<d, f>>] = F[<<d, g>>]

IsTurn(F, D, V) == F \in [D \X [D -> V] -> V]
Solves(f, F, D, V) == f \in [D -> V] /\ \A d \in D : f[d] = F[<<d, f>>]

LEMMA RankedRecursion ==
    ASSUME NEW D, NEW V, V # {}, NEW rank, rank \in [D -> Nat],
           NEW F, IsTurn(F, D, V), LooksDown(F, D, V, rank)
    PROVE  \E f : Solves(f, F, D, V)
  <1>1. PICK S : S = [D -> V]
    OBVIOUS
  <1>2. PICK G : G = [z \in Nat \X S |-> [d \in D |-> F[<<d, z[2]>>]]]
    OBVIOUS
  <1>3. /\ G \in [Nat \X S -> S]
        /\ \A n \in Nat, f \in S : G[<<n, f>>] = [d \in D |-> F[<<d, f>>]]
    BY <1>1, <1>2 DEF IsTurn
  <1>4. PICK x : x \in S
    <2>1. PICK v : v \in V
      OBVIOUS
    <2>2. [d \in D |-> v] \in [D -> V]
      BY <2>1
    <2> QED
      BY <1>1, <2>2
  <1>5. PICK h : Repeats(h, S, x, G)
    BY <1>3, <1>4, RecursionExists
  <1>6. h \in [Nat -> S] /\ \A n \in Nat, d \in D : h[n + 1][d] = F[<<d, h[n]>>]
    <2>1. h \in [Nat -> S] /\ \A n \in Nat : h[n + 1] = G[<<n + 1, h[n]>>]
      BY <1>5 DEF Repeats
    <2>2. ASSUME NEW n \in Nat, NEW d \in D PROVE h[n + 1][d] = F[<<d, h[n]>>]
      <3>1. n + 1 \in Nat /\ h[n] \in S
        BY <2>1
      <3>2. h[n + 1] = [e \in D |-> F[<<e, h[n]>>]]
        BY <1>3, <2>1, <3>1
      <3> QED
        BY <3>2
    <2> QED
      BY <2>1, <2>2
  <1>7. PICK T : T = {n \in Nat : \A d \in D : rank[d] < n => h[n + 1][d] = h[n][d]}
    OBVIOUS
  <1>8. 0 \in T
    BY <1>7
  <1>9. ASSUME NEW n \in Nat, n \in T PROVE n + 1 \in T
    <2>1. ASSUME NEW d \in D, rank[d] < n + 1 PROVE h[(n + 1) + 1][d] = h[n + 1][d]
      <3>1. \A e \in D : rank[e] < rank[d] => h[n + 1][e] = h[n][e]
        BY <1>7, <1>9, <2>1
      <3>2. h[n + 1] \in [D -> V] /\ h[n] \in [D -> V] /\ n + 1 \in Nat
        BY <1>1, <1>6
      <3>3. F[<<d, h[n + 1]>>] = F[<<d, h[n]>>]
        BY <3>1, <3>2 DEF LooksDown
      <3> QED
        BY <1>6, <3>2, <3>3
    <2> QED
      BY <1>7, <2>1
  <1>10. \A n \in Nat : n \in T
    BY <1>8, <1>9, Induction
  <1>11. ASSUME NEW d \in D
         PROVE  \A n \in Nat : n > rank[d] => h[n][d] = h[rank[d] + 1][d]
    <2>1. PICK U : U = {n \in Nat : n > rank[d] => h[n][d] = h[rank[d] + 1][d]}
      OBVIOUS
    <2>2. rank[d] \in Nat
      OBVIOUS
    <2>3. 0 \in U
      BY <2>1, <2>2
    <2>4. ASSUME NEW n \in Nat, n \in U PROVE n + 1 \in U
      <3>1. CASE n > rank[d]
        <4>1. h[n + 1][d] = h[n][d]
          BY <1>7, <1>10, <2>2, <3>1
        <4> QED
          BY <2>1, <2>2, <2>4, <3>1, <4>1
      <3>2. CASE n = rank[d]
        BY <2>1, <3>2
      <3>3. CASE n < rank[d]
        <4>1. n + 1 \in Nat /\ ~(n + 1 > rank[d])
          BY <2>2, <3>3
        <4> QED
          BY <2>1, <4>1
      <3> QED
        BY <2>2, <3>1, <3>2, <3>3
    <2>5. \A n \in Nat : n \in U
      BY <2>3, <2>4, Induction
    <2> QED
      BY <2>1, <2>5
  <1>12. PICK f : f = [d \in D |-> h[rank[d] + 1][d]]
    OBVIOUS
  <1>13. f \in [D -> V]
    BY <1>1, <1>6, <1>12
  <1>14. ASSUME NEW d \in D PROVE f[d] = F[<<d, f>>]
    <2>1. rank[d] \in Nat /\ h[rank[d]] \in [D -> V]
      BY <1>1, <1>6
    <2>2. ASSUME NEW e \in D, rank[e] < rank[d] PROVE f[e] = h[rank[d]][e]
      BY <1>11, <1>12, <2>1, <2>2
    <2>3. F[<<d, f>>] = F[<<d, h[rank[d]]>>]
      BY <1>13, <2>1, <2>2 DEF LooksDown
    <2>4. f[d] = F[<<d, h[rank[d]]>>]
      BY <1>6, <1>12, <2>1
    <2> QED
      BY <2>3, <2>4
  <1> QED
    BY <1>13, <1>14 DEF Solves

LEMMA RankInduction ==
    ASSUME NEW D, NEW rank \in [D -> Nat], NEW T,
           \A d \in D : (\A e \in D : rank[e] < rank[d] => e \in T) => d \in T
    PROVE  \A d \in D : d \in T
  <1>1. PICK B : B = {rank[d] : d \in {e \in D : e \notin T}}
    OBVIOUS
  <1>2. ASSUME NEW d \in D, d \notin T PROVE FALSE
    <2>1. B \subseteq Nat /\ B # {}
      BY <1>1, <1>2
    <2>2. PICK k \in B : \A m \in B : k <= m
      BY <2>1, Least
    <2>3. PICK e \in D : e \notin T /\ rank[e] = k
      BY <1>1, <2>2
    <2>4. ASSUME NEW c \in D, rank[c] < rank[e] PROVE c \in T
      <3>1. rank[c] \in Nat /\ rank[e] \in Nat /\ ~(k <= rank[c])
        BY <2>3, <2>4
      <3>2. rank[c] \notin B
        BY <2>2, <3>1
      <3> QED
        BY <1>1, <3>2
    <2> QED
      BY <2>3, <2>4
  <1> QED
    BY <1>2

\* Induction from a bound downwards.
LEMMA Downwards ==
    ASSUME NEW n \in Nat, NEW T,
           \A p \in 0 .. n : (\A q \in 0 .. n : q > p => q \in T) => p \in T
    PROVE  \A p \in 0 .. n : p \in T
  <1>1. PICK D : D = 0 .. n
    OBVIOUS
  <1>2. PICK rank : rank = [p \in D |-> n - p]
    OBVIOUS
  <1>3. rank \in [D -> Nat]
    BY <1>1, <1>2
  <1>4. ASSUME NEW p \in D, \A q \in D : rank[q] < rank[p] => q \in T PROVE p \in T
    <2>1. \A q \in D : q > p => rank[q] < rank[p]
      BY <1>1, <1>2
    <2>2. \A q \in 0 .. n : q > p => q \in T
      BY <1>1, <1>4, <2>1
    <2> QED
      BY <1>1, <2>2
  <1>5. \A p \in D : (\A q \in D : rank[q] < rank[p] => q \in T) => p \in T
    BY <1>4
  <1>6. \A p \in D : p \in T
    BY <1>3, <1>5, RankInduction
  <1> QED
    BY <1>1, <1>6

-----------------------------------------------------------------------------
(* Regular expressions on a subject.                                       *)

RegexIs(re) ==
    /\ re.subject \in Seq(Bytes) /\ re.groups \in {0, 1}
    /\ \A s \in Engine!Boundaries(re) :
          re.pattern[s] # None => re.pattern[s] \in Engine!Boundaries(re) /\ re.pattern[s] >= s

BoundariesOf(re) ==
    /\ Engine!End(re) \in Nat /\ Engine!Positions(re) = 0 .. Engine!End(re)
    /\ 0 \in Engine!Boundaries(re) /\ Engine!End(re) \in Engine!Boundaries(re)
    /\ Engine!Boundaries(re) \subseteq 0 .. Engine!End(re)
    /\ Engine!Boundaries(re) \subseteq Nat

LEMMA BoundariesAre == ASSUME NEW re, RegexIs(re) PROVE BoundariesOf(re)
  <1>1. Engine!End(re) \in Nat
    BY DEF RegexIs, Engine!End
  <1> QED
    BY <1>1 DEF BoundariesOf, Engine!Boundaries, Engine!Positions, Engine!is_char_boundary

SliceOf(s, re, a, b) ==
    /\ s \in Seq(Bytes) /\ Len(s) = b - a
    /\ \A i \in 1 .. b - a : s[i] = re.subject[a + i]

LEMMA SliceIs ==
    ASSUME NEW re, RegexIs(re), NEW a \in Nat, NEW b \in Nat, a <= b, b <= Engine!End(re)
    PROVE  SliceOf(Engine!Slice(re, a, b), re, a, b)
  <1>1. PICK s \in Seq(Bytes) : s = re.subject
    BY DEF RegexIs
  <1>2. b <= Len(s) /\ Len(s) \in Nat
    BY <1>1 DEF Engine!End
  <1>3. PICK t : t = SubSeq(s, a + 1, b)
    OBVIOUS
  <1>4. t \in Seq(Bytes) /\ Len(t) = b - a /\ \A i \in 1 .. b - a : t[i] = s[a + i]
    BY <1>2, <1>3
  <1> QED
    BY <1>1, <1>3, <1>4 DEF SliceOf, Engine!Slice

LEMMA SlicesJoin ==
    ASSUME NEW re, RegexIs(re), NEW a \in Nat, NEW b \in Nat, NEW c \in Nat,
           a <= b, b <= c, c <= Engine!End(re)
    PROVE  Engine!Slice(re, a, b) \o Engine!Slice(re, b, c) = Engine!Slice(re, a, c)
  <1>1. Engine!End(re) \in Nat
    BY BoundariesAre DEF BoundariesOf
  <1>2. PICK s : s = Engine!Slice(re, a, b)
    OBVIOUS
  <1>3. PICK t : t = Engine!Slice(re, b, c)
    OBVIOUS
  <1>4. PICK u : u = Engine!Slice(re, a, c)
    OBVIOUS
  <1>5. SliceOf(s, re, a, b) /\ SliceOf(t, re, b, c) /\ SliceOf(u, re, a, c)
    BY <1>1, <1>2, <1>3, <1>4, SliceIs
  <1>6. /\ s \in Seq(Bytes) /\ t \in Seq(Bytes) /\ u \in Seq(Bytes)
        /\ Len(s) = b - a /\ Len(t) = c - b /\ Len(u) = c - a
    BY <1>5 DEF SliceOf
  <1>7. s \o t \in Seq(Bytes) /\ Len(s \o t) = c - a
    BY <1>6
  <1>8. ASSUME NEW i \in Nat, 1 <= i, i <= c - a PROVE (s \o t)[i] = u[i]
    <2>1. u[i] = re.subject[a + i]
      BY <1>5, <1>8 DEF SliceOf
    <2>2. CASE i <= b - a
      <3>1. (s \o t)[i] = s[i]
        BY <1>6, <1>8, <2>2
      <3>2. s[i] = re.subject[a + i]
        BY <1>5, <1>8, <2>2 DEF SliceOf
      <3> QED
        BY <2>1, <3>1, <3>2
    <2>3. CASE i > b - a
      <3>1. i - (b - a) \in 1 .. c - b /\ b + (i - (b - a)) = a + i
        BY <1>8, <2>3
      <3>2. (s \o t)[i] = t[i - (b - a)]
        BY <1>6, <1>8, <2>3
      <3>3. t[i - (b - a)] = re.subject[b + (i - (b - a))]
        BY <1>5, <3>1 DEF SliceOf
      <3> QED
        BY <2>1, <3>1, <3>2, <3>3
    <2>4. i <= b - a \/ i > b - a
      OBVIOUS
    <2> QED
      BY <2>2, <2>3, <2>4, Zenon
  <1>9. s \o t = u
    <2>1. Len(s \o t) = Len(u)
      BY <1>6, <1>7
    <2>2. ASSUME NEW i \in 1 .. Len(u) PROVE (s \o t)[i] = u[i]
      <3>1. i \in Nat /\ 1 <= i /\ i <= c - a
        BY <1>6
      <3> QED
        BY <1>8, <3>1, Zenon
    <2> QED
      BY <1>6, <1>7, <2>1, <2>2, SeqEqual
  <1> QED
    BY <1>2, <1>3, <1>4, <1>9

LEMMA WholeSlice ==
    ASSUME NEW re, RegexIs(re)
    PROVE  /\ Engine!Slice(re, 0, Engine!End(re)) = re.subject
           /\ \A a \in 0 .. Engine!End(re) : Engine!Slice(re, a, a) = <<>>
  <1>1. PICK s \in Seq(Bytes) : s = re.subject
    BY DEF RegexIs
  <1>2. SubSeq(s, 1, Len(s)) = s
    OBVIOUS
  <1>3. \A a \in 0 .. Len(s) : SubSeq(s, a + 1, a) = <<>>
    OBVIOUS
  <1> QED
    BY <1>1, <1>2, <1>3 DEF Engine!Slice, Engine!End


LEMMA MinIs ==
    ASSUME NEW S \in SUBSET Nat, S # {}
    PROVE  Engine!Min(S) \in S /\ \A y \in S : Engine!Min(S) <= y
  <1>1. \E x \in S : \A y \in S : x <= y
    BY Least
  <1>2. Engine!Min(S) = CHOOSE x \in S : \A y \in S : x <= y
    BY DEF Engine!Min
  <1> QED
    BY <1>1, <1>2

LEMMA MaxIs ==
    ASSUME NEW n \in Nat, NEW S \in SUBSET (0 .. n), S # {}
    PROVE  Engine!Max(S) \in S /\ \A y \in S : Engine!Max(S) >= y
  <1>1. PICK R : R = {n - t : t \in S}
    OBVIOUS
  <1>2. R \subseteq Nat /\ R # {}
    <2>1. \A t \in S : n - t \in Nat
      OBVIOUS
    <2> QED
      BY <1>1, <2>1
  <1>3. PICK d \in R : \A e \in R : d <= e
    BY <1>2, Least
  <1>4. PICK x \in S : d = n - x
    BY <1>1, <1>3
  <1>5. ASSUME NEW y \in S PROVE x >= y
    BY <1>1, <1>3, <1>4, <1>5
  <1>6. \E z \in S : \A y \in S : z >= y
    BY <1>5
  <1>7. Engine!Max(S) = CHOOSE z \in S : \A y \in S : z >= y
    BY DEF Engine!Max
  <1> QED
    BY <1>6, <1>7

\* The first match from a position on.
FoundAt(m, re, p) ==
    /\ m.start \in Engine!Boundaries(re) /\ m.end \in Engine!Boundaries(re)
    /\ m.start \in Nat /\ m.end \in Nat
    /\ p <= m.start /\ m.start <= m.end /\ m.end <= Engine!End(re)
    /\ m = [start |-> m.start, end |-> m.end]
    /\ re.pattern[m.start] # None
    /\ \A s \in Engine!StartsFrom(re, p) : m.start <= s

LEMMA FindIs ==
    ASSUME NEW re, RegexIs(re), NEW p \in Nat, Engine!Matches(re, p)
    PROVE  FoundAt(Engine!find_from_pos(re, p), re, p)
  <1>1. BoundariesOf(re)
    BY BoundariesAre
  <1>2. Engine!StartsFrom(re, p) # {} /\ Engine!StartsFrom(re, p) \in SUBSET Nat
    BY <1>1 DEF Engine!Matches, Engine!StartsFrom, BoundariesOf
  <1>3. PICK s : s = Engine!Min(Engine!StartsFrom(re, p))
    OBVIOUS
  <1>4. s \in Engine!StartsFrom(re, p) /\ \A t \in Engine!StartsFrom(re, p) : s <= t
    BY <1>2, <1>3, MinIs
  <1>5. s \in Engine!Boundaries(re) /\ s \in Nat /\ p <= s /\ re.pattern[s] # None
    BY <1>1, <1>4 DEF Engine!StartsFrom, BoundariesOf
  <1>6. PICK e : e = re.pattern[s]
    OBVIOUS
  <1>7. e \in Engine!Boundaries(re) /\ e >= s /\ e \in Nat /\ e <= Engine!End(re)
    BY <1>1, <1>5, <1>6 DEF RegexIs, BoundariesOf
  <1>8. Engine!find_from_pos(re, p) = [start |-> s, end |-> e]
    BY <1>3, <1>6 DEF Engine!find_from_pos, Engine!Span
  <1> QED
    BY <1>4, <1>5, <1>7, <1>8 DEF FoundAt

LEMMA AdvanceIs ==
    ASSUME NEW re, RegexIs(re), NEW i \in Nat, i < Engine!End(re)
    PROVE  /\ Engine!advance(re, i) \in Engine!Boundaries(re)
           /\ Engine!advance(re, i) \in Nat
           /\ i < Engine!advance(re, i) /\ Engine!advance(re, i) <= Engine!End(re)
           /\ \A j \in Engine!Boundaries(re) : j > i => Engine!advance(re, i) <= j
  <1>1. BoundariesOf(re)
    BY BoundariesAre
  <1>2. PICK S : S = {j \in Engine!Boundaries(re) : j > i}
    OBVIOUS
  <1>3. S \in SUBSET Nat /\ S # {}
    BY <1>1, <1>2 DEF BoundariesOf
  <1>4. Engine!advance(re, i) = Engine!Min(S)
    BY <1>1, <1>2 DEF Engine!advance, BoundariesOf
  <1>5. Engine!Min(S) \in S /\ \A y \in S : Engine!Min(S) <= y
    BY <1>3, MinIs
  <1> QED
    BY <1>1, <1>2, <1>4, <1>5 DEF BoundariesOf

LEMMA LastIs ==
    ASSUME NEW re, RegexIs(re), NEW p \in Nat, NEW m, FoundAt(m, re, p), Engine!IsLast(re, m)
    PROVE  m.start = Engine!End(re) /\ m.end = Engine!End(re)
  <1>1. BoundariesOf(re)
    BY BoundariesAre
  <1> QED
    BY <1>1 DEF FoundAt, Engine!IsLast, Engine!IsEmpty, BoundariesOf

LEMMA NextIs ==
    ASSUME NEW re, RegexIs(re), NEW p \in Nat, NEW m, FoundAt(m, re, p), ~Engine!IsLast(re, m)
    PROVE  /\ Engine!next_position(re, m) \in Engine!Positions(re)
           /\ Engine!next_position(re, m) \in Nat
           /\ Engine!next_position(re, m) <= Engine!End(re)
           /\ Engine!next_position(re, m) > p /\ Engine!next_position(re, m) >= m.end
  <1>1. BoundariesOf(re)
    BY BoundariesAre
  <1>2. CASE Engine!IsEmpty(m)
    <2>1. m.end \in Nat /\ m.end < Engine!End(re) /\ p <= m.end
      BY <1>1, <1>2 DEF FoundAt, Engine!IsLast, Engine!IsEmpty, BoundariesOf
    <2>2. Engine!next_position(re, m) = Engine!advance(re, m.end)
      BY <1>2 DEF Engine!next_position
    <2> QED
      BY <1>1, <2>1, <2>2, AdvanceIs DEF BoundariesOf
  <1>3. CASE ~Engine!IsEmpty(m)
    <2>1. Engine!next_position(re, m) = m.end
      BY <1>3 DEF Engine!next_position
    <2> QED
      BY <1>1, <1>3, <2>1 DEF FoundAt, Engine!IsEmpty, BoundariesOf
  <1> QED
    BY <1>2, <1>3


-----------------------------------------------------------------------------
(* Every match of a scan.                                                  *)

Spans == [start : Nat, end : Nat]

MatchTurn(re, position, from) ==
    IF ~Engine!Matches(re, position) THEN <<>>
    ELSE LET m == Engine!find_from_pos(re, position)
         IN  IF Engine!IsLast(re, m) THEN <<m>>
             ELSE <<m>> \o from[Engine!next_position(re, m)]

AreMatches(f, re) ==
    f = [position \in Engine!Positions(re) |->
           IF ~Engine!Matches(re, position) THEN <<>>
           ELSE LET m == Engine!find_from_pos(re, position)
                IN  IF Engine!IsLast(re, m) THEN <<m>>
                    ELSE <<m>> \o f[Engine!next_position(re, m)]]

Scans(f, re) ==
    /\ f \in [0 .. Engine!End(re) -> Seq(Spans)] /\ Engine!matches(re) = f[0]
    /\ \A p \in 0 .. Engine!End(re) : f[p] = MatchTurn(re, p, f)

LEMMA TurnIsMatches ==
    ASSUME NEW re, RegexIs(re), NEW p \in 0 .. Engine!End(re),
           NEW f, f \in [0 .. Engine!End(re) -> Seq(Spans)]
    PROVE  MatchTurn(re, p, f) \in Seq(Spans)
  <1>1. BoundariesOf(re) /\ p \in Nat
    BY BoundariesAre DEF BoundariesOf
  <1>2. CASE ~Engine!Matches(re, p)
    BY <1>2 DEF MatchTurn
  <1>3. CASE Engine!Matches(re, p)
    <2>1. PICK m : m = Engine!find_from_pos(re, p)
      OBVIOUS
    <2>2. FoundAt(m, re, p)
      BY <1>1, <1>3, <2>1, FindIs
    <2>3. m \in Spans
      BY <2>2 DEF FoundAt, Spans
    <2>4. CASE Engine!IsLast(re, m)
      BY <1>3, <2>1, <2>3, <2>4 DEF MatchTurn
    <2>5. CASE ~Engine!IsLast(re, m)
      <3>1. Engine!next_position(re, m) \in 0 .. Engine!End(re)
        BY <1>1, <2>2, <2>5, NextIs DEF BoundariesOf
      <3>2. PICK s \in Seq(Spans) : s = f[Engine!next_position(re, m)]
        BY <3>1
      <3>3. <<m>> \o s \in Seq(Spans)
        BY <2>3
      <3> QED
        BY <1>3, <2>1, <2>5, <3>2, <3>3 DEF MatchTurn
    <2> QED
      BY <2>4, <2>5
  <1> QED
    BY <1>2, <1>3

\* A turn looks at later positions only.
LEMMA MatchTurnsAgree ==
    ASSUME NEW re, RegexIs(re), NEW p \in 0 .. Engine!End(re), NEW f, NEW g,
           \A q \in 0 .. Engine!End(re) : q > p => f[q] = g[q]
    PROVE  MatchTurn(re, p, f) = MatchTurn(re, p, g)
  <1>1. BoundariesOf(re) /\ p \in Nat
    BY BoundariesAre DEF BoundariesOf
  <1>2. CASE ~Engine!Matches(re, p)
    BY <1>2 DEF MatchTurn
  <1>3. CASE Engine!Matches(re, p)
    <2>1. PICK m : m = Engine!find_from_pos(re, p)
      OBVIOUS
    <2>2. FoundAt(m, re, p)
      BY <1>1, <1>3, <2>1, FindIs
    <2>3. CASE ~Engine!IsLast(re, m)
      <3>1. PICK q \in 0 .. Engine!End(re) : q = Engine!next_position(re, m) /\ q > p
        BY <1>1, <2>2, <2>3, NextIs DEF BoundariesOf
      <3>2. f[q] = g[q]
        BY <3>1
      <3> QED
        BY <1>3, <2>1, <2>3, <3>1, <3>2 DEF MatchTurn
    <2>4. CASE Engine!IsLast(re, m)
      BY <1>3, <2>1, <2>4 DEF MatchTurn
    <2> QED
      BY <2>3, <2>4
  <1> QED
    BY <1>2, <1>3

LEMMA MatchesScan == ASSUME NEW re, RegexIs(re) PROVE \E f : Scans(f, re)
  <1>1. BoundariesOf(re)
    BY BoundariesAre
  <1>2. PICK n \in Nat : n = Engine!End(re)
    BY <1>1 DEF BoundariesOf
  <1>3. PICK D : D = 0 .. n
    OBVIOUS
  <1>4. PICK V : V = Seq(Spans)
    OBVIOUS
  <1>5. PICK F : F = [z \in D \X [D -> V] |-> MatchTurn(re, z[1], z[2])]
    OBVIOUS
  <1>6. \A d \in D, f \in [D -> V] : MatchTurn(re, d, f) \in V
    BY <1>2, <1>3, <1>4, TurnIsMatches
  <1>7. /\ F \in [D \X [D -> V] -> V]
        /\ \A d \in D, f \in [D -> V] : F[<<d, f>>] = MatchTurn(re, d, f)
    BY <1>5, <1>6
  <1>8. PICK rank : rank = [d \in D |-> n - d]
    OBVIOUS
  <1>9. rank \in [D -> Nat] /\ <<>> \in V
    BY <1>3, <1>4, <1>8
  <1>10. ASSUME NEW d \in D, NEW f, NEW g, \A e \in D : rank[e] < rank[d] => f[e] = g[e]
         PROVE  MatchTurn(re, d, f) = MatchTurn(re, d, g)
    <2>1. \A e \in D : e > d => f[e] = g[e]
      BY <1>3, <1>8, <1>10
    <2> QED
      BY <1>2, <1>3, <2>1, MatchTurnsAgree
  <1>11. LooksDown(F, D, V, rank)
    <2>1. ASSUME NEW d \in D, NEW f \in [D -> V], NEW g \in [D -> V],
                 \A e \in D : rank[e] < rank[d] => f[e] = g[e]
          PROVE  F[<<d, f>>] = F[<<d, g>>]
      <3>1. MatchTurn(re, d, f) = MatchTurn(re, d, g)
        BY <1>10, <2>1
      <3> QED
        BY <1>7, <3>1
    <2> QED
      BY <2>1 DEF LooksDown
  <1>12. PICK f : f \in [D -> V] /\ \A d \in D : f[d] = F[<<d, f>>]
    <2>1. IsTurn(F, D, V) /\ V # {}
      BY <1>7, <1>9 DEF IsTurn
    <2>2. \E f : Solves(f, F, D, V)
      BY <1>9, <1>11, <2>1, RankedRecursion
    <2> QED
      BY <2>2 DEF Solves
  <1>13. \A d \in D : f[d] = MatchTurn(re, d, f)
    BY <1>7, <1>12
  <1>14. f = [d \in Engine!Positions(re) |-> f[d]] /\ Engine!Positions(re) = D
    BY <1>1, <1>2, <1>3, <1>12 DEF BoundariesOf
  <1>15. AreMatches(f, re)
    BY <1>13, <1>14 DEF AreMatches, MatchTurn
  <1>16. PICK g : g = CHOOSE h : AreMatches(h, re)
    OBVIOUS
  <1>17. AreMatches(g, re)
    BY <1>15, <1>16
  <1>18. Engine!matches(re) = g[0]
    BY <1>16 DEF Engine!matches, AreMatches
  <1>19. \A d \in D : g[d] = MatchTurn(re, d, g)
    BY <1>14, <1>17 DEF AreMatches, MatchTurn
  <1>20. PICK T : T = {d \in D : f[d] = g[d]}
    OBVIOUS
  <1>21. ASSUME NEW d \in D, \A e \in D : rank[e] < rank[d] => e \in T PROVE d \in T
    BY <1>10, <1>13, <1>19, <1>20, <1>21
  <1>22. \A d \in D : d \in T
    BY <1>9, <1>21, RankInduction
  <1>23. Engine!matches(re) = f[0]
    BY <1>3, <1>18, <1>20, <1>22
  <1> QED
    BY <1>2, <1>3, <1>4, <1>12, <1>13, <1>23 DEF Scans


\* Matches from a position on, one behind the other.
InOrder(s, re, p) ==
    /\ s \in Seq(Spans)
    /\ \A i \in 1 .. Len(s) :
          /\ s[i].start \in Engine!Boundaries(re) /\ s[i].end \in Engine!Boundaries(re)
          /\ p <= s[i].start /\ s[i].start <= s[i].end /\ s[i].end <= Engine!End(re)
    /\ \A i, j \in 1 .. Len(s) : i < j => s[i].end <= s[j].start

LEMMA InOrderLonger ==
    ASSUME NEW re, RegexIs(re), NEW p \in Nat, NEW m, FoundAt(m, re, p),
           NEW q \in Nat, m.end <= q, NEW s, InOrder(s, re, q)
    PROVE  InOrder(<<m>> \o s, re, p)
  <1>1. m \in Spans /\ s \in Seq(Spans)
    BY DEF FoundAt, Spans, InOrder
  <1>2. PICK t : t = <<m>> \o s
    OBVIOUS
  <1>3. /\ t \in Seq(Spans) /\ Len(t) = Len(s) + 1 /\ t[1] = m
        /\ Len(s) \in Nat /\ \A i \in 1 .. Len(s) : t[i + 1] = s[i]
    BY <1>1, <1>2
  <1>4. ASSUME NEW i \in 1 .. Len(t)
        PROVE  i = 1 \/ (i - 1 \in 1 .. Len(s) /\ t[i] = s[i - 1])
    <2>1. CASE i # 1
      <3>1. i - 1 \in 1 .. Len(s) /\ (i - 1) + 1 = i
        BY <1>3, <2>1
      <3> QED
        BY <1>3, <3>1
    <2> QED
      BY <2>1
  <1>5. ASSUME NEW i \in 1 .. Len(t)
        PROVE  /\ t[i].start \in Engine!Boundaries(re) /\ t[i].end \in Engine!Boundaries(re)
               /\ p <= t[i].start /\ t[i].start <= t[i].end /\ t[i].end <= Engine!End(re)
    <2>1. CASE i = 1
      BY <1>3, <2>1 DEF FoundAt
    <2>2. CASE i - 1 \in 1 .. Len(s) /\ t[i] = s[i - 1]
      <3>1. s[i - 1] \in Spans
        BY <1>1, <2>2
      <3>2. s[i - 1].start \in Nat /\ q <= s[i - 1].start
        BY <2>2, <3>1 DEF InOrder, Spans
      <3>3. p <= q
        BY DEF FoundAt
      <3> QED
        BY <2>2, <3>2, <3>3 DEF InOrder
    <2> QED
      BY <1>4, <2>1, <2>2
  <1>6. ASSUME NEW i \in 1 .. Len(t), NEW j \in 1 .. Len(t), i < j
        PROVE  t[i].end <= t[j].start
    <2>1. j - 1 \in 1 .. Len(s) /\ t[j] = s[j - 1] /\ i \in Nat /\ j \in Nat
      BY <1>3, <1>4, <1>6
    <2>2. CASE i = 1
      <3>1. s[j - 1] \in Spans
        BY <1>1, <2>1
      <3>2. q <= s[j - 1].start /\ s[j - 1].start \in Nat
        BY <2>1, <3>1 DEF InOrder, Spans
      <3> QED
        BY <1>3, <2>1, <2>2, <3>2 DEF FoundAt
    <2>3. CASE i - 1 \in 1 .. Len(s) /\ t[i] = s[i - 1]
      BY <1>6, <2>1, <2>3 DEF InOrder
    <2> QED
      BY <1>4, <2>2, <2>3
  <1> QED
    BY <1>2, <1>3, <1>5, <1>6 DEF InOrder

LEMMA ScansInOrder ==
    ASSUME NEW re, RegexIs(re), NEW f, Scans(f, re)
    PROVE  \A p \in 0 .. Engine!End(re) : InOrder(f[p], re, p)
  <1>1. BoundariesOf(re)
    BY BoundariesAre
  <1>2. PICK n \in Nat : n = Engine!End(re)
    BY <1>1 DEF BoundariesOf
  <1>3. PICK T : T = {p \in 0 .. n : InOrder(f[p], re, p)}
    OBVIOUS
  <1>4. ASSUME NEW p \in 0 .. n, \A q \in 0 .. n : q > p => q \in T PROVE p \in T
    <2>1. f[p] = MatchTurn(re, p, f) /\ p \in Nat
      BY <1>2 DEF Scans
    <2>2. InOrder(<<>>, re, p)
      BY DEF InOrder
    <2>3. CASE ~Engine!Matches(re, p)
      BY <1>3, <2>1, <2>2, <2>3 DEF MatchTurn
    <2>4. CASE Engine!Matches(re, p)
      <3>1. PICK m : m = Engine!find_from_pos(re, p)
        OBVIOUS
      <3>2. FoundAt(m, re, p)
        BY <2>1, <2>4, <3>1, FindIs
      <3>3. CASE Engine!IsLast(re, m)
        <4>1. InOrder(<<>>, re, m.end) /\ m.end \in Nat /\ m.end <= m.end
          BY <3>2 DEF InOrder, FoundAt
        <4>2. InOrder(<<m>> \o <<>>, re, p)
          BY <2>1, <3>2, <4>1, InOrderLonger
        <4>3. m \in Spans
          BY <3>2 DEF FoundAt, Spans
        <4>4. <<m>> \o <<>> = <<m>>
          BY <4>3
        <4> QED
          BY <1>3, <2>1, <2>4, <3>1, <3>3, <4>2, <4>4 DEF MatchTurn
      <3>4. CASE ~Engine!IsLast(re, m)
        <4>1. PICK q \in 0 .. n : q = Engine!next_position(re, m) /\ q > p /\ q >= m.end
          BY <1>1, <1>2, <2>1, <3>2, <3>4, NextIs DEF BoundariesOf
        <4>2. InOrder(f[q], re, q) /\ q \in Nat /\ m.end <= q
          BY <1>3, <1>4, <3>2, <4>1 DEF FoundAt
        <4>3. InOrder(<<m>> \o f[q], re, p)
          BY <2>1, <3>2, <4>2, InOrderLonger
        <4> QED
          BY <1>3, <2>1, <2>4, <3>1, <3>4, <4>1, <4>3 DEF MatchTurn
      <3> QED
        BY <3>3, <3>4
    <2> QED
      BY <2>3, <2>4
  <1>5. \A p \in 0 .. n : p \in T
    BY <1>4, Downwards
  <1> QED
    BY <1>2, <1>3, <1>5

-----------------------------------------------------------------------------
(* Joining texts.                                                          *)

Joined(f, s) ==
    /\ f \in [1 .. Len(s) -> Seq(Bytes)] /\ f[1] = s[1]
    /\ \A i \in 1 .. Len(s) - 1 : f[i + 1] = f[i] \o s[i + 1]
    /\ Engine!FlattenSeq(s) = f[Len(s)]

AreFlattened(f, s) == f = [i \in 1 .. Len(s) |-> IF i = 1 THEN s[i] ELSE f[i - 1] \o s[i]]

LEMMA FlattenJoins ==
    ASSUME NEW s \in Seq(Seq(Bytes)), s # <<>>
    PROVE  \E f : Joined(f, s)
  <1>1. PICK n \in Nat : n = Len(s) /\ n # 0
    OBVIOUS
  <1>2. PICK S : S = Seq(Bytes)
    OBVIOUS
  <1>3. PICK G : G = [z \in Nat \X S |-> IF z[1] \in 1 .. n THEN z[2] \o s[z[1]] ELSE z[2]]
    OBVIOUS
  <1>4. ASSUME NEW k \in Nat, NEW t \in S
        PROVE  (IF k \in 1 .. n THEN t \o s[k] ELSE t) \in S
    <2>1. CASE k \in 1 .. n
      <3>1. s[k] \in Seq(Bytes)
        BY <1>1, <2>1
      <3> QED
        BY <1>2, <2>1, <3>1
    <2> QED
      BY <2>1
  <1>5. /\ G \in [Nat \X S -> S] /\ <<>> \in S
        /\ \A k \in Nat, t \in S : G[<<k, t>>] = IF k \in 1 .. n THEN t \o s[k] ELSE t
    <2>1. <<>> \in S
      BY <1>2
    <2> QED
      BY <1>3, <1>4, <2>1
  <1>6. PICK h : Repeats(h, S, <<>>, G)
    BY <1>5, RecursionExists
  <1>7. /\ h \in [Nat -> S] /\ h[0] = <<>>
        /\ \A k \in Nat : h[k + 1] = IF k + 1 \in 1 .. n THEN h[k] \o s[k + 1] ELSE h[k]
    <2>1. h \in [Nat -> S] /\ h[0] = <<>> /\ \A k \in Nat : h[k + 1] = G[<<k + 1, h[k]>>]
      BY <1>6 DEF Repeats
    <2>2. ASSUME NEW k \in Nat
          PROVE  h[k + 1] = IF k + 1 \in 1 .. n THEN h[k] \o s[k + 1] ELSE h[k]
      <3>1. h[k] \in S /\ k + 1 \in Nat
        BY <2>1
      <3> QED
        BY <1>5, <2>1, <3>1
    <2> QED
      BY <2>1, <2>2
  <1>8. PICK f : f = [i \in 1 .. n |-> h[i]]
    OBVIOUS
  <1>9. ASSUME NEW i \in 1 .. n PROVE f[i] = IF i = 1 THEN s[i] ELSE f[i - 1] \o s[i]
    <2>1. i - 1 \in Nat /\ (i - 1) + 1 = i /\ f[i] = h[i]
      BY <1>8
    <2>2. f[i] = h[i - 1] \o s[i]
      BY <1>7, <2>1
    <2>3. CASE i = 1
      <3>1. s[i] \in Seq(Bytes)
        BY <1>1
      <3>2. <<>> \o s[i] = s[i]
        BY <3>1
      <3>3. h[i - 1] = <<>>
        BY <1>7, <2>3
      <3> QED
        BY <2>2, <2>3, <3>2, <3>3
    <2>4. CASE i # 1
      <3>1. i - 1 \in 1 .. n
        BY <2>4
      <3> QED
        BY <1>8, <2>2, <2>4, <3>1
    <2> QED
      BY <2>3, <2>4
  <1>10. f = [i \in 1 .. n |-> f[i]]
    BY <1>8
  <1>11. AreFlattened(f, s)
    BY <1>1, <1>9, <1>10 DEF AreFlattened
  <1>12. PICK g : g = CHOOSE e : AreFlattened(e, s)
    OBVIOUS
  <1>13. AreFlattened(g, s)
    BY <1>11, <1>12
  <1>14. Engine!FlattenSeq(s) = g[n]
    BY <1>1, <1>12 DEF Engine!FlattenSeq, AreFlattened
  <1>15. \A i \in 1 .. n : g[i] = IF i = 1 THEN s[i] ELSE g[i - 1] \o s[i]
    BY <1>1, <1>13 DEF AreFlattened
  <1>16. PICK T : T = {k \in Nat : k + 1 \in 1 .. n => g[k + 1] = f[k + 1]}
    OBVIOUS
  <1>17. 0 \in T
    BY <1>1, <1>9, <1>15, <1>16
  <1>18. ASSUME NEW k \in Nat, k \in T PROVE k + 1 \in T
    <2>1. CASE (k + 1) + 1 \in 1 .. n
      <3>1. k + 1 \in 1 .. n /\ (k + 1) + 1 # 1 /\ ((k + 1) + 1) - 1 = k + 1
        BY <2>1
      <3>2. g[k + 1] = f[k + 1]
        BY <1>16, <1>18, <3>1
      <3> QED
        BY <1>9, <1>15, <1>16, <2>1, <3>1, <3>2
    <2>2. CASE (k + 1) + 1 \notin 1 .. n
      BY <1>16, <2>2
    <2> QED
      BY <2>1, <2>2
  <1>19. \A k \in Nat : k \in T
    BY <1>17, <1>18, Induction
  <1>20. g[n] = f[n]
    <2>1. n - 1 \in Nat /\ (n - 1) + 1 = n /\ n \in 1 .. n
      BY <1>1
    <2> QED
      BY <1>16, <1>19, <2>1
  <1>21. f \in [1 .. n -> Seq(Bytes)]
    BY <1>2, <1>7, <1>8
  <1>22. f[1] = s[1]
    BY <1>1, <1>9
  <1>23. ASSUME NEW i \in 1 .. n - 1 PROVE f[i + 1] = f[i] \o s[i + 1]
    <2>1. i + 1 \in 1 .. n /\ i + 1 # 1 /\ (i + 1) - 1 = i
      BY <1>1
    <2> QED
      BY <1>9, <2>1
  <1> QED
    BY <1>1, <1>14, <1>20, <1>21, <1>22, <1>23 DEF Joined

LEMMA FlattenIs ==
    ASSUME NEW s \in Seq(Seq(Bytes))
    PROVE  Engine!FlattenSeq(s) \in Seq(Bytes) /\ (s = <<>> => Engine!FlattenSeq(s) = <<>>)
  <1>1. CASE s = <<>>
    BY <1>1 DEF Engine!FlattenSeq
  <1>2. CASE s # <<>>
    <2>1. PICK f : Joined(f, s)
      BY <1>2, FlattenJoins
    <2>2. Len(s) \in 1 .. Len(s)
      BY <1>2
    <2> QED
      BY <1>2, <2>1, <2>2 DEF Joined
  <1> QED
    BY <1>1, <1>2

LEMMA FlattenFirst ==
    ASSUME NEW a \in Seq(Bytes), NEW s \in Seq(Seq(Bytes))
    PROVE  Engine!FlattenSeq(<<a>> \o s) = a \o Engine!FlattenSeq(s)
  <1>1. PICK t : t = <<a>> \o s
    OBVIOUS
  <1>2. PICK n \in Nat : n = Len(s)
    OBVIOUS
  <1>3. /\ t \in Seq(Seq(Bytes)) /\ t # <<>> /\ Len(t) = n + 1 /\ t[1] = a
        /\ \A i \in 1 .. n : t[i + 1] = s[i]
    BY <1>1, <1>2
  <1>4. PICK f : Joined(f, t)
    BY <1>3, FlattenJoins
  <1>5. CASE n = 0
    <2>1. s = <<>>
      BY <1>2, <1>5, EmptySeq
    <2>2. Engine!FlattenSeq(t) = a
      BY <1>3, <1>4, <1>5 DEF Joined
    <2>3. a \o <<>> = a
      OBVIOUS
    <2> QED
      BY <1>1, <2>1, <2>2, <2>3, FlattenIs
  <1>6. CASE n # 0
    <2>1. PICK g : Joined(g, s)
      <3>1. s # <<>>
        BY <1>2, <1>6
      <3> QED
        BY <3>1, FlattenJoins
    <2>2. PICK T : T = {k \in Nat : k + 1 \in 1 .. n => f[(k + 1) + 1] = a \o g[k + 1]}
      OBVIOUS
    <2>3. 0 \in T
      <3>1. f[1 + 1] = f[1] \o t[1 + 1] /\ f[1] = a
        <4>1. 1 \in 1 .. Len(t) - 1
          BY <1>2, <1>3, <1>6
        <4> QED
          BY <1>3, <1>4, <4>1 DEF Joined
      <3>2. t[1 + 1] = s[1] /\ g[1] = s[1]
        <4>1. 1 \in 1 .. n
          BY <1>2, <1>6
        <4> QED
          BY <1>3, <2>1, <4>1 DEF Joined
      <3>3. f[(0 + 1) + 1] = a \o g[0 + 1]
        <4>1. 0 + 1 = 1
          OBVIOUS
        <4> QED
          BY <3>1, <3>2, <4>1, Zenon
      <3> QED
        BY <2>2, <3>3
    <2>4. ASSUME NEW k \in Nat, k \in T PROVE k + 1 \in T
      <3>1. CASE (k + 1) + 1 \in 1 .. n
        <4>1. PICK j \in Nat : j = k + 1
          OBVIOUS
        <4>2. j \in 1 .. n - 1 /\ j \in 1 .. n /\ j + 1 \in 1 .. n /\ j + 1 \in 1 .. (n + 1) - 1
          BY <3>1, <4>1
        <4>3. f[j + 1] = a \o g[j]
          BY <2>2, <2>4, <4>1, <4>2
        <4>4. f[(j + 1) + 1] = f[j + 1] \o t[(j + 1) + 1]
          BY <1>3, <1>4, <4>2 DEF Joined
        <4>5. t[(j + 1) + 1] = s[j + 1]
          BY <1>3, <4>2
        <4>6. g[j + 1] = g[j] \o s[j + 1]
          BY <1>2, <2>1, <4>2 DEF Joined
        <4>7. g[j] \in Seq(Bytes) /\ s[j + 1] \in Seq(Bytes)
          <5>1. g[j] \in Seq(Bytes)
            BY <1>2, <2>1, <4>2 DEF Joined
          <5> QED
            BY <1>2, <4>2, <5>1
        <4>8. Joins(a, g[j], s[j + 1])
          BY <4>7, SeqJoins
        <4>9. f[(j + 1) + 1] = a \o g[j + 1]
          BY <4>3, <4>4, <4>5, <4>6, <4>8 DEF Joins
        <4> QED
          BY <2>2, <4>1, <4>9
      <3>2. CASE (k + 1) + 1 \notin 1 .. n
        BY <2>2, <3>2
      <3> QED
        BY <3>1, <3>2
    <2>5. \A k \in Nat : k \in T
      BY <2>3, <2>4, Induction
    <2>6. n - 1 \in Nat /\ (n - 1) + 1 = n /\ n \in 1 .. n
      BY <1>6
    <2>7. f[n + 1] = a \o g[n]
      BY <2>2, <2>5, <2>6
    <2> QED
      BY <1>1, <1>2, <1>3, <1>4, <2>1, <2>7 DEF Joined
  <1> QED
    BY <1>5, <1>6


-----------------------------------------------------------------------------
(* Replacing matches.                                                      *)

LEMMA TextIs ==
    ASSUME NEW re, RegexIs(re), NEW p \in Nat, NEW m, FoundAt(m, re, p)
    PROVE  /\ Engine!Text(re, m) \in Seq(Bytes)
           /\ Engine!Text(re, m) = Engine!Slice(re, m.start, m.end)
           /\ Len(Engine!Text(re, m)) = m.end - m.start
  <1>1. SliceOf(Engine!Slice(re, m.start, m.end), re, m.start, m.end)
    BY SliceIs DEF FoundAt
  <1> QED
    BY <1>1 DEF SliceOf, Engine!Text

LEMMA ExpandIs ==
    ASSUME NEW re, RegexIs(re), NEW p \in Nat, NEW m, FoundAt(m, re, p),
           NEW r \in Seq(Engine!Part)
    PROVE  /\ Engine!expand(re, r, m) \in Seq(Bytes)
           /\ r = <<>> => Engine!expand(re, r, m) = <<>>
           /\ r = <<Engine!Group(0)>> => Engine!expand(re, r, m) = Engine!Text(re, m)
  <1>1. PICK t \in Seq(Bytes) : t = Engine!Text(re, m)
    BY TextIs
  <1>2. "$" \in Bytes
    BY NativeAssumption DEF Engine!RegexAssumption
  <1>3. ASSUME NEW part \in Engine!Part PROVE Engine!expand_part(re, part, m) \in Seq(Bytes)
    <2>1. part.byte \in Bytes /\ part.kind \in {"literal", "group", "name"}
      BY DEF Engine!Part
    <2>2. <<part.byte>> \in Seq(Bytes) /\ <<"$", part.byte>> \in Seq(Bytes) /\ <<>> \in Seq(Bytes)
      BY <1>2, <2>1
    <2>3. CASE part.kind = "literal"
      BY <2>2, <2>3 DEF Engine!expand_part
    <2>4. CASE part.kind = "group"
      BY <1>1, <2>2, <2>4 DEF Engine!expand_part
    <2>5. CASE part.kind = "name"
      BY <2>2, <2>5 DEF Engine!expand_part
    <2> QED
      BY <2>1, <2>3, <2>4, <2>5
  <1>4. PICK s : s = [i \in DOMAIN r |-> Engine!expand_part(re, r[i], m)]
    OBVIOUS
  <1>5. /\ Len(r) \in Nat /\ DOMAIN r = 1 .. Len(r)
        /\ \A i \in 1 .. Len(r) : r[i] \in Engine!Part
    OBVIOUS
  <1>6. s \in [1 .. Len(r) -> Seq(Bytes)]
    BY <1>3, <1>4, <1>5
  <1>7. s \in Seq(Seq(Bytes)) /\ Len(s) = Len(r)
    BY <1>5, <1>6
  <1>8. Engine!expand(re, r, m) = Engine!FlattenSeq(s)
    BY <1>4 DEF Engine!expand
  <1>9. ASSUME r = <<>> PROVE Engine!expand(re, r, m) = <<>>
    <2>1. s = <<>>
      BY <1>7, <1>9, EmptySeq
    <2> QED
      BY <1>7, <1>8, <2>1, FlattenIs
  <1>10. ASSUME r = <<Engine!Group(0)>>
         PROVE  Engine!expand(re, r, m) = Engine!Text(re, m)
    <2>1. r[1] = Engine!Group(0) /\ Len(r) = 1
      BY <1>10
    <2>2. s[1] = Engine!expand_part(re, Engine!Group(0), m) /\ Len(s) = 1
      BY <1>4, <1>5, <1>7, <2>1
    <2>3. Engine!expand_part(re, Engine!Group(0), m) = t
      <3>1. 0 <= re.groups
        BY DEF RegexIs
      <3> QED
        BY <1>1, <3>1 DEF Engine!expand_part, Engine!Group
    <2>4. s = <<t>> \o <<>>
      BY <1>7, <2>2, <2>3
    <2>5. <<>> \in Seq(Seq(Bytes)) /\ t \o <<>> = t
      OBVIOUS
    <2> QED
      BY <1>1, <1>8, <2>4, <2>5, FlattenFirst, FlattenIs
  <1> QED
    BY <1>7, <1>8, <1>9, <1>10, FlattenIs

ReplaceTurn(re, replacement, limit, position, count, from) ==
    IF Engine!Reached(limit, count) \/ ~Engine!Matches(re, position)
    THEN [text |-> Engine!Slice(re, position, Engine!End(re)), count |-> count]
    ELSE LET m == Engine!find_from_pos(re, position)
             head == Engine!Slice(re, position, m.start) \o Engine!expand(re, replacement, m)
         IN  IF Engine!IsLast(re, m)
             THEN [text |-> head, count |-> count + 1]
             ELSE LET next == Engine!next_position(re, m)
                      rest == from[<<next, count + 1>>]
                  IN  [text |-> head \o Engine!Slice(re, m.end, next) \o rest.text,
                       count |-> rest.count]

AreReplaced(f, re, replacement, limit) ==
    f = [at \in Engine!Positions(re) \X Nat |->
            LET position == at[1]
                count == at[2]
            IN
            IF Engine!Reached(limit, count) \/ ~Engine!Matches(re, position)
            THEN [text |-> Engine!Slice(re, position, Engine!End(re)), count |-> count]
            ELSE LET m == Engine!find_from_pos(re, position)
                     head == Engine!Slice(re, position, m.start) \o Engine!expand(re, replacement, m)
                 IN  IF Engine!IsLast(re, m)
                     THEN [text |-> head, count |-> count + 1]
                     ELSE LET next == Engine!next_position(re, m)
                              rest == f[<<next, count + 1>>]
                          IN  [text |-> head \o Engine!Slice(re, m.end, next) \o rest.text,
                               count |-> rest.count]]

Answers == [text : Seq(Bytes), count : Nat]

Replaces(f, re, r, limit) ==
    /\ f \in [(0 .. Engine!End(re)) \X Nat -> Answers]
    /\ \A p \in 0 .. Engine!End(re), c \in Nat : f[<<p, c>>] = ReplaceTurn(re, r, limit, p, c, f)
    /\ Engine!replace(re, r, limit) = f[<<0, 0>>]

LEMMA TurnIsAnswer ==
    ASSUME NEW re, RegexIs(re), NEW r \in Seq(Engine!Part), NEW limit,
           NEW p \in 0 .. Engine!End(re), NEW c \in Nat,
           NEW f, f \in [(0 .. Engine!End(re)) \X Nat -> Answers]
    PROVE  ReplaceTurn(re, r, limit, p, c, f) \in Answers
  <1>1. BoundariesOf(re) /\ p \in Nat
    BY BoundariesAre DEF BoundariesOf
  <1>2. CASE Engine!Reached(limit, c) \/ ~Engine!Matches(re, p)
    <2>1. SliceOf(Engine!Slice(re, p, Engine!End(re)), re, p, Engine!End(re))
      BY <1>1, SliceIs DEF BoundariesOf
    <2> QED
      BY <1>2, <2>1 DEF ReplaceTurn, SliceOf, Answers
  <1>3. CASE ~(Engine!Reached(limit, c) \/ ~Engine!Matches(re, p))
    <2>1. PICK m : m = Engine!find_from_pos(re, p)
      OBVIOUS
    <2>2. FoundAt(m, re, p)
      BY <1>1, <1>3, <2>1, FindIs
    <2>3. PICK head : head = Engine!Slice(re, p, m.start) \o Engine!expand(re, r, m)
      OBVIOUS
    <2>4. head \in Seq(Bytes)
      <3>1. SliceOf(Engine!Slice(re, p, m.start), re, p, m.start)
        BY <1>1, <2>2, SliceIs DEF BoundariesOf, FoundAt
      <3>2. Engine!Slice(re, p, m.start) \in Seq(Bytes) /\ Engine!expand(re, r, m) \in Seq(Bytes)
        BY <1>1, <2>2, <3>1, ExpandIs DEF SliceOf
      <3> QED
        BY <2>3, <3>2
    <2>5. c + 1 \in Nat
      OBVIOUS
    <2>6. CASE Engine!IsLast(re, m)
      BY <1>3, <2>1, <2>3, <2>4, <2>5, <2>6 DEF ReplaceTurn, Answers
    <2>7. CASE ~Engine!IsLast(re, m)
      <3>1. PICK q \in 0 .. Engine!End(re) : q = Engine!next_position(re, m) /\ q >= m.end
        BY <1>1, <2>2, <2>7, NextIs DEF BoundariesOf
      <3>2. PICK rest \in Answers : rest = f[<<q, c + 1>>]
        BY <2>5, <3>1
      <3>3. SliceOf(Engine!Slice(re, m.end, q), re, m.end, q)
        BY <1>1, <2>2, <3>1, SliceIs DEF FoundAt, BoundariesOf
      <3>4. Engine!Slice(re, m.end, q) \in Seq(Bytes) /\ rest.text \in Seq(Bytes) /\ rest.count \in Nat
        BY <3>2, <3>3 DEF SliceOf, Answers
      <3>5. head \o Engine!Slice(re, m.end, q) \o rest.text \in Seq(Bytes)
        BY <2>4, <3>4
      <3>6. ReplaceTurn(re, r, limit, p, c, f)
              = [text |-> head \o Engine!Slice(re, m.end, q) \o rest.text, count |-> rest.count]
        BY <1>3, <2>1, <2>3, <2>7, <3>1, <3>2 DEF ReplaceTurn
      <3> QED
        BY <3>4, <3>5, <3>6 DEF Answers
    <2> QED
      BY <2>6, <2>7
  <1> QED
    BY <1>2, <1>3

LEMMA ReplaceTurnsAgree ==
    ASSUME NEW re, RegexIs(re), NEW r, NEW limit, NEW p \in 0 .. Engine!End(re), NEW c \in Nat,
           NEW f, NEW g,
           \A q \in 0 .. Engine!End(re) : q > p => f[<<q, c + 1>>] = g[<<q, c + 1>>]
    PROVE  ReplaceTurn(re, r, limit, p, c, f) = ReplaceTurn(re, r, limit, p, c, g)
  <1>1. BoundariesOf(re) /\ p \in Nat
    BY BoundariesAre DEF BoundariesOf
  <1>2. CASE Engine!Reached(limit, c) \/ ~Engine!Matches(re, p)
    BY <1>2 DEF ReplaceTurn
  <1>3. CASE ~(Engine!Reached(limit, c) \/ ~Engine!Matches(re, p))
    <2>1. PICK m : m = Engine!find_from_pos(re, p)
      OBVIOUS
    <2>2. FoundAt(m, re, p)
      BY <1>1, <1>3, <2>1, FindIs
    <2>3. CASE ~Engine!IsLast(re, m)
      <3>1. PICK q \in 0 .. Engine!End(re) : q = Engine!next_position(re, m) /\ q > p
        BY <1>1, <2>2, <2>3, NextIs DEF BoundariesOf
      <3>2. f[<<q, c + 1>>] = g[<<q, c + 1>>]
        BY <3>1
      <3> QED
        BY <1>3, <2>1, <2>3, <3>1, <3>2 DEF ReplaceTurn
    <2>4. CASE Engine!IsLast(re, m)
      BY <1>3, <2>1, <2>4 DEF ReplaceTurn
    <2> QED
      BY <2>3, <2>4
  <1> QED
    BY <1>2, <1>3

LEMMA ReplacesText ==
    ASSUME NEW re, RegexIs(re), NEW r \in Seq(Engine!Part), NEW limit
    PROVE  \E f : Replaces(f, re, r, limit)
  <1>1. BoundariesOf(re)
    BY BoundariesAre
  <1>2. PICK n \in Nat : n = Engine!End(re)
    BY <1>1 DEF BoundariesOf
  <1>3. PICK D : D = (0 .. n) \X Nat
    OBVIOUS
  <1>4. PICK V : V = Answers
    OBVIOUS
  <1>5. PICK F : F = [z \in D \X [D -> V] |-> ReplaceTurn(re, r, limit, z[1][1], z[1][2], z[2])]
    OBVIOUS
  <1>6. ASSUME NEW d \in D, NEW f \in [D -> V]
        PROVE  ReplaceTurn(re, r, limit, d[1], d[2], f) \in V
    <2>1. d[1] \in 0 .. Engine!End(re) /\ d[2] \in Nat
      BY <1>2, <1>3
    <2> QED
      BY <1>2, <1>3, <1>4, <2>1, TurnIsAnswer
  <1>7. /\ F \in [D \X [D -> V] -> V]
        /\ \A d \in D, f \in [D -> V] : F[<<d, f>>] = ReplaceTurn(re, r, limit, d[1], d[2], f)
    BY <1>5, <1>6
  <1>8. PICK rank : rank = [d \in D |-> n - d[1]]
    OBVIOUS
  <1>9. rank \in [D -> Nat] /\ V # {}
    <2>1. \A d \in D : n - d[1] \in Nat
      BY <1>3
    <2>2. [text |-> <<>>, count |-> 0] \in V
      BY <1>4 DEF Answers
    <2> QED
      BY <1>8, <2>1, <2>2
  <1>10. ASSUME NEW d \in D, NEW f, NEW g, \A e \in D : rank[e] < rank[d] => f[e] = g[e]
         PROVE  ReplaceTurn(re, r, limit, d[1], d[2], f) = ReplaceTurn(re, r, limit, d[1], d[2], g)
    <2>1. d[1] \in 0 .. n /\ d[2] \in Nat /\ d[2] + 1 \in Nat
      BY <1>3
    <2>2. ASSUME NEW q \in 0 .. n, q > d[1] PROVE f[<<q, d[2] + 1>>] = g[<<q, d[2] + 1>>]
      <3>1. <<q, d[2] + 1>> \in D
        BY <1>3, <2>1
      <3>2. rank[<<q, d[2] + 1>>] = n - q /\ rank[d] = n - d[1]
        BY <1>8, <3>1
      <3>3. n - q < n - d[1]
        BY <2>1, <2>2
      <3> QED
        BY <1>10, <3>1, <3>2, <3>3
    <2> QED
      BY <1>2, <2>1, <2>2, ReplaceTurnsAgree
  <1>11. LooksDown(F, D, V, rank)
    <2>1. ASSUME NEW d \in D, NEW f \in [D -> V], NEW g \in [D -> V],
                 \A e \in D : rank[e] < rank[d] => f[e] = g[e]
          PROVE  F[<<d, f>>] = F[<<d, g>>]
      <3>1. ReplaceTurn(re, r, limit, d[1], d[2], f) = ReplaceTurn(re, r, limit, d[1], d[2], g)
        BY <1>10, <2>1
      <3> QED
        BY <1>7, <3>1
    <2> QED
      BY <2>1 DEF LooksDown
  <1>12. PICK f : f \in [D -> V] /\ \A d \in D : f[d] = F[<<d, f>>]
    <2>1. IsTurn(F, D, V)
      BY <1>7 DEF IsTurn
    <2>2. \E f : Solves(f, F, D, V)
      BY <1>9, <1>11, <2>1, RankedRecursion
    <2> QED
      BY <2>2 DEF Solves
  <1>13. ASSUME NEW p \in 0 .. n, NEW c \in Nat
         PROVE  f[<<p, c>>] = ReplaceTurn(re, r, limit, p, c, f)
    <2>1. <<p, c>> \in D
      BY <1>3
    <2> QED
      BY <1>7, <1>12, <2>1
  <1>14. Engine!Positions(re) = 0 .. n
    BY <1>1, <1>2 DEF BoundariesOf
  <1>15. f = [at \in Engine!Positions(re) \X Nat |-> f[at]]
    BY <1>3, <1>12, <1>14
  <1>16. AreReplaced(f, re, r, limit)
    <2>1. \A at \in Engine!Positions(re) \X Nat : f[at] = ReplaceTurn(re, r, limit, at[1], at[2], f)
      BY <1>3, <1>7, <1>12, <1>14
    <2> QED
      BY <1>15, <2>1 DEF AreReplaced, ReplaceTurn
  <1>17. PICK g : g = CHOOSE h : AreReplaced(h, re, r, limit)
    OBVIOUS
  <1>18. AreReplaced(g, re, r, limit)
    BY <1>16, <1>17
  <1>19. Engine!replace(re, r, limit) = g[<<0, 0>>]
    BY <1>17 DEF Engine!replace, AreReplaced
  <1>20. \A d \in D : g[d] = ReplaceTurn(re, r, limit, d[1], d[2], g)
    BY <1>3, <1>14, <1>18 DEF AreReplaced, ReplaceTurn
  <1>21. PICK T : T = {d \in D : f[d] = g[d]}
    OBVIOUS
  <1>22. ASSUME NEW d \in D, \A e \in D : rank[e] < rank[d] => e \in T PROVE d \in T
    <2>1. ReplaceTurn(re, r, limit, d[1], d[2], f) = ReplaceTurn(re, r, limit, d[1], d[2], g)
      BY <1>10, <1>21, <1>22
    <2>2. f[d] = ReplaceTurn(re, r, limit, d[1], d[2], f)
      BY <1>7, <1>12
    <2> QED
      BY <1>20, <1>21, <2>1, <2>2
  <1>23. \A d \in D : d \in T
    BY <1>9, <1>22, RankInduction
  <1>24. Engine!replace(re, r, limit) = f[<<0, 0>>]
    <2>1. <<0, 0>> \in D
      BY <1>3
    <2> QED
      BY <1>19, <1>21, <1>23, <2>1
  <1> QED
    BY <1>2, <1>3, <1>4, <1>12, <1>13, <1>24 DEF Replaces


-----------------------------------------------------------------------------
(* Splitting at matches.                                                   *)

LEMMA SliceIsText ==
    ASSUME NEW re, RegexIs(re), NEW a \in Nat, NEW b \in Nat, b <= Engine!End(re)
    PROVE  Engine!Slice(re, a, b) \in Seq(Bytes)
  <1>1. PICK s \in Seq(Bytes) : s = re.subject
    BY DEF RegexIs
  <1>2. CASE a <= b
    BY <1>2, SliceIs DEF SliceOf
  <1>3. CASE a > b
    <2>1. a + 1 \in Int /\ b \in Int /\ b < a + 1
      BY <1>3
    <2>2. SubSeq(s, a + 1, b) = <<>>
      BY <2>1, SubSeqEmpty
    <2>3. <<>> \in Seq(Bytes)
      OBVIOUS
    <2> QED
      BY <1>1, <2>2, <2>3 DEF Engine!Slice
  <1> QED
    BY <1>2, <1>3

\* A piece with the groups behind it.
Items(re, group_count, segment, m) ==
    <<Engine!Slice(re, segment, m.start)>> \o [i \in 1 .. group_count |-> Engine!Text(re, m)]

\* Items before the rest of a split, without and with the separator.
PieceFirst(re, segment, m, rest) ==
    Engine!FlattenSeq(Items(re, 0, segment, m) \o rest)
      = Engine!Slice(re, segment, m.start) \o Engine!FlattenSeq(rest)
SeparatorFirst(re, segment, m, rest) ==
    Engine!FlattenSeq(Items(re, 1, segment, m) \o rest)
      = Engine!Slice(re, segment, m.start)
        \o (Engine!Slice(re, m.start, m.end) \o Engine!FlattenSeq(rest))

LEMMA ItemsJoin ==
    ASSUME NEW re, RegexIs(re), NEW p \in Nat, NEW m, FoundAt(m, re, p), NEW segment \in Nat,
           NEW rest \in Seq(Seq(Bytes))
    PROVE  /\ PieceFirst(re, segment, m, rest) /\ SeparatorFirst(re, segment, m, rest)
           /\ \A g \in {0, 1} : Items(re, g, segment, m) \in Seq(Seq(Bytes))
  <1>1. PICK a \in Seq(Bytes) : a = Engine!Slice(re, segment, m.start)
    BY SliceIsText, BoundariesAre DEF FoundAt, BoundariesOf
  <1>2. PICK t \in Seq(Bytes) : t = Engine!Text(re, m) /\ t = Engine!Slice(re, m.start, m.end)
    BY TextIs
  <1>3. PICK S : S = Seq(Bytes)
    OBVIOUS
  <1>4. Items(re, 0, segment, m) = <<a>>
    <2>1. PICK e : e = [i \in 1 .. 0 |-> Engine!Text(re, m)]
      OBVIOUS
    <2>2. e \in [1 .. 0 -> Seq(Bytes)]
      BY <1>2, <2>1
    <2>3. e \in Seq(Seq(Bytes)) /\ Len(e) = 0
      BY <2>2
    <2>4. e = <<>>
      BY <2>3, EmptySeq
    <2>5. <<a>> \o <<>> = <<a>>
      BY <1>1
    <2> QED
      BY <1>1, <2>1, <2>4, <2>5 DEF Items
  <1>5. Items(re, 1, segment, m) = <<a>> \o <<t>>
    <2>1. [i \in 1 .. 1 |-> Engine!Text(re, m)] = <<t>>
      BY <1>2
    <2> QED
      BY <1>1, <2>1 DEF Items
  <1>6. <<a>> \in Seq(S) /\ <<t>> \in Seq(S) /\ rest \in Seq(S)
    BY <1>1, <1>2, <1>3
  <1>7. <<a>> \o <<t>> \in Seq(S) /\ <<t>> \o rest \in Seq(S)
    BY <1>6
  <1>8. PieceFirst(re, segment, m, rest)
    <2>1. Engine!FlattenSeq(<<a>> \o rest) = a \o Engine!FlattenSeq(rest)
      BY <1>1, FlattenFirst
    <2> QED
      BY <1>1, <1>4, <2>1 DEF PieceFirst
  <1>9. SeparatorFirst(re, segment, m, rest)
    <2>1. Engine!FlattenSeq(<<t>> \o rest) = t \o Engine!FlattenSeq(rest)
      BY <1>2, FlattenFirst
    <2>2. Joins(<<a>>, <<t>>, rest)
      BY <1>6, SeqJoins
    <2>3. Engine!FlattenSeq(<<a>> \o (<<t>> \o rest)) = a \o Engine!FlattenSeq(<<t>> \o rest)
      BY <1>1, <1>3, <1>7, FlattenFirst
    <2> QED
      BY <1>1, <1>2, <1>5, <2>1, <2>2, <2>3 DEF SeparatorFirst, Joins
  <1>10. \A g \in {0, 1} : Items(re, g, segment, m) \in Seq(Seq(Bytes))
    BY <1>3, <1>4, <1>5, <1>6, <1>7
  <1> QED
    BY <1>8, <1>9, <1>10

SplitTurn(re, group_count, max_split, position, segment, splits, from) ==
    IF Engine!Reached(max_split, splits) \/ ~Engine!Matches(re, position)
    THEN <<Engine!Slice(re, segment, Engine!End(re))>>
    ELSE LET m == Engine!find_from_pos(re, position)
             items == <<Engine!Slice(re, segment, m.start)>>
                      \o [i \in 1 .. group_count |-> Engine!Text(re, m)]
         IN  IF Engine!IsLast(re, m)
             THEN items \o <<Engine!Slice(re, m.end, Engine!End(re))>>
             ELSE items \o from[<<Engine!next_position(re, m), m.end, splits + 1>>]

AreSplit(f, re, group_count, max_split) ==
    f = [at \in Engine!Positions(re) \X Engine!Positions(re) \X Nat |->
            LET position == at[1]
                segment == at[2]
                splits == at[3]
            IN
            IF Engine!Reached(max_split, splits) \/ ~Engine!Matches(re, position)
            THEN <<Engine!Slice(re, segment, Engine!End(re))>>
            ELSE LET m == Engine!find_from_pos(re, position)
                     items == <<Engine!Slice(re, segment, m.start)>>
                              \o [i \in 1 .. group_count |-> Engine!Text(re, m)]
                 IN  IF Engine!IsLast(re, m)
                     THEN items \o <<Engine!Slice(re, m.end, Engine!End(re))>>
                     ELSE items \o f[<<Engine!next_position(re, m), m.end, splits + 1>>]]

SplitAt(re) == (0 .. Engine!End(re)) \X (0 .. Engine!End(re)) \X Nat

Splits(f, re, g, limit) ==
    /\ f \in [SplitAt(re) -> Seq(Seq(Bytes))]
    /\ \A p, s \in 0 .. Engine!End(re), c \in Nat :
          f[<<p, s, c>>] = SplitTurn(re, g, limit, p, s, c, f)
    /\ Engine!split(re, g, limit) = f[<<0, 0, 0>>]

LEMMA TurnIsSplit ==
    ASSUME NEW re, RegexIs(re), NEW g \in {0, 1}, NEW limit,
           NEW p \in 0 .. Engine!End(re), NEW s \in 0 .. Engine!End(re), NEW c \in Nat,
           NEW f, f \in [SplitAt(re) -> Seq(Seq(Bytes))]
    PROVE  SplitTurn(re, g, limit, p, s, c, f) \in Seq(Seq(Bytes))
  <1>1. BoundariesOf(re) /\ p \in Nat /\ s \in Nat /\ Engine!End(re) \in Nat
    BY BoundariesAre DEF BoundariesOf
  <1>2. CASE Engine!Reached(limit, c) \/ ~Engine!Matches(re, p)
    <2>1. PICK a \in Seq(Bytes) : a = Engine!Slice(re, s, Engine!End(re))
      BY <1>1, SliceIsText
    <2>2. <<a>> \in Seq(Seq(Bytes))
      BY <2>1
    <2> QED
      BY <1>2, <2>1, <2>2 DEF SplitTurn
  <1>3. CASE ~(Engine!Reached(limit, c) \/ ~Engine!Matches(re, p))
    <2>1. PICK m : m = Engine!find_from_pos(re, p)
      OBVIOUS
    <2>2. FoundAt(m, re, p)
      BY <1>1, <1>3, <2>1, FindIs
    <2>3. PICK items \in Seq(Seq(Bytes)) : items = Items(re, g, s, m)
      <3>1. <<>> \in Seq(Seq(Bytes))
        OBVIOUS
      <3> QED
        BY <1>1, <2>2, <3>1, ItemsJoin
    <2>4. CASE Engine!IsLast(re, m)
      <3>1. PICK a \in Seq(Bytes) : a = Engine!Slice(re, m.end, Engine!End(re))
        BY <1>1, <2>2, SliceIsText DEF FoundAt
      <3>2. items \o <<a>> \in Seq(Seq(Bytes))
        BY <2>3, <3>1
      <3> QED
        BY <1>3, <2>1, <2>3, <2>4, <3>1, <3>2 DEF SplitTurn, Items
    <2>5. CASE ~Engine!IsLast(re, m)
      <3>1. PICK q \in 0 .. Engine!End(re) : q = Engine!next_position(re, m)
        BY <1>1, <2>2, <2>5, NextIs DEF BoundariesOf
      <3>2. m.end \in 0 .. Engine!End(re) /\ c + 1 \in Nat
        BY <1>1, <2>2 DEF FoundAt
      <3>3. PICK rest \in Seq(Seq(Bytes)) : rest = f[<<q, m.end, c + 1>>]
        BY <3>1, <3>2 DEF SplitAt
      <3>4. items \o rest \in Seq(Seq(Bytes))
        BY <2>3, <3>3
      <3> QED
        BY <1>3, <2>1, <2>3, <2>5, <3>1, <3>3, <3>4 DEF SplitTurn, Items
    <2> QED
      BY <2>4, <2>5
  <1> QED
    BY <1>2, <1>3

LEMMA SplitTurnsAgree ==
    ASSUME NEW re, RegexIs(re), NEW gc, NEW limit, NEW p \in 0 .. Engine!End(re),
           NEW s, NEW c \in Nat, NEW f, NEW g,
           \A q, t \in 0 .. Engine!End(re) :
              q > p => f[<<q, t, c + 1>>] = g[<<q, t, c + 1>>]
    PROVE  SplitTurn(re, gc, limit, p, s, c, f) = SplitTurn(re, gc, limit, p, s, c, g)
  <1>1. BoundariesOf(re) /\ p \in Nat
    BY BoundariesAre DEF BoundariesOf
  <1>2. CASE Engine!Reached(limit, c) \/ ~Engine!Matches(re, p)
    BY <1>2 DEF SplitTurn
  <1>3. CASE ~(Engine!Reached(limit, c) \/ ~Engine!Matches(re, p))
    <2>1. PICK m : m = Engine!find_from_pos(re, p)
      OBVIOUS
    <2>2. FoundAt(m, re, p)
      BY <1>1, <1>3, <2>1, FindIs
    <2>3. CASE ~Engine!IsLast(re, m)
      <3>1. PICK q \in 0 .. Engine!End(re) : q = Engine!next_position(re, m) /\ q > p
        BY <1>1, <2>2, <2>3, NextIs DEF BoundariesOf
      <3>2. m.end \in 0 .. Engine!End(re)
        BY <1>1, <2>2 DEF FoundAt, BoundariesOf
      <3>3. f[<<q, m.end, c + 1>>] = g[<<q, m.end, c + 1>>]
        BY <3>1, <3>2
      <3> QED
        BY <1>3, <2>1, <2>3, <3>1, <3>3 DEF SplitTurn
    <2>4. CASE Engine!IsLast(re, m)
      BY <1>3, <2>1, <2>4 DEF SplitTurn
    <2> QED
      BY <2>3, <2>4
  <1> QED
    BY <1>2, <1>3

LEMMA SplitsText ==
    ASSUME NEW re, RegexIs(re), NEW gc \in {0, 1}, NEW limit
    PROVE  \E f : Splits(f, re, gc, limit)
  <1>1. BoundariesOf(re)
    BY BoundariesAre
  <1>2. PICK n \in Nat : n = Engine!End(re)
    BY <1>1 DEF BoundariesOf
  <1>3. PICK D : D = (0 .. n) \X (0 .. n) \X Nat
    OBVIOUS
  <1>4. PICK V : V = Seq(Seq(Bytes))
    OBVIOUS
  <1>5. PICK F : F = [z \in D \X [D -> V] |-> SplitTurn(re, gc, limit, z[1][1], z[1][2], z[1][3], z[2])]
    OBVIOUS
  <1>6. ASSUME NEW d \in D, NEW f \in [D -> V]
        PROVE  SplitTurn(re, gc, limit, d[1], d[2], d[3], f) \in V
    <2>1. d[1] \in 0 .. Engine!End(re) /\ d[2] \in 0 .. Engine!End(re) /\ d[3] \in Nat
      BY <1>2, <1>3
    <2> QED
      BY <1>2, <1>3, <1>4, <2>1, TurnIsSplit DEF SplitAt
  <1>7. /\ F \in [D \X [D -> V] -> V]
        /\ \A d \in D, f \in [D -> V] : F[<<d, f>>] = SplitTurn(re, gc, limit, d[1], d[2], d[3], f)
    BY <1>5, <1>6
  <1>8. PICK rank : rank = [d \in D |-> n - d[1]]
    OBVIOUS
  <1>9. rank \in [D -> Nat] /\ V # {}
    <2>1. \A d \in D : n - d[1] \in Nat
      BY <1>3
    <2>2. <<>> \in V
      BY <1>4
    <2> QED
      BY <1>8, <2>1, <2>2
  <1>10. ASSUME NEW d \in D, NEW f, NEW g, \A e \in D : rank[e] < rank[d] => f[e] = g[e]
         PROVE  SplitTurn(re, gc, limit, d[1], d[2], d[3], f) = SplitTurn(re, gc, limit, d[1], d[2], d[3], g)
    <2>1. d[1] \in 0 .. n /\ d[2] \in 0 .. n /\ d[3] \in Nat /\ d[3] + 1 \in Nat
      BY <1>3
    <2>2. ASSUME NEW q \in 0 .. n, NEW t \in 0 .. n, q > d[1]
          PROVE  f[<<q, t, d[3] + 1>>] = g[<<q, t, d[3] + 1>>]
      <3>1. <<q, t, d[3] + 1>> \in D
        BY <1>3, <2>1
      <3>2. rank[<<q, t, d[3] + 1>>] = n - q /\ rank[d] = n - d[1]
        BY <1>8, <3>1
      <3>3. n - q < n - d[1]
        BY <2>1, <2>2
      <3> QED
        BY <1>10, <3>1, <3>2, <3>3
    <2> QED
      BY <1>2, <2>1, <2>2, SplitTurnsAgree
  <1>11. LooksDown(F, D, V, rank)
    <2>1. ASSUME NEW d \in D, NEW f \in [D -> V], NEW g \in [D -> V],
                 \A e \in D : rank[e] < rank[d] => f[e] = g[e]
          PROVE  F[<<d, f>>] = F[<<d, g>>]
      <3>1. SplitTurn(re, gc, limit, d[1], d[2], d[3], f) = SplitTurn(re, gc, limit, d[1], d[2], d[3], g)
        BY <1>10, <2>1
      <3> QED
        BY <1>7, <3>1
    <2> QED
      BY <2>1 DEF LooksDown
  <1>12. PICK f : f \in [D -> V] /\ \A d \in D : f[d] = F[<<d, f>>]
    <2>1. IsTurn(F, D, V)
      BY <1>7 DEF IsTurn
    <2>2. \E f : Solves(f, F, D, V)
      BY <1>9, <1>11, <2>1, RankedRecursion
    <2> QED
      BY <2>2 DEF Solves
  <1>13. ASSUME NEW p \in 0 .. n, NEW s \in 0 .. n, NEW c \in Nat
         PROVE  f[<<p, s, c>>] = SplitTurn(re, gc, limit, p, s, c, f)
    <2>1. <<p, s, c>> \in D
      BY <1>3
    <2> QED
      BY <1>7, <1>12, <2>1
  <1>14. Engine!Positions(re) = 0 .. n
    BY <1>1, <1>2 DEF BoundariesOf
  <1>15. f = [at \in Engine!Positions(re) \X Engine!Positions(re) \X Nat |-> f[at]]
    BY <1>3, <1>12, <1>14
  <1>16. AreSplit(f, re, gc, limit)
    <2>1. \A at \in Engine!Positions(re) \X Engine!Positions(re) \X Nat : f[at] = SplitTurn(re, gc, limit, at[1], at[2], at[3], f)
      BY <1>3, <1>7, <1>12, <1>14
    <2> QED
      BY <1>15, <2>1 DEF AreSplit, SplitTurn
  <1>17. PICK g : g = CHOOSE h : AreSplit(h, re, gc, limit)
    OBVIOUS
  <1>18. AreSplit(g, re, gc, limit)
    BY <1>16, <1>17
  <1>19. Engine!split(re, gc, limit) = g[<<0, 0, 0>>]
    BY <1>17 DEF Engine!split, AreSplit
  <1>20. \A d \in D : g[d] = SplitTurn(re, gc, limit, d[1], d[2], d[3], g)
    BY <1>3, <1>14, <1>18 DEF AreSplit, SplitTurn
  <1>21. PICK T : T = {d \in D : f[d] = g[d]}
    OBVIOUS
  <1>22. ASSUME NEW d \in D, \A e \in D : rank[e] < rank[d] => e \in T PROVE d \in T
    <2>1. SplitTurn(re, gc, limit, d[1], d[2], d[3], f) = SplitTurn(re, gc, limit, d[1], d[2], d[3], g)
      BY <1>10, <1>21, <1>22
    <2>2. f[d] = SplitTurn(re, gc, limit, d[1], d[2], d[3], f)
      BY <1>7, <1>12
    <2> QED
      BY <1>20, <1>21, <2>1, <2>2
  <1>23. \A d \in D : d \in T
    BY <1>9, <1>22, RankInduction
  <1>24. Engine!split(re, gc, limit) = f[<<0, 0, 0>>]
    <2>1. <<0, 0, 0>> \in D
      BY <1>3
    <2> QED
      BY <1>19, <1>21, <1>23, <2>1
  <1> QED
    BY <1>2, <1>3, <1>4, <1>12, <1>13, <1>24 DEF Splits, SplitAt


-----------------------------------------------------------------------------
(* Matches that overlap.                                                   *)

OverlapTurn(re, position, from) ==
    IF ~Engine!Matches(re, position) THEN <<>>
    ELSE LET m == Engine!find_from_pos(re, position)
         IN  IF m.start >= Engine!End(re) THEN <<m>>
             ELSE <<m>> \o from[Engine!advance(re, m.start)]

AreOverlapping(f, re) ==
    f = [position \in Engine!Positions(re) |->
           IF ~Engine!Matches(re, position) THEN <<>>
           ELSE LET m == Engine!find_from_pos(re, position)
                IN  IF m.start >= Engine!End(re) THEN <<m>>
                    ELSE <<m>> \o f[Engine!advance(re, m.start)]]

Overlaps(f, re) ==
    /\ f \in [0 .. Engine!End(re) -> Seq(Spans)] /\ Engine!overlapping(re) = f[0]
    /\ \A p \in 0 .. Engine!End(re) : f[p] = OverlapTurn(re, p, f)

\* Behind a start, at the next character, the search goes on.
LEMMA GoesOnAfter ==
    ASSUME NEW re, RegexIs(re), NEW p \in Nat, NEW m, FoundAt(m, re, p),
           ~(m.start >= Engine!End(re))
    PROVE  /\ Engine!advance(re, m.start) \in 0 .. Engine!End(re)
           /\ Engine!advance(re, m.start) > p
           /\ m.start \notin Engine!StartsFrom(re, Engine!advance(re, m.start))
           /\ Engine!StartsFrom(re, p)
                = Engine!StartsFrom(re, Engine!advance(re, m.start)) \cup {m.start}
  <1>1. BoundariesOf(re) /\ m.start \in Nat /\ m.start < Engine!End(re) /\ p <= m.start
    BY BoundariesAre DEF BoundariesOf, FoundAt
  <1>2. PICK q \in Nat :
          /\ q = Engine!advance(re, m.start) /\ m.start < q /\ q <= Engine!End(re)
          /\ \A j \in Engine!Boundaries(re) : j > m.start => q <= j
    BY <1>1, AdvanceIs
  <1>3. ASSUME NEW s PROVE s \in Engine!StartsFrom(re, p) <=> s \in Engine!StartsFrom(re, q) \/ s = m.start
    <2>1. ASSUME s \in Engine!StartsFrom(re, p) PROVE s \in Engine!StartsFrom(re, q) \/ s = m.start
      <3>1. s \in Engine!Boundaries(re) /\ s \in Nat /\ re.pattern[s] # None /\ m.start <= s
        BY <1>1, <2>1 DEF Engine!StartsFrom, FoundAt, BoundariesOf
      <3>2. s = m.start \/ q <= s
        BY <1>1, <1>2, <3>1
      <3> QED
        BY <3>1, <3>2 DEF Engine!StartsFrom
    <2>2. ASSUME s \in Engine!StartsFrom(re, q) PROVE s \in Engine!StartsFrom(re, p)
      <3>1. s \in Engine!Boundaries(re) /\ s \in Nat /\ s >= q /\ re.pattern[s] # None
        BY <1>1, <2>2 DEF Engine!StartsFrom, BoundariesOf
      <3>2. s >= p
        BY <1>1, <1>2, <3>1
      <3> QED
        BY <3>1, <3>2 DEF Engine!StartsFrom
    <2>3. m.start \in Engine!StartsFrom(re, p)
      BY <1>1 DEF Engine!StartsFrom, FoundAt
    <2> QED
      BY <2>1, <2>2, <2>3
  <1>4. m.start \notin Engine!StartsFrom(re, q)
    BY <1>1, <1>2 DEF Engine!StartsFrom
  <1> QED
    BY <1>1, <1>2, <1>3, <1>4

LEMMA TurnOverlaps ==
    ASSUME NEW re, RegexIs(re), NEW p \in 0 .. Engine!End(re),
           NEW f, f \in [0 .. Engine!End(re) -> Seq(Spans)]
    PROVE  OverlapTurn(re, p, f) \in Seq(Spans)
  <1>1. BoundariesOf(re) /\ p \in Nat
    BY BoundariesAre DEF BoundariesOf
  <1>2. CASE ~Engine!Matches(re, p)
    BY <1>2 DEF OverlapTurn
  <1>3. CASE Engine!Matches(re, p)
    <2>1. PICK m : m = Engine!find_from_pos(re, p)
      OBVIOUS
    <2>2. FoundAt(m, re, p)
      BY <1>1, <1>3, <2>1, FindIs
    <2>3. m \in Spans
      BY <2>2 DEF FoundAt, Spans
    <2>4. CASE m.start >= Engine!End(re)
      BY <1>3, <2>1, <2>3, <2>4 DEF OverlapTurn
    <2>5. CASE ~(m.start >= Engine!End(re))
      <3>1. Engine!advance(re, m.start) \in 0 .. Engine!End(re)
        BY <1>1, <2>2, <2>5, GoesOnAfter
      <3>2. f[Engine!advance(re, m.start)] \in Seq(Spans)
        BY <3>1
      <3>3. <<m>> \o f[Engine!advance(re, m.start)] \in Seq(Spans)
        BY <2>3, <3>2
      <3> QED
        BY <1>3, <2>1, <2>5, <3>3 DEF OverlapTurn
    <2> QED
      BY <2>4, <2>5
  <1> QED
    BY <1>2, <1>3

LEMMA OverlapTurnsAgree ==
    ASSUME NEW re, RegexIs(re), NEW p \in 0 .. Engine!End(re), NEW f, NEW g,
           \A q \in 0 .. Engine!End(re) : q > p => f[q] = g[q]
    PROVE  OverlapTurn(re, p, f) = OverlapTurn(re, p, g)
  <1>1. BoundariesOf(re) /\ p \in Nat
    BY BoundariesAre DEF BoundariesOf
  <1>2. CASE ~Engine!Matches(re, p)
    BY <1>2 DEF OverlapTurn
  <1>3. CASE Engine!Matches(re, p)
    <2>1. PICK m : m = Engine!find_from_pos(re, p)
      OBVIOUS
    <2>2. FoundAt(m, re, p)
      BY <1>1, <1>3, <2>1, FindIs
    <2>3. CASE ~(m.start >= Engine!End(re))
      <3>1. PICK q \in 0 .. Engine!End(re) : q = Engine!advance(re, m.start) /\ q > p
        BY <1>1, <2>2, <2>3, GoesOnAfter
      <3>2. f[q] = g[q]
        BY <3>1
      <3> QED
        BY <1>3, <2>1, <2>3, <3>1, <3>2 DEF OverlapTurn
    <2>4. CASE m.start >= Engine!End(re)
      BY <1>3, <2>1, <2>4 DEF OverlapTurn
    <2> QED
      BY <2>3, <2>4
  <1> QED
    BY <1>2, <1>3

LEMMA OverlapsText == ASSUME NEW re, RegexIs(re) PROVE \E f : Overlaps(f, re)
  <1>1. BoundariesOf(re)
    BY BoundariesAre
  <1>2. PICK n \in Nat : n = Engine!End(re)
    BY <1>1 DEF BoundariesOf
  <1>3. PICK D : D = 0 .. n
    OBVIOUS
  <1>4. PICK V : V = Seq(Spans)
    OBVIOUS
  <1>5. PICK F : F = [z \in D \X [D -> V] |-> OverlapTurn(re, z[1], z[2])]
    OBVIOUS
  <1>6. \A d \in D, f \in [D -> V] : OverlapTurn(re, d, f) \in V
    BY <1>2, <1>3, <1>4, TurnOverlaps
  <1>7. /\ F \in [D \X [D -> V] -> V]
        /\ \A d \in D, f \in [D -> V] : F[<<d, f>>] = OverlapTurn(re, d, f)
    BY <1>5, <1>6
  <1>8. PICK rank : rank = [d \in D |-> n - d]
    OBVIOUS
  <1>9. rank \in [D -> Nat] /\ <<>> \in V
    BY <1>3, <1>4, <1>8
  <1>10. ASSUME NEW d \in D, NEW f, NEW g, \A e \in D : rank[e] < rank[d] => f[e] = g[e]
         PROVE  OverlapTurn(re, d, f) = OverlapTurn(re, d, g)
    <2>1. \A e \in D : e > d => f[e] = g[e]
      BY <1>3, <1>8, <1>10
    <2> QED
      BY <1>2, <1>3, <2>1, OverlapTurnsAgree
  <1>11. LooksDown(F, D, V, rank)
    <2>1. ASSUME NEW d \in D, NEW f \in [D -> V], NEW g \in [D -> V],
                 \A e \in D : rank[e] < rank[d] => f[e] = g[e]
          PROVE  F[<<d, f>>] = F[<<d, g>>]
      <3>1. OverlapTurn(re, d, f) = OverlapTurn(re, d, g)
        BY <1>10, <2>1
      <3> QED
        BY <1>7, <3>1
    <2> QED
      BY <2>1 DEF LooksDown
  <1>12. PICK f : f \in [D -> V] /\ \A d \in D : f[d] = F[<<d, f>>]
    <2>1. IsTurn(F, D, V) /\ V # {}
      BY <1>7, <1>9 DEF IsTurn
    <2>2. \E f : Solves(f, F, D, V)
      BY <1>9, <1>11, <2>1, RankedRecursion
    <2> QED
      BY <2>2 DEF Solves
  <1>13. \A d \in D : f[d] = OverlapTurn(re, d, f)
    BY <1>7, <1>12
  <1>14. f = [d \in Engine!Positions(re) |-> f[d]] /\ Engine!Positions(re) = D
    BY <1>1, <1>2, <1>3, <1>12 DEF BoundariesOf
  <1>15. AreOverlapping(f, re)
    BY <1>13, <1>14 DEF AreOverlapping, OverlapTurn
  <1>16. PICK g : g = CHOOSE h : AreOverlapping(h, re)
    OBVIOUS
  <1>17. AreOverlapping(g, re)
    BY <1>15, <1>16
  <1>18. Engine!overlapping(re) = g[0]
    BY <1>16 DEF Engine!overlapping, AreOverlapping
  <1>19. \A d \in D : g[d] = OverlapTurn(re, d, g)
    BY <1>14, <1>17 DEF AreOverlapping, OverlapTurn
  <1>20. PICK T : T = {d \in D : f[d] = g[d]}
    OBVIOUS
  <1>21. ASSUME NEW d \in D, \A e \in D : rank[e] < rank[d] => e \in T PROVE d \in T
    BY <1>10, <1>13, <1>19, <1>20, <1>21
  <1>22. \A d \in D : d \in T
    BY <1>9, <1>21, RankInduction
  <1>23. Engine!overlapping(re) = f[0]
    BY <1>3, <1>18, <1>20, <1>22
  <1> QED
    BY <1>2, <1>3, <1>4, <1>12, <1>13, <1>23 DEF Overlaps

LEMMA StartsCount == ASSUME NEW S PROVE Engine!Cardinality(S) = Cardinality(S)
  BY DEF Engine!Cardinality, Cardinality

\* Every start is found once.
LEMMA OverlapsAreStarts ==
    ASSUME NEW re, RegexIs(re)
    PROVE  Len(Engine!overlapping(re)) = Engine!Cardinality(Engine!StartsFrom(re, 0))
  <1>1. BoundariesOf(re)
    BY BoundariesAre
  <1>2. PICK n \in Nat : n = Engine!End(re)
    BY <1>1 DEF BoundariesOf
  <1>3. PICK f : Overlaps(f, re)
    BY OverlapsText
  <1>4. PICK T : T = {p \in 0 .. n : Len(f[p]) = Cardinality(Engine!StartsFrom(re, p))}
    OBVIOUS
  <1>5. ASSUME NEW p \in 0 .. n
        PROVE  IsFiniteSet(Engine!StartsFrom(re, p)) /\ f[p] \in Seq(Spans)
               /\ f[p] = OverlapTurn(re, p, f)
    <2>1. Engine!StartsFrom(re, p) \subseteq 0 .. n /\ IsFiniteSet(0 .. n)
      BY <1>1, <1>2, FS_Interval DEF BoundariesOf, Engine!StartsFrom
    <2> QED
      BY <1>2, <1>3, <2>1, FS_Subset DEF Overlaps
  <1>6. ASSUME NEW p \in 0 .. n, \A q \in 0 .. n : q > p => q \in T PROVE p \in T
    <2>1. p \in Nat
      OBVIOUS
    <2>2. CASE ~Engine!Matches(re, p)
      <3>1. f[p] = <<>> /\ Engine!StartsFrom(re, p) = {}
        BY <1>5, <2>2 DEF OverlapTurn, Engine!Matches
      <3>2. Len(f[p]) = 0
        BY <3>1
      <3> QED
        BY <1>4, <3>1, <3>2, FS_EmptySet
    <2>3. CASE Engine!Matches(re, p)
      <3>1. PICK m : m = Engine!find_from_pos(re, p)
        OBVIOUS
      <3>2. FoundAt(m, re, p) /\ m \in Spans
        <4>1. FoundAt(m, re, p)
          BY <2>1, <2>3, <3>1, FindIs
        <4> QED
          BY <4>1 DEF FoundAt, Spans
      <3>3. CASE m.start >= Engine!End(re)
        <4>1. f[p] = <<m>>
          BY <1>5, <2>3, <3>1, <3>3 DEF OverlapTurn
        <4>2. m.start \in Engine!StartsFrom(re, p)
          BY <2>1, <3>2 DEF Engine!StartsFrom, FoundAt
        <4>3. ASSUME NEW s \in Engine!StartsFrom(re, p) PROVE s = m.start
          <5>1. s \in Nat /\ s <= Engine!End(re) /\ m.start <= s
            BY <1>1, <3>2 DEF Engine!StartsFrom, FoundAt, BoundariesOf
          <5> QED
            BY <1>2, <3>2, <3>3, <5>1 DEF FoundAt
        <4>4. Engine!StartsFrom(re, p) = {m.start}
          BY <4>2, <4>3
        <4>5. Len(f[p]) = 1
          BY <3>2, <4>1
        <4> QED
          BY <1>4, <4>4, <4>5, FS_Singleton
      <3>4. CASE ~(m.start >= Engine!End(re))
        <4>1. PICK q \in 0 .. n :
                /\ q = Engine!advance(re, m.start) /\ q > p
                /\ m.start \notin Engine!StartsFrom(re, q)
                /\ Engine!StartsFrom(re, p) = Engine!StartsFrom(re, q) \cup {m.start}
          BY <1>2, <2>1, <3>2, <3>4, GoesOnAfter
        <4>2. f[p] = <<m>> \o f[q] /\ f[q] \in Seq(Spans)
          BY <1>5, <2>3, <3>1, <3>4, <4>1 DEF OverlapTurn
        <4>3. Len(f[p]) = Len(f[q]) + 1
          BY <3>2, <4>2
        <4>4. Len(f[q]) = Cardinality(Engine!StartsFrom(re, q))
          BY <1>4, <1>6, <4>1
        <4>5. Cardinality(Engine!StartsFrom(re, p)) = Cardinality(Engine!StartsFrom(re, q)) + 1
          BY <1>5, <4>1, FS_AddElement
        <4> QED
          BY <1>4, <4>3, <4>4, <4>5
      <3> QED
        BY <3>3, <3>4
    <2> QED
      BY <2>2, <2>3
  <1>7. \A p \in 0 .. n : p \in T
    BY <1>6, Downwards
  <1>8. 0 \in 0 .. n
    OBVIOUS
  <1> QED
    BY <1>3, <1>4, <1>7, <1>8, StartsCount DEF Overlaps


-----------------------------------------------------------------------------
(* What replacing and splitting keep.                                      *)

LEMMA FlattenOne == ASSUME NEW a \in Seq(Bytes) PROVE Engine!FlattenSeq(<<a>>) = a
  <1>1. <<>> \in Seq(Seq(Bytes)) /\ a \o <<>> = a
    OBVIOUS
  <1>2. PICK S : S = Seq(Bytes)
    OBVIOUS
  <1>3. <<a>> \o <<>> = <<a>>
    BY <1>2
  <1>4. Engine!FlattenSeq(<<a>> \o <<>>) = a \o Engine!FlattenSeq(<<>>)
    BY <1>1, FlattenFirst
  <1>5. Engine!FlattenSeq(<<>>) = <<>>
    BY <1>1, FlattenIs
  <1> QED
    BY <1>1, <1>3, <1>4, <1>5

SliceJoins(re, a, b, c) ==
    Engine!Slice(re, a, b) \o Engine!Slice(re, b, c) = Engine!Slice(re, a, c)

LEMMA SlicesMeet ==
    ASSUME NEW re, RegexIs(re), NEW a \in Nat, NEW b \in Nat, NEW c \in Nat,
           a <= b, b <= c, c <= Engine!End(re)
    PROVE  SliceJoins(re, a, b, c)
  BY SlicesJoin DEF SliceJoins

CountedTo(limit, c, k) == IF limit < 0 \/ c + k <= limit THEN c + k ELSE limit

LEMMA ReplacedAreCounted ==
    ASSUME NEW re, RegexIs(re), NEW r \in Seq(Engine!Part), NEW limit \in Int
    PROVE  Engine!replace(re, r, limit).count = Engine!Replaced(re, limit)
  <1>1. BoundariesOf(re)
    BY BoundariesAre
  <1>2. PICK n \in Nat : n = Engine!End(re)
    BY <1>1 DEF BoundariesOf
  <1>3. PICK f : Scans(f, re)
    BY MatchesScan
  <1>4. PICK g : Replaces(g, re, r, limit)
    BY ReplacesText
  <1>5. PICK T : T = {p \in 0 .. n : \A c \in Nat :
                        limit < 0 \/ c <= limit =>
                           g[<<p, c>>].count = CountedTo(limit, c, Len(f[p]))}
    OBVIOUS
  <1>6. ASSUME NEW p \in 0 .. n, \A q \in 0 .. n : q > p => q \in T PROVE p \in T
    <2>1. ASSUME NEW c \in Nat, limit < 0 \/ c <= limit
          PROVE  g[<<p, c>>].count = CountedTo(limit, c, Len(f[p]))
      <3>1. /\ g[<<p, c>>] = ReplaceTurn(re, r, limit, p, c, g)
            /\ f[p] = MatchTurn(re, p, f) /\ f[p] \in Seq(Spans) /\ p \in Nat
        BY <1>2, <1>3, <1>4 DEF Replaces, Scans
      <3>2. Len(f[p]) \in Nat
        BY <3>1
      <3>3. CASE Engine!Reached(limit, c)
        <4>1. g[<<p, c>>].count = c
          BY <3>1, <3>3 DEF ReplaceTurn
        <4>2. limit >= 0 /\ c = limit
          BY <2>1, <3>3 DEF Engine!Reached
        <4> QED
          BY <3>2, <4>1, <4>2 DEF CountedTo
      <3>4. CASE ~Engine!Matches(re, p)
        <4>1. g[<<p, c>>].count = c /\ f[p] = <<>>
          BY <3>1, <3>4 DEF ReplaceTurn, MatchTurn
        <4>2. Len(f[p]) = 0
          BY <4>1
        <4> QED
          BY <2>1, <4>1, <4>2 DEF CountedTo
      <3>5. CASE ~Engine!Reached(limit, c) /\ Engine!Matches(re, p)
        <4>1. PICK m : m = Engine!find_from_pos(re, p)
          OBVIOUS
        <4>2. FoundAt(m, re, p) /\ m \in Spans
          <5>1. FoundAt(m, re, p)
            BY <3>1, <3>5, <4>1, FindIs
          <5> QED
            BY <5>1 DEF FoundAt, Spans
        <4>3. limit < 0 \/ c + 1 <= limit
          BY <3>5 DEF Engine!Reached
        <4>4. CASE Engine!IsLast(re, m)
          <5>1. g[<<p, c>>].count = c + 1 /\ f[p] = <<m>>
            BY <3>1, <3>5, <4>1, <4>4 DEF ReplaceTurn, MatchTurn
          <5>2. Len(f[p]) = 1
            BY <4>2, <5>1
          <5> QED
            BY <4>3, <5>1, <5>2 DEF CountedTo
        <4>5. CASE ~Engine!IsLast(re, m)
          <5>1. PICK q \in 0 .. n : q = Engine!next_position(re, m) /\ q > p
            BY <1>1, <1>2, <3>1, <4>2, <4>5, NextIs DEF BoundariesOf
          <5>2. g[<<p, c>>].count = g[<<q, c + 1>>].count /\ f[p] = <<m>> \o f[q]
            BY <3>1, <3>5, <4>1, <4>5, <5>1, SMTT(30) DEF ReplaceTurn, MatchTurn
          <5>3. f[q] \in Seq(Spans)
            BY <1>2, <1>3 DEF Scans
          <5>4. PICK k \in Nat : Len(f[p]) = k + 1 /\ Len(f[q]) = k
            BY <4>2, <5>2, <5>3
          <5>5. g[<<q, c + 1>>].count = CountedTo(limit, c + 1, Len(f[q]))
            BY <1>5, <1>6, <4>3, <5>1
          <5>6. CountedTo(limit, c + 1, k) = CountedTo(limit, c, k + 1)
            BY DEF CountedTo
          <5> QED
            BY <5>2, <5>4, <5>5, <5>6
        <4> QED
          BY <4>4, <4>5
      <3> QED
        BY <3>3, <3>4, <3>5
    <2> QED
      BY <1>5, <2>1
  <1>7. \A p \in 0 .. n : p \in T
    BY <1>6, Downwards
  <1>8. 0 \in T
    BY <1>7
  <1>9. limit < 0 \/ 0 <= limit
    OBVIOUS
  <1>10. Engine!replace(re, r, limit).count = CountedTo(limit, 0, Len(Engine!matches(re)))
    BY <1>3, <1>4, <1>5, <1>8, <1>9 DEF Replaces, Scans
  <1>11. Len(Engine!matches(re)) \in Nat
    <2>1. f[0] \in Seq(Spans) /\ f[0] = Engine!matches(re)
      BY <1>2, <1>3 DEF Scans
    <2> QED
      BY <2>1
  <1> QED
    BY <1>10, <1>11 DEF CountedTo, Engine!Replaced

\* Matches replaced by themselves.
LEMMA ReplacedByItself ==
    ASSUME NEW re, RegexIs(re), NEW limit, <<Engine!Group(0)>> \in Seq(Engine!Part)
    PROVE  Engine!replace(re, <<Engine!Group(0)>>, limit).text = re.subject
  <1>1. BoundariesOf(re)
    BY BoundariesAre
  <1>2. PICK n \in Nat : n = Engine!End(re)
    BY <1>1 DEF BoundariesOf
  <1>3. PICK r \in Seq(Engine!Part) : r = <<Engine!Group(0)>>
    OBVIOUS
  <1>4. PICK g : Replaces(g, re, r, limit)
    BY ReplacesText
  <1>5. PICK T : T = {p \in 0 .. n : \A c \in Nat : g[<<p, c>>].text = Engine!Slice(re, p, Engine!End(re))}
    OBVIOUS
  <1>6. ASSUME NEW p \in 0 .. n, \A q \in 0 .. n : q > p => q \in T PROVE p \in T
    <2>1. ASSUME NEW c \in Nat PROVE g[<<p, c>>].text = Engine!Slice(re, p, Engine!End(re))
      <3>1. g[<<p, c>>] = ReplaceTurn(re, r, limit, p, c, g) /\ p \in Nat
        BY <1>2, <1>4 DEF Replaces
      <3>2. CASE Engine!Reached(limit, c) \/ ~Engine!Matches(re, p)
        <4>1. g[<<p, c>>] = [text |-> Engine!Slice(re, p, Engine!End(re)), count |-> c]
          BY <3>1, <3>2 DEF ReplaceTurn
        <4> QED
          BY <4>1
      <3>3. CASE ~(Engine!Reached(limit, c) \/ ~Engine!Matches(re, p))
        <4>1. PICK m : m = Engine!find_from_pos(re, p)
          OBVIOUS
        <4>2. FoundAt(m, re, p)
          BY <3>1, <3>3, <4>1, FindIs
        <4>3. /\ m.start \in Nat /\ m.end \in Nat /\ p <= m.start /\ m.start <= m.end
              /\ m.end <= Engine!End(re)
          BY <4>2 DEF FoundAt
        <4>4. PICK head : head = Engine!Slice(re, p, m.start) \o Engine!expand(re, r, m)
          OBVIOUS
        <4>5. head = Engine!Slice(re, p, m.end)
          <5>1. Engine!expand(re, r, m) = Engine!Slice(re, m.start, m.end)
            BY <1>3, <3>1, <4>2, ExpandIs, TextIs, ZenonT(60)
          <5>2. SliceJoins(re, p, m.start, m.end)
            BY <3>1, <4>3, SlicesMeet
          <5> QED
            BY <4>4, <5>1, <5>2 DEF SliceJoins
        <4>6. CASE Engine!IsLast(re, m)
          <5>1. g[<<p, c>>].text = head
            BY <3>1, <3>3, <4>1, <4>4, <4>6 DEF ReplaceTurn
          <5> QED
            BY <1>2, <3>1, <4>2, <4>5, <4>6, <5>1, LastIs
        <4>7. CASE ~Engine!IsLast(re, m)
          <5>1. PICK q \in 0 .. n : q = Engine!next_position(re, m) /\ q > p /\ q >= m.end
            BY <1>1, <1>2, <3>1, <4>2, <4>7, NextIs DEF BoundariesOf
          <5>2. g[<<p, c>>].text = head \o Engine!Slice(re, m.end, q) \o g[<<q, c + 1>>].text
            <6>1. PICK rest : rest = g[<<q, c + 1>>]
              OBVIOUS
            <6>2. PICK x : x = head \o Engine!Slice(re, m.end, q) \o rest.text
              OBVIOUS
            <6>3. ReplaceTurn(re, r, limit, p, c, g) = [text |-> x, count |-> rest.count]
              BY <3>3, <4>1, <4>4, <4>7, <5>1, <6>1, <6>2 DEF ReplaceTurn
            <6>4. ReplaceTurn(re, r, limit, p, c, g).text = x
              BY <6>3
            <6> QED
              BY <3>1, <6>1, <6>2, <6>4
          <5>3. g[<<q, c + 1>>].text = Engine!Slice(re, q, Engine!End(re))
            BY <1>5, <1>6, <5>1
          <5>4. q \in Nat /\ q <= Engine!End(re) /\ Engine!End(re) \in Nat
            BY <1>2, <5>1
          <5>5. SliceJoins(re, p, m.end, q) /\ SliceJoins(re, p, q, Engine!End(re))
            BY <3>1, <4>3, <5>1, <5>4, SlicesMeet
          <5> QED
            BY <4>5, <5>2, <5>3, <5>5 DEF SliceJoins
        <4> QED
          BY <4>6, <4>7
      <3> QED
        BY <3>2, <3>3
    <2> QED
      BY <1>5, <2>1
  <1>7. \A p \in 0 .. n : p \in T
    BY <1>6, Downwards
  <1>8. 0 \in T
    BY <1>7
  <1>9. g[<<0, 0>>].text = Engine!Slice(re, 0, Engine!End(re))
    BY <1>5, <1>8
  <1> QED
    BY <1>3, <1>4, <1>9, WholeSlice DEF Replaces

\* The groups of a split with one group are the separators.
LEMMA SplitKeepsSubject ==
    ASSUME NEW re, RegexIs(re), NEW limit
    PROVE  Engine!FlattenSeq(Engine!split(re, 1, limit)) = re.subject
  <1>1. BoundariesOf(re)
    BY BoundariesAre
  <1>2. PICK n \in Nat : n = Engine!End(re)
    BY <1>1 DEF BoundariesOf
  <1>3. PICK g : Splits(g, re, 1, limit)
    BY SplitsText
  <1>4. PICK T : T = {p \in 0 .. n : \A s \in 0 .. p, c \in Nat :
                        Engine!FlattenSeq(g[<<p, s, c>>]) = Engine!Slice(re, s, Engine!End(re))}
    OBVIOUS
  <1>5. ASSUME NEW p \in 0 .. n, \A q \in 0 .. n : q > p => q \in T PROVE p \in T
    <2>1. ASSUME NEW s \in 0 .. p, NEW c \in Nat
          PROVE  Engine!FlattenSeq(g[<<p, s, c>>]) = Engine!Slice(re, s, Engine!End(re))
      <3>1. p \in Nat /\ s \in Nat /\ s \in 0 .. n /\ s <= p /\ p <= n
        OBVIOUS
      <3>2. g[<<p, s, c>>] = SplitTurn(re, 1, limit, p, s, c, g)
        BY <1>2, <1>3, <3>1 DEF Splits
      <3>3. CASE Engine!Reached(limit, c) \/ ~Engine!Matches(re, p)
        <4>1. g[<<p, s, c>>] = <<Engine!Slice(re, s, Engine!End(re))>>
          BY <1>2, <3>2, <3>3 DEF SplitTurn
        <4>2. Engine!Slice(re, s, Engine!End(re)) \in Seq(Bytes)
          BY <1>2, <3>1, SliceIsText
        <4> QED
          BY <4>1, <4>2, FlattenOne
      <3>4. CASE ~(Engine!Reached(limit, c) \/ ~Engine!Matches(re, p))
        <4>1. PICK m : m = Engine!find_from_pos(re, p)
          OBVIOUS
        <4>2. FoundAt(m, re, p)
          BY <3>1, <3>4, <4>1, FindIs
        <4>3. /\ m.start \in Nat /\ m.end \in Nat /\ p <= m.start /\ m.start <= m.end
              /\ m.end <= n /\ s <= m.start
          BY <1>2, <3>1, <4>2 DEF FoundAt
        <4>4. ASSUME NEW rest \in Seq(Seq(Bytes)),
                     Engine!FlattenSeq(rest) = Engine!Slice(re, m.end, Engine!End(re))
              PROVE  Engine!FlattenSeq(Items(re, 1, s, m) \o rest) = Engine!Slice(re, s, Engine!End(re))
          <5>1. SeparatorFirst(re, s, m, rest)
            BY <3>1, <4>2, ItemsJoin
          <5>2. m.end <= Engine!End(re) /\ m.start <= Engine!End(re) /\ Engine!End(re) \in Nat
            BY <1>2, <4>3
          <5>3. /\ SliceJoins(re, m.start, m.end, Engine!End(re))
                /\ SliceJoins(re, s, m.start, Engine!End(re))
            BY <3>1, <4>3, <5>2, SlicesMeet
          <5> QED
            BY <4>4, <5>1, <5>3 DEF SeparatorFirst, SliceJoins
        <4>5. CASE Engine!IsLast(re, m)
          <5>1. PICK a \in Seq(Bytes) : a = Engine!Slice(re, m.end, Engine!End(re))
            <6>1. Engine!End(re) \in Nat /\ Engine!End(re) <= Engine!End(re)
              BY <1>2
            <6>2. Engine!Slice(re, m.end, Engine!End(re)) \in Seq(Bytes)
              BY <4>3, <6>1, SliceIsText
            <6> QED
              BY <6>2
          <5>2. g[<<p, s, c>>] = Items(re, 1, s, m) \o <<a>>
            BY <1>2, <3>2, <3>4, <4>1, <4>5, <5>1 DEF SplitTurn, Items
          <5>3. <<a>> \in Seq(Seq(Bytes)) /\ Engine!FlattenSeq(<<a>>) = a
            <6>1. PICK S : S = Seq(Bytes)
              OBVIOUS
            <6>2. <<a>> \in Seq(S)
              BY <5>1, <6>1
            <6> QED
              BY <5>1, <6>1, <6>2, FlattenOne
          <5> QED
            BY <4>4, <5>1, <5>2, <5>3
        <4>6. CASE ~Engine!IsLast(re, m)
          <5>1. PICK q \in 0 .. n : q = Engine!next_position(re, m) /\ q > p /\ q >= m.end
            BY <1>1, <1>2, <3>1, <4>2, <4>6, NextIs DEF BoundariesOf
          <5>2. g[<<p, s, c>>] = Items(re, 1, s, m) \o g[<<q, m.end, c + 1>>]
            BY <3>2, <3>4, <4>1, <4>6, <5>1 DEF SplitTurn, Items
          <5>3. m.end \in 0 .. q /\ m.end \in 0 .. n /\ c + 1 \in Nat
            BY <4>3, <5>1
          <5>4. g[<<q, m.end, c + 1>>] \in Seq(Seq(Bytes))
            <6>1. <<q, m.end, c + 1>> \in SplitAt(re)
              BY <1>2, <5>1, <5>3 DEF SplitAt
            <6> QED
              BY <1>3, <6>1 DEF Splits
          <5>5. Engine!FlattenSeq(g[<<q, m.end, c + 1>>]) = Engine!Slice(re, m.end, Engine!End(re))
            BY <1>4, <1>5, <5>1, <5>3
          <5> QED
            BY <4>4, <5>2, <5>4, <5>5
        <4> QED
          BY <4>5, <4>6
      <3> QED
        BY <3>3, <3>4
    <2> QED
      BY <1>4, <2>1
  <1>6. \A p \in 0 .. n : p \in T
    BY <1>5, Downwards
  <1>7. 0 \in T /\ 0 \in 0 .. 0
    BY <1>6
  <1>8. Engine!FlattenSeq(g[<<0, 0, 0>>]) = Engine!Slice(re, 0, Engine!End(re))
    BY <1>4, <1>7
  <1> QED
    BY <1>3, <1>8, WholeSlice DEF Splits

\* Replacing by nothing leaves the pieces of a split.
LEMMA ReplacedByNothing ==
    ASSUME NEW re, RegexIs(re), NEW limit
    PROVE  Engine!replace(re, <<>>, limit).text = Engine!FlattenSeq(Engine!split(re, 0, limit))
  <1>1. BoundariesOf(re)
    BY BoundariesAre
  <1>2. PICK n \in Nat : n = Engine!End(re)
    BY <1>1 DEF BoundariesOf
  <1>3. PICK r \in Seq(Engine!Part) : r = <<>>
    <2>1. <<>> \in Seq(Engine!Part)
      OBVIOUS
    <2> QED
      BY <2>1
  <1>4. PICK g : Splits(g, re, 0, limit)
    BY SplitsText
  <1>5. PICK f : Replaces(f, re, r, limit)
    BY ReplacesText
  <1>6. PICK T : T = {p \in 0 .. n : \A s \in 0 .. p, c \in Nat :
                        Engine!FlattenSeq(g[<<p, s, c>>])
                          = Engine!Slice(re, s, p) \o f[<<p, c>>].text}
    OBVIOUS
  <1>7. ASSUME NEW p \in 0 .. n, \A q \in 0 .. n : q > p => q \in T PROVE p \in T
    <2>1. ASSUME NEW s \in 0 .. p, NEW c \in Nat
          PROVE  Engine!FlattenSeq(g[<<p, s, c>>]) = Engine!Slice(re, s, p) \o f[<<p, c>>].text
      <3>1. p \in Nat /\ s \in Nat /\ s \in 0 .. n /\ s <= p /\ p <= n
        OBVIOUS
      <3>2. /\ g[<<p, s, c>>] = SplitTurn(re, 0, limit, p, s, c, g)
            /\ f[<<p, c>>] = ReplaceTurn(re, r, limit, p, c, f)
        BY <1>2, <1>4, <1>5, <3>1 DEF Splits, Replaces
      <3>3. CASE Engine!Reached(limit, c) \/ ~Engine!Matches(re, p)
        <4>1. /\ g[<<p, s, c>>] = <<Engine!Slice(re, s, Engine!End(re))>>
              /\ f[<<p, c>>].text = Engine!Slice(re, p, Engine!End(re))
          <5>1. f[<<p, c>>] = [text |-> Engine!Slice(re, p, Engine!End(re)), count |-> c]
            BY <3>2, <3>3 DEF ReplaceTurn
          <5>2. g[<<p, s, c>>] = <<Engine!Slice(re, s, Engine!End(re))>>
            BY <3>2, <3>3 DEF SplitTurn
          <5> QED
            BY <5>1, <5>2
        <4>2. Engine!Slice(re, s, Engine!End(re)) \in Seq(Bytes)
          BY <1>2, <3>1, SliceIsText
        <4>3. p <= Engine!End(re) /\ Engine!End(re) \in Nat
          BY <1>2, <3>1
        <4>4. SliceJoins(re, s, p, Engine!End(re))
          BY <3>1, <4>3, SlicesMeet
        <4> QED
          BY <4>1, <4>2, <4>4, FlattenOne DEF SliceJoins
      <3>4. CASE ~(Engine!Reached(limit, c) \/ ~Engine!Matches(re, p))
        <4>1. PICK m : m = Engine!find_from_pos(re, p)
          OBVIOUS
        <4>2. FoundAt(m, re, p)
          BY <3>1, <3>4, <4>1, FindIs
        <4>3. /\ m.start \in Nat /\ m.end \in Nat /\ p <= m.start /\ m.start <= m.end
              /\ m.end <= n /\ s <= m.start
          BY <1>2, <3>1, <4>2 DEF FoundAt
        <4>4. PICK a \in Seq(Bytes) : a = Engine!Slice(re, s, p)
          <5>1. p <= Engine!End(re)
            BY <1>2, <3>1
          <5>2. Engine!Slice(re, s, p) \in Seq(Bytes)
            BY <3>1, <5>1, SliceIsText
          <5> QED
            BY <5>2
        <4>5. PICK b \in Seq(Bytes) : b = Engine!Slice(re, p, m.start)
          <5>1. m.start <= Engine!End(re)
            BY <1>2, <4>3
          <5>2. Engine!Slice(re, p, m.start) \in Seq(Bytes)
            BY <3>1, <4>3, <5>1, SliceIsText
          <5> QED
            BY <5>2
        <4>6. Engine!Slice(re, s, m.start) = a \o b
          <5>1. m.start <= Engine!End(re)
            BY <1>2, <4>3
          <5>2. SliceJoins(re, s, p, m.start)
            BY <3>1, <4>3, <5>1, SlicesMeet
          <5> QED
            BY <4>4, <4>5, <5>2 DEF SliceJoins
        <4>7. Engine!Slice(re, p, m.start) \o Engine!expand(re, r, m) = b
          <5>1. Engine!expand(re, r, m) = <<>>
            BY <1>3, <3>1, <4>2, ExpandIs
          <5>2. b \o <<>> = b
            OBVIOUS
          <5> QED
            BY <4>5, <5>1, <5>2
        <4>8. ASSUME NEW rest \in Seq(Seq(Bytes))
              PROVE  Engine!FlattenSeq(Items(re, 0, s, m) \o rest)
                       = (a \o b) \o Engine!FlattenSeq(rest)
          <5>1. PieceFirst(re, s, m, rest)
            BY <3>1, <4>2, ItemsJoin
          <5> QED
            BY <4>6, <5>1 DEF PieceFirst
        <4>9. CASE Engine!IsLast(re, m)
          <5>1. Engine!Slice(re, m.end, Engine!End(re)) = <<>> /\ <<>> \in Seq(Bytes)
            BY <1>2, <3>1, <4>2, <4>9, LastIs, WholeSlice
          <5>2. /\ g[<<p, s, c>>] = Items(re, 0, s, m) \o <<Engine!Slice(re, m.end, Engine!End(re))>>
                /\ f[<<p, c>>].text = b
            <6>1. f[<<p, c>>] = [text |-> b, count |-> c + 1]
              BY <3>2, <3>4, <4>1, <4>7, <4>9 DEF ReplaceTurn
            <6>2. g[<<p, s, c>>] = Items(re, 0, s, m) \o <<Engine!Slice(re, m.end, Engine!End(re))>>
              BY <3>2, <3>4, <4>1, <4>9 DEF SplitTurn, Items
            <6> QED
              BY <6>1, <6>2
          <5>3. PICK e \in Seq(Bytes) : e = <<>>
            BY <5>1
          <5>4. <<e>> \in Seq(Seq(Bytes)) /\ Engine!FlattenSeq(<<e>>) = e
            <6>1. PICK S : S = Seq(Bytes)
              OBVIOUS
            <6>2. <<e>> \in Seq(S)
              BY <5>3, <6>1
            <6> QED
              BY <6>1, <6>2, FlattenOne
          <5>5. Engine!FlattenSeq(g[<<p, s, c>>]) = (a \o b) \o e
            BY <4>8, <5>1, <5>2, <5>3, <5>4
          <5>6. (a \o b) \o e = a \o b
            BY <5>3
          <5> QED
            BY <4>4, <5>2, <5>5, <5>6
        <4>10. CASE ~Engine!IsLast(re, m)
          <5>1. PICK q \in 0 .. n : q = Engine!next_position(re, m) /\ q > p /\ q >= m.end
            BY <1>1, <1>2, <3>1, <4>2, <4>10, NextIs DEF BoundariesOf
          <5>2. /\ g[<<p, s, c>>] = Items(re, 0, s, m) \o g[<<q, m.end, c + 1>>]
                /\ f[<<p, c>>].text = b \o Engine!Slice(re, m.end, q) \o f[<<q, c + 1>>].text
            <6>1. f[<<p, c>>] = [text |-> b \o Engine!Slice(re, m.end, q) \o f[<<q, c + 1>>].text,
                                 count |-> f[<<q, c + 1>>].count]
              BY <3>2, <3>4, <4>1, <4>7, <4>10, <5>1 DEF ReplaceTurn
            <6>2. g[<<p, s, c>>] = Items(re, 0, s, m) \o g[<<q, m.end, c + 1>>]
              BY <3>2, <3>4, <4>1, <4>10, <5>1 DEF SplitTurn, Items
            <6>3. PICK x : x = b \o Engine!Slice(re, m.end, q) \o f[<<q, c + 1>>].text
              OBVIOUS
            <6>4. f[<<p, c>>].text = x
              <7>1. f[<<p, c>>] = [text |-> x, count |-> f[<<q, c + 1>>].count]
                BY <6>1, <6>3
              <7> QED
                BY <7>1
            <6> QED
              BY <6>2, <6>3, <6>4
          <5>3. m.end \in 0 .. q /\ m.end \in 0 .. n /\ c + 1 \in Nat
            BY <4>3, <5>1
          <5>4. g[<<q, m.end, c + 1>>] \in Seq(Seq(Bytes))
            <6>1. <<q, m.end, c + 1>> \in SplitAt(re)
              BY <1>2, <5>1, <5>3 DEF SplitAt
            <6> QED
              BY <1>4, <6>1 DEF Splits
          <5>5. PICK d \in Seq(Bytes) : d = Engine!Slice(re, m.end, q)
            <6>1. q \in Nat /\ q <= Engine!End(re)
              BY <1>2, <5>1
            <6>2. Engine!Slice(re, m.end, q) \in Seq(Bytes)
              BY <4>3, <6>1, SliceIsText
            <6> QED
              BY <6>2
          <5>6. PICK t \in Seq(Bytes) : t = f[<<q, c + 1>>].text
            <6>1. f[<<q, c + 1>>] \in Answers
              BY <1>2, <1>5, <5>1, <5>3 DEF Replaces
            <6> QED
              BY <6>1 DEF Answers
          <5>7. Engine!FlattenSeq(g[<<q, m.end, c + 1>>]) = d \o t
            BY <1>6, <1>7, <5>1, <5>3, <5>5, <5>6
          <5>8. Engine!FlattenSeq(g[<<p, s, c>>]) = (a \o b) \o (d \o t)
            BY <4>8, <5>2, <5>4, <5>7
          <5>9. (a \o b) \o (d \o t) = a \o ((b \o d) \o t)
            <6>1. Joins(b, d, t) /\ b \o d \in Seq(Bytes) /\ d \o t \in Seq(Bytes)
              BY SeqJoins
            <6>2. Joins(a, b, d \o t)
              BY <6>1, SeqJoins
            <6> QED
              BY <6>1, <6>2 DEF Joins
          <5> QED
            BY <4>4, <5>2, <5>5, <5>6, <5>8, <5>9
        <4> QED
          BY <4>9, <4>10
      <3> QED
        BY <3>3, <3>4
    <2> QED
      BY <1>6, <2>1
  <1>8. \A p \in 0 .. n : p \in T
    BY <1>7, Downwards
  <1>9. Engine!FlattenSeq(g[<<0, 0, 0>>]) = Engine!Slice(re, 0, 0) \o f[<<0, 0>>].text
    <2>1. 0 \in T /\ 0 \in 0 .. 0
      BY <1>8
    <2> QED
      BY <1>6, <2>1
  <1>10. PICK t \in Seq(Bytes) : t = f[<<0, 0>>].text
    <2>1. f[<<0, 0>>] \in Answers
      BY <1>2, <1>5 DEF Replaces
    <2> QED
      BY <2>1 DEF Answers
  <1>11. Engine!Slice(re, 0, 0) = <<>> /\ <<>> \o t = t
    BY <1>2, <1>10, WholeSlice
  <1> QED
    BY <1>3, <1>4, <1>5, <1>9, <1>10, <1>11 DEF Splits, Replaces


-----------------------------------------------------------------------------
(* Pieces between the matches, put together by hand.                       *)

\* Where the match k ends, or the subject starts.
EndOf(spans, k) == IF k = 0 THEN 0 ELSE spans[k].end

Follow(s, re, i) ==
    /\ EndOf(s, i - 1) \in Nat /\ s[i].start \in Nat /\ EndOf(s, i) \in Nat
    /\ EndOf(s, i) = s[i].end
    /\ EndOf(s, i - 1) <= s[i].start /\ s[i].start <= EndOf(s, i)
    /\ EndOf(s, i) <= Engine!End(re)

LEMMA MatchesFollow ==
    ASSUME NEW re, RegexIs(re), NEW s, InOrder(s, re, 0)
    PROVE  /\ s \in Seq(Spans) /\ Len(s) \in Nat
           /\ EndOf(s, Len(s)) \in Nat /\ EndOf(s, Len(s)) <= Engine!End(re)
           /\ \A i \in 1 .. Len(s) : Follow(s, re, i)
  <1>1. s \in Seq(Spans) /\ Len(s) \in Nat
    BY DEF InOrder
  <1>2. BoundariesOf(re)
    BY BoundariesAre
  <1>3. ASSUME NEW i \in 1 .. Len(s) PROVE Follow(s, re, i)
    <2>1. i \in Nat /\ s[i] \in Spans
      BY <1>1
    <2>2. s[i].start \in Nat /\ s[i].end \in Nat
      BY <2>1 DEF Spans
    <2>3. EndOf(s, i) = s[i].end
      BY <1>3 DEF EndOf
    <2>4. s[i].start <= s[i].end /\ s[i].end <= Engine!End(re)
      BY DEF InOrder
    <2>5. EndOf(s, i - 1) \in Nat /\ EndOf(s, i - 1) <= s[i].start
      <3>1. CASE i = 1
        BY <2>2, <3>1 DEF EndOf
      <3>2. CASE i # 1
        <4>1. i - 1 \in 1 .. Len(s) /\ i - 1 < i
          BY <3>2
        <4>2. s[i - 1] \in Spans
          BY <1>1, <4>1
        <4>3. s[i - 1].end \in Nat /\ s[i - 1].end <= s[i].start
          BY <4>1, <4>2 DEF InOrder, Spans
        <4>4. EndOf(s, i - 1) = s[i - 1].end
          BY <4>1 DEF EndOf
        <4> QED
          BY <4>3, <4>4
      <3> QED
        BY <3>1, <3>2
    <2> QED
      BY <2>2, <2>3, <2>4, <2>5 DEF Follow
  <1>4. EndOf(s, Len(s)) \in Nat /\ EndOf(s, Len(s)) <= Engine!End(re)
    <2>1. CASE Len(s) = 0
      BY <1>2, <2>1 DEF EndOf, BoundariesOf
    <2>2. CASE Len(s) # 0
      <3>1. Len(s) \in 1 .. Len(s)
        BY <1>1, <2>2
      <3> QED
        BY <1>3, <3>1 DEF Follow
    <2> QED
      BY <2>1, <2>2
  <1> QED
    BY <1>1, <1>3, <1>4

\* The pieces are slices one behind the other.
Slices(t, re, s) ==
    /\ t \in Seq(Seq(Bytes)) /\ Len(t) = Len(s)
    /\ \A i \in 1 .. Len(s) : t[i] = Engine!Slice(re, EndOf(s, i - 1), EndOf(s, i))

LEMMA SlicesFlatten ==
    ASSUME NEW re, RegexIs(re), NEW s, InOrder(s, re, 0), NEW t, Slices(t, re, s)
    PROVE  Engine!FlattenSeq(t) = Engine!Slice(re, 0, EndOf(s, Len(s)))
  <1>1. BoundariesOf(re)
    BY BoundariesAre
  <1>2. PICK n \in Nat : n = Len(s) /\ n = Len(t)
    BY MatchesFollow DEF Slices
  <1>3. t \in Seq(Seq(Bytes))
    BY DEF Slices
  <1>4. CASE n = 0
    <2>1. t = <<>>
      BY <1>2, <1>3, <1>4, EmptySeq
    <2>2. Engine!Slice(re, 0, 0) = <<>> /\ EndOf(s, n) = 0
      BY <1>1, <1>4, WholeSlice DEF BoundariesOf, EndOf
    <2> QED
      BY <1>2, <1>3, <2>1, <2>2, FlattenIs
  <1>5. CASE n # 0
    <2>1. t # <<>>
      BY <1>2, <1>5
    <2>2. PICK h : Joined(h, t)
      BY <1>3, <2>1, FlattenJoins
    <2>3. PICK T : T = {k \in Nat : k + 1 \in 1 .. n =>
                          h[k + 1] = Engine!Slice(re, 0, EndOf(s, k + 1))}
      OBVIOUS
    <2>4. 0 \in T
      <3>1. 1 \in 1 .. n
        BY <1>5
      <3>2. h[1] = t[1] /\ t[1] = Engine!Slice(re, EndOf(s, 1 - 1), EndOf(s, 1))
        BY <1>2, <2>2, <3>1 DEF Joined, Slices
      <3>3. EndOf(s, 1 - 1) = 0
        BY DEF EndOf
      <3>4. h[0 + 1] = Engine!Slice(re, 0, EndOf(s, 0 + 1))
        BY <3>2, <3>3
      <3> QED
        BY <2>3, <3>4
    <2>5. ASSUME NEW k \in Nat, k \in T PROVE k + 1 \in T
      <3>1. CASE (k + 1) + 1 \in 1 .. n
        <4>1. PICK j \in Nat : j = k + 1
          OBVIOUS
        <4>2. j \in 1 .. n - 1 /\ j \in 1 .. n /\ j + 1 \in 1 .. n
          BY <3>1, <4>1
        <4>3. h[j + 1] = h[j] \o t[j + 1]
          BY <1>2, <2>2, <4>2 DEF Joined
        <4>4. h[j] = Engine!Slice(re, 0, EndOf(s, j))
          BY <2>3, <2>5, <4>1, <4>2
        <4>5. PICK i \in 1 .. n : i = j + 1 /\ i - 1 = j
          BY <4>2
        <4>6. t[i] = Engine!Slice(re, EndOf(s, i - 1), EndOf(s, i))
          BY <1>2, <4>5 DEF Slices
        <4>7. Follow(s, re, i)
          BY <1>2, <4>5, MatchesFollow
        <4>8. SliceJoins(re, 0, EndOf(s, i - 1), EndOf(s, i))
          <5>1. /\ EndOf(s, i - 1) \in Nat /\ EndOf(s, i) \in Nat /\ 0 <= EndOf(s, i - 1)
                /\ EndOf(s, i - 1) <= EndOf(s, i) /\ EndOf(s, i) <= Engine!End(re)
            BY <4>7 DEF Follow
          <5> QED
            BY <5>1, SlicesMeet
        <4>9. h[j + 1] = Engine!Slice(re, 0, EndOf(s, j + 1))
          BY <4>3, <4>4, <4>5, <4>6, <4>8 DEF SliceJoins
        <4> QED
          BY <2>3, <4>1, <4>9
      <3>2. CASE (k + 1) + 1 \notin 1 .. n
        BY <2>3, <3>2
      <3> QED
        BY <3>1, <3>2
    <2>6. \A k \in Nat : k \in T
      BY <2>4, <2>5, Induction
    <2>7. n - 1 \in Nat /\ (n - 1) + 1 = n /\ n \in 1 .. n
      BY <1>5
    <2>8. h[n] = Engine!Slice(re, 0, EndOf(s, n))
      BY <2>3, <2>6, <2>7
    <2> QED
      BY <1>2, <2>2, <2>8 DEF Joined
  <1> QED
    BY <1>4, <1>5

\* What the pieces keep and what they leave out are the subject between the matches.
Shared(t, u, s) ==
    /\ t \in Seq(Seq(Bytes)) /\ Len(t) = Len(s) /\ u \in Seq(Seq(Bytes)) /\ Len(u) = Len(s)
    /\ \A i \in 1 .. Len(s) : Len(t[i]) + Len(u[i]) = EndOf(s, i) - EndOf(s, i - 1)

Balanced(h, g, s, k) == Len(h[k]) + Len(g[k]) = EndOf(s, k)

LEMMA SharedFlatten ==
    ASSUME NEW re, RegexIs(re), NEW s, InOrder(s, re, 0), NEW t, NEW u, Shared(t, u, s)
    PROVE  Len(Engine!FlattenSeq(t)) + Len(Engine!FlattenSeq(u)) = EndOf(s, Len(s))
  <1>1. PICK n \in Nat : n = Len(s) /\ n = Len(t) /\ n = Len(u)
    BY MatchesFollow DEF Shared
  <1>2. t \in Seq(Seq(Bytes)) /\ u \in Seq(Seq(Bytes))
    BY DEF Shared
  <1>3. CASE n = 0
    <2>1. t = <<>> /\ u = <<>>
      BY <1>1, <1>2, <1>3, EmptySeq
    <2>2. Engine!FlattenSeq(t) = <<>> /\ Engine!FlattenSeq(u) = <<>>
      BY <1>2, <2>1, FlattenIs
    <2>3. Len(<<>>) = 0
      OBVIOUS
    <2> QED
      BY <1>1, <1>3, <2>2, <2>3 DEF EndOf
  <1>4. CASE n # 0
    <2>1. t # <<>> /\ u # <<>>
      BY <1>1, <1>4
    <2>2. PICK h : Joined(h, t)
      BY <1>2, <2>1, FlattenJoins
    <2>3. PICK g : Joined(g, u)
      BY <1>2, <2>1, FlattenJoins
    <2>4. /\ \A i \in 1 .. n : h[i] \in Seq(Bytes) /\ g[i] \in Seq(Bytes)
          /\ \A i \in 1 .. n : t[i] \in Seq(Bytes) /\ u[i] \in Seq(Bytes)
      <3>1. h \in [1 .. n -> Seq(Bytes)] /\ g \in [1 .. n -> Seq(Bytes)]
        BY <1>1, <2>2, <2>3 DEF Joined
      <3>2. ASSUME NEW i \in 1 .. n PROVE t[i] \in Seq(Bytes)
        <4>1. i \in 1 .. Len(t)
          BY <1>1
        <4> QED
          BY <1>2, <4>1
      <3>3. ASSUME NEW i \in 1 .. n PROVE u[i] \in Seq(Bytes)
        <4>1. i \in 1 .. Len(u)
          BY <1>1
        <4> QED
          BY <1>2, <4>1
      <3> QED
        BY <3>1, <3>2, <3>3
    <2>5. PICK T : T = {k \in Nat : k + 1 \in 1 .. n =>
                          Balanced(h, g, s, k + 1)}
      OBVIOUS
    <2>6. 0 \in T
      <3>1. 1 \in 1 .. n
        BY <1>4
      <3>2. h[1] = t[1] /\ g[1] = u[1]
        BY <2>2, <2>3 DEF Joined
      <3>3. Len(t[1]) + Len(u[1]) = EndOf(s, 1) - EndOf(s, 1 - 1)
        BY <1>1, <3>1 DEF Shared
      <3>4. EndOf(s, 1 - 1) = 0 /\ EndOf(s, 1) \in Nat
        <4>1. Follow(s, re, 1)
          BY <1>1, <3>1, MatchesFollow
        <4> QED
          BY <4>1 DEF EndOf, Follow
      <3>5. PICK a \in Nat : a = Len(t[1])
        BY <2>4, <3>1
      <3>6. PICK b \in Nat : b = Len(u[1])
        BY <2>4, <3>1
      <3>7. PICK e \in Nat : e = EndOf(s, 1)
        BY <3>4
      <3>8. a + b = e - EndOf(s, 1 - 1)
        BY <3>3, <3>5, <3>6, <3>7
      <3>9. a + b = e
        BY <3>4, <3>8
      <3>10. Balanced(h, g, s, 1)
        BY <3>2, <3>5, <3>6, <3>7, <3>9 DEF Balanced
      <3> QED
        BY <2>5, <3>10
    <2>7. ASSUME NEW k \in Nat, k \in T PROVE k + 1 \in T
      <3>1. CASE (k + 1) + 1 \in 1 .. n
        <4>1. PICK j \in Nat : j = k + 1
          OBVIOUS
        <4>2. j \in 1 .. n - 1 /\ j \in 1 .. n /\ j + 1 \in 1 .. n
          BY <3>1, <4>1
        <4>3. h[j + 1] = h[j] \o t[j + 1] /\ g[j + 1] = g[j] \o u[j + 1]
          BY <1>1, <2>2, <2>3, <4>2 DEF Joined
        <4>4. Balanced(h, g, s, j)
          BY <2>5, <2>7, <4>1, <4>2
        <4>5. PICK i \in 1 .. n : i = j + 1 /\ i - 1 = j
          BY <4>2
        <4>6. Len(t[i]) + Len(u[i]) = EndOf(s, i) - EndOf(s, i - 1)
          BY <1>1, <4>5 DEF Shared
        <4>7. EndOf(s, i) \in Nat /\ EndOf(s, i - 1) \in Nat
          <5>1. Follow(s, re, i)
            BY <1>1, <4>5, MatchesFollow
          <5> QED
            BY <5>1 DEF Follow
        <4>8. PICK a \in Nat, b \in Nat, c \in Nat, d \in Nat :
                a = Len(h[j]) /\ b = Len(g[j]) /\ c = Len(t[i]) /\ d = Len(u[i])
          BY <2>4, <4>2
        <4>9. Len(h[i]) = a + c /\ Len(g[i]) = b + d
          <5>1. /\ h[j] \in Seq(Bytes) /\ g[j] \in Seq(Bytes)
                /\ t[i] \in Seq(Bytes) /\ u[i] \in Seq(Bytes)
            BY <2>4, <4>2
          <5>2. Len(h[j] \o t[i]) = Len(h[j]) + Len(t[i])
            BY <5>1
          <5>3. Len(g[j] \o u[i]) = Len(g[j]) + Len(u[i])
            BY <5>1
          <5> QED
            BY <4>3, <4>5, <4>8, <5>2, <5>3
        <4>10. Balanced(h, g, s, i)
          <5>1. PICK e \in Nat, f \in Nat : e = EndOf(s, i - 1) /\ f = EndOf(s, i)
            BY <4>7
          <5>2. a + b = e
            BY <4>4, <4>5, <4>8, <5>1 DEF Balanced
          <5>3. c + d = f - e
            BY <4>6, <4>8, <5>1
          <5>4. (a + c) + (b + d) = f
            BY <5>2, <5>3
          <5> QED
            BY <4>9, <5>1, <5>4 DEF Balanced
        <4> QED
          BY <2>5, <4>1, <4>5, <4>10
      <3>2. CASE (k + 1) + 1 \notin 1 .. n
        BY <2>5, <3>2
      <3> QED
        BY <3>1, <3>2
    <2>8. \A k \in Nat : k \in T
      BY <2>6, <2>7, Induction
    <2>9. n - 1 \in Nat /\ (n - 1) + 1 = n /\ n \in 1 .. n
      BY <1>4
    <2>10. Balanced(h, g, s, n)
      BY <2>5, <2>8, <2>9
    <2> QED
      BY <1>1, <2>2, <2>3, <2>10 DEF Joined, Balanced
  <1> QED
    BY <1>3, <1>4


PutAt(re, s, i, nth, before, replacement, after, highlight) ==
    IF nth >= 0 /\ i # nth THEN Engine!Text(re, s[i])
    ELSE before \o (IF highlight THEN Engine!Text(re, s[i]) ELSE replacement) \o after

Pieces(re, s, nth, before, replacement, after, highlight) ==
    [i \in DOMAIN s |-> Engine!Slice(re, EndOf(s, i - 1), s[i].start)
                        \o PutAt(re, s, i, nth, before, replacement, after, highlight)]

LEMMA ManualIs ==
    ASSUME NEW re, NEW s, s = Engine!matches(re), s \in Seq(Spans),
           NEW nth, NEW before, NEW r, NEW after, NEW highlight
    PROVE  Engine!replace_manual(re, nth, before, r, after, highlight)
             = Engine!FlattenSeq(Pieces(re, s, nth, before, r, after, highlight))
               \o Engine!Slice(re, EndOf(s, Len(s)), Engine!End(re))
  <1>1. PICK n \in Nat : n = Len(s) /\ DOMAIN s = 1 .. n
    OBVIOUS
  <1>2. ASSUME NEW i \in 1 .. n + 1 PROVE Engine!Before(re, i) = EndOf(s, i - 1)
    BY DEF Engine!Before, EndOf
  <1>3. Engine!Before(re, n + 1) = EndOf(s, n)
    <2>1. n + 1 \in 1 .. n + 1 /\ (n + 1) - 1 = n
      OBVIOUS
    <2> QED
      BY <1>2, <2>1
  <1>4. PICK p : p = [i \in DOMAIN s |->
              Engine!Slice(re, Engine!Before(re, i), s[i].start)
              \o PutAt(re, s, i, nth, before, r, after, highlight)]
    OBVIOUS
  <1>5. p = Pieces(re, s, nth, before, r, after, highlight)
    <2>1. \A i \in DOMAIN s : Engine!Before(re, i) = EndOf(s, i - 1)
      BY <1>1, <1>2
    <2> QED
      BY <1>4, <2>1 DEF Pieces
  <1>6. Engine!replace_manual(re, nth, before, r, after, highlight)
          = Engine!FlattenSeq(p) \o Engine!Slice(re, Engine!Before(re, Len(s) + 1), Engine!End(re))
    BY <1>4 DEF Engine!replace_manual, PutAt
  <1> QED
    BY <1>1, <1>3, <1>5, <1>6

\* A match's text.
SpanText(re, s, i, t) ==
    /\ t \in Seq(Bytes) /\ t = Engine!Text(re, s[i])
    /\ t = Engine!Slice(re, s[i].start, EndOf(s, i)) /\ Len(t) = EndOf(s, i) - s[i].start

LEMMA SpanTextIs ==
    ASSUME NEW re, RegexIs(re), NEW s, NEW i, Follow(s, re, i)
    PROVE  \E t : SpanText(re, s, i, t)
  <1>1. /\ s[i].start \in Nat /\ EndOf(s, i) \in Nat /\ EndOf(s, i) = s[i].end
        /\ s[i].start <= EndOf(s, i) /\ EndOf(s, i) <= Engine!End(re)
    BY DEF Follow
  <1>2. PICK t : t = Engine!Slice(re, s[i].start, EndOf(s, i))
    OBVIOUS
  <1>3. SliceOf(t, re, s[i].start, EndOf(s, i))
    BY <1>1, <1>2, SliceIs
  <1>4. t = Engine!Text(re, s[i])
    BY <1>1, <1>2 DEF Engine!Text
  <1> QED
    BY <1>2, <1>3, <1>4 DEF SliceOf, SpanText

\* A highlight without marks.
LEMMA HighlightKeepsSubject ==
    ASSUME NEW re, RegexIs(re)
    PROVE  Engine!replace_manual(re, -1, <<>>, <<>>, <<>>, TRUE) = re.subject
  <1>1. PICK f : Scans(f, re)
    BY MatchesScan
  <1>2. PICK s : s = Engine!matches(re)
    OBVIOUS
  <1>3. BoundariesOf(re)
    BY BoundariesAre
  <1>4. InOrder(s, re, 0)
    <2>1. 0 \in 0 .. Engine!End(re)
      BY <1>3 DEF BoundariesOf
    <2> QED
      BY <1>1, <1>2, <2>1, ScansInOrder DEF Scans
  <1>5. PICK n \in Nat : n = Len(s) /\ DOMAIN s = 1 .. n
    BY <1>4 DEF InOrder
  <1>6. PICK p : p = Pieces(re, s, -1, <<>>, <<>>, <<>>, TRUE)
    OBVIOUS
  <1>7. ASSUME NEW i \in 1 .. n
        PROVE  /\ p[i] = Engine!Slice(re, EndOf(s, i - 1), EndOf(s, i))
               /\ p[i] \in Seq(Bytes)
    <2>1. Follow(s, re, i)
      BY <1>4, <1>5, MatchesFollow
    <2>2. /\ EndOf(s, i - 1) \in Nat /\ s[i].start \in Nat /\ EndOf(s, i) \in Nat
          /\ EndOf(s, i - 1) <= s[i].start /\ s[i].start <= EndOf(s, i)
          /\ EndOf(s, i) <= Engine!End(re)
      BY <2>1 DEF Follow
    <2>3. PICK t : SpanText(re, s, i, t)
      BY <2>1, SpanTextIs
    <2>4. PICK u : u = Engine!Text(re, s[i])
      OBVIOUS
    <2>5. PutAt(re, s, i, -1, <<>>, <<>>, <<>>, TRUE) = <<>> \o u \o <<>>
      BY <2>4 DEF PutAt
    <2>6. <<>> \o t \o <<>> = t /\ t = u
      <3>1. t \in Seq(Bytes) /\ t = u
        BY <2>3, <2>4 DEF SpanText
      <3>2. <<>> \o t = t /\ t \o <<>> = t
        BY <3>1
      <3> QED
        BY <3>1, <3>2
    <2>7. p[i] = Engine!Slice(re, EndOf(s, i - 1), s[i].start)
                 \o PutAt(re, s, i, -1, <<>>, <<>>, <<>>, TRUE)
      BY <1>5, <1>6 DEF Pieces
    <2>8. SliceJoins(re, EndOf(s, i - 1), s[i].start, EndOf(s, i))
      BY <2>2, SlicesMeet
    <2>9. p[i] = Engine!Slice(re, EndOf(s, i - 1), EndOf(s, i))
      BY <2>3, <2>5, <2>6, <2>7, <2>8 DEF SliceJoins, SpanText
    <2>10. Engine!Slice(re, EndOf(s, i - 1), EndOf(s, i)) \in Seq(Bytes)
      BY <2>2, SliceIsText
    <2> QED
      BY <2>9, <2>10
  <1>8. Slices(p, re, s)
    <2>1. DOMAIN p = 1 .. n /\ p = [i \in 1 .. n |-> p[i]]
      BY <1>5, <1>6 DEF Pieces
    <2>2. p \in [1 .. n -> Seq(Bytes)]
      BY <1>7, <2>1
    <2>3. p \in Seq(Seq(Bytes)) /\ Len(p) = n
      BY <2>2
    <2> QED
      BY <1>5, <1>7, <2>3 DEF Slices
  <1>9. Engine!FlattenSeq(p) = Engine!Slice(re, 0, EndOf(s, Len(s)))
    BY <1>4, <1>8, SlicesFlatten
  <1>10. SliceJoins(re, 0, EndOf(s, Len(s)), Engine!End(re))
    <2>1. /\ EndOf(s, Len(s)) \in Nat /\ 0 <= EndOf(s, Len(s))
          /\ EndOf(s, Len(s)) <= Engine!End(re) /\ Engine!End(re) \in Nat
          /\ Engine!End(re) <= Engine!End(re)
      BY <1>3, <1>4, MatchesFollow DEF BoundariesOf
    <2> QED
      BY <2>1, SlicesMeet
  <1>11. s \in Seq(Spans)
    BY <1>4 DEF InOrder
  <1>12. Engine!replace_manual(re, -1, <<>>, <<>>, <<>>, TRUE)
          = Engine!FlattenSeq(p) \o Engine!Slice(re, EndOf(s, Len(s)), Engine!End(re))
    BY <1>2, <1>6, <1>11, ManualIs
  <1> QED
    BY <1>9, <1>10, <1>12, WholeSlice DEF SliceJoins

\* All but one of the texts are empty.
LEMMA FlattenOnly ==
    ASSUME NEW u \in Seq(Seq(Bytes)), NEW nth \in Nat,
           \A i \in 1 .. Len(u) : i # nth => u[i] = <<>>
    PROVE  Engine!FlattenSeq(u) = IF nth \in 1 .. Len(u) THEN u[nth] ELSE <<>>
  <1>1. PICK n \in Nat : n = Len(u)
    OBVIOUS
  <1>2. CASE n = 0
    <2>1. u = <<>>
      BY <1>1, <1>2, EmptySeq
    <2>2. Engine!FlattenSeq(u) = <<>>
      BY <2>1, FlattenIs
    <2>3. nth \notin 1 .. Len(u)
      BY <1>1, <1>2
    <2> QED
      BY <2>2, <2>3
  <1>3. CASE n # 0
    <2>1. u # <<>>
      BY <1>1, <1>3
    <2>2. PICK h : Joined(h, u)
      BY <2>1, FlattenJoins
    <2>3. \A i \in 1 .. n : u[i] \in Seq(Bytes)
      BY <1>1
    <2>4. PICK T : T = {k \in Nat : k + 1 \in 1 .. n =>
                          h[k + 1] = IF nth \in 1 .. k + 1 THEN u[nth] ELSE <<>>}
      OBVIOUS
    <2>5. 0 \in T
      <3>1. h[1] = u[1] /\ 1 \in 1 .. n
        BY <1>3, <2>2 DEF Joined
      <3>2. h[1] = IF nth \in 1 .. 1 THEN u[nth] ELSE <<>>
        BY <1>1, <3>1
      <3> QED
        BY <2>4, <3>2
    <2>6. ASSUME NEW k \in Nat, k \in T PROVE k + 1 \in T
      <3>1. CASE (k + 1) + 1 \in 1 .. n
        <4>1. PICK j \in Nat : j = k + 1
          OBVIOUS
        <4>2. j \in 1 .. n - 1 /\ j \in 1 .. n /\ j + 1 \in 1 .. n
          BY <3>1, <4>1
        <4>3. h[j + 1] = h[j] \o u[j + 1]
          BY <1>1, <2>2, <4>2 DEF Joined
        <4>4. h[j] = IF nth \in 1 .. j THEN u[nth] ELSE <<>>
          BY <2>4, <2>6, <4>1, <4>2
        <4>5. CASE nth \in 1 .. j
          <5>1. u[j + 1] = <<>> /\ u[nth] \in Seq(Bytes)
            BY <1>1, <2>3, <4>2, <4>5
          <5>2. u[nth] \o <<>> = u[nth]
            BY <5>1
          <5>3. h[j + 1] = u[nth] /\ nth \in 1 .. j + 1
            BY <4>3, <4>4, <4>5, <5>1, <5>2
          <5> QED
            BY <2>4, <4>1, <5>3
        <4>6. CASE nth = j + 1
          <5>1. h[j] = <<>> /\ u[j + 1] \in Seq(Bytes)
            BY <2>3, <4>2, <4>4, <4>6
          <5>2. <<>> \o u[j + 1] = u[j + 1]
            BY <5>1
          <5>3. h[j + 1] = u[nth] /\ nth \in 1 .. j + 1
            BY <4>2, <4>3, <4>6, <5>1, <5>2
          <5> QED
            BY <2>4, <4>1, <5>3
        <4>7. CASE nth \notin 1 .. j + 1
          <5>1. h[j] = <<>> /\ u[j + 1] = <<>>
            BY <1>1, <4>2, <4>4, <4>7
          <5>2. <<>> \o <<>> = <<>>
            OBVIOUS
          <5>3. h[j + 1] = <<>>
            BY <4>3, <5>1, <5>2
          <5> QED
            BY <2>4, <4>1, <4>7, <5>3
        <4> QED
          BY <4>5, <4>6, <4>7
      <3>2. CASE (k + 1) + 1 \notin 1 .. n
        BY <2>4, <3>2
      <3> QED
        BY <3>1, <3>2
    <2>7. \A k \in Nat : k \in T
      BY <2>5, <2>6, Induction
    <2>8. n - 1 \in Nat /\ (n - 1) + 1 = n /\ n \in 1 .. n
      BY <1>3
    <2>9. h[n] = IF nth \in 1 .. n THEN u[nth] ELSE <<>>
      BY <2>4, <2>7, <2>8
    <2> QED
      BY <1>1, <2>2, <2>9 DEF Joined
  <1> QED
    BY <1>2, <1>3

\* Matches, or one of them, taken out.
LEMMA NthIsRemoved ==
    ASSUME NEW re, RegexIs(re), NEW nth \in Int
    PROVE  Len(Engine!replace_manual(re, nth, <<>>, <<>>, <<>>, FALSE))
             = Engine!End(re) - Len(Engine!Removed(re, nth))
  <1>1. PICK f : Scans(f, re)
    BY MatchesScan
  <1>2. PICK s : s = Engine!matches(re)
    OBVIOUS
  <1>3. BoundariesOf(re)
    BY BoundariesAre
  <1>4. InOrder(s, re, 0)
    <2>1. 0 \in 0 .. Engine!End(re)
      BY <1>3 DEF BoundariesOf
    <2> QED
      BY <1>1, <1>2, <2>1, ScansInOrder DEF Scans
  <1>5. PICK n \in Nat : n = Len(s) /\ DOMAIN s = 1 .. n
    BY <1>4 DEF InOrder
  <1>6. PICK p : p = Pieces(re, s, nth, <<>>, <<>>, <<>>, FALSE)
    OBVIOUS
  <1>7. PICK u : u = [i \in DOMAIN s |-> IF nth >= 0 /\ i # nth THEN <<>> ELSE Engine!Text(re, s[i])]
    OBVIOUS
  <1>8. ASSUME NEW i \in 1 .. n
        PROVE  /\ p[i] \in Seq(Bytes) /\ u[i] \in Seq(Bytes)
               /\ Len(p[i]) + Len(u[i]) = EndOf(s, i) - EndOf(s, i - 1)
    <2>1. Follow(s, re, i)
      BY <1>4, <1>5, MatchesFollow
    <2>2. PICK a \in Nat, b \in Nat, c \in Nat :
            /\ a = EndOf(s, i - 1) /\ b = s[i].start /\ c = EndOf(s, i)
            /\ a <= b /\ b <= c /\ c <= Engine!End(re)
      BY <2>1 DEF Follow
    <2>3. PICK t : SpanText(re, s, i, t)
      BY <2>1, SpanTextIs
    <2>4. t \in Seq(Bytes) /\ Len(t) = c - b /\ t = Engine!Text(re, s[i])
      BY <2>2, <2>3 DEF SpanText
    <2>5. PICK d \in Seq(Bytes) : d = Engine!Slice(re, EndOf(s, i - 1), s[i].start) /\ Len(d) = b - a
      <3>1. /\ EndOf(s, i - 1) \in Nat /\ s[i].start \in Nat
            /\ EndOf(s, i - 1) <= s[i].start /\ s[i].start <= Engine!End(re)
        BY <1>3, <2>1 DEF Follow, BoundariesOf
      <3>2. SliceOf(Engine!Slice(re, EndOf(s, i - 1), s[i].start), re, EndOf(s, i - 1), s[i].start)
        BY <3>1, SliceIs
      <3> QED
        BY <2>2, <3>2 DEF SliceOf
    <2>6. p[i] = d \o PutAt(re, s, i, nth, <<>>, <<>>, <<>>, FALSE)
      BY <1>5, <1>6, <2>5 DEF Pieces
    <2>7. CASE nth >= 0 /\ i # nth
      <3>1. PutAt(re, s, i, nth, <<>>, <<>>, <<>>, FALSE) = t /\ u[i] = <<>>
        BY <1>5, <1>7, <2>4, <2>7 DEF PutAt
      <3>2. d \o t \in Seq(Bytes) /\ Len(d \o t) = (b - a) + (c - b)
        BY <2>4, <2>5
      <3>3. <<>> \in Seq(Bytes) /\ Len(<<>>) = 0
        OBVIOUS
      <3>4. p[i] \in Seq(Bytes) /\ Len(p[i]) = (b - a) + (c - b)
        BY <2>6, <3>1, <3>2
      <3>5. u[i] \in Seq(Bytes) /\ Len(u[i]) = 0
        BY <3>1, <3>3
      <3>6. ((b - a) + (c - b)) + 0 = c - a
        OBVIOUS
      <3> QED
        BY <2>2, <3>4, <3>5, <3>6
    <2>8. CASE ~(nth >= 0 /\ i # nth)
      <3>1. PutAt(re, s, i, nth, <<>>, <<>>, <<>>, FALSE) = <<>> \o <<>> \o <<>> /\ u[i] = t
        BY <1>5, <1>7, <2>4, <2>8 DEF PutAt
      <3>2. <<>> \o <<>> \o <<>> = <<>> /\ d \o <<>> = d
        OBVIOUS
      <3>3. p[i] = d
        BY <2>6, <3>1, <3>2
      <3>4. (b - a) + (c - b) = c - a
        OBVIOUS
      <3> QED
        BY <2>2, <2>4, <2>5, <3>1, <3>3, <3>4
    <2> QED
      BY <2>7, <2>8
  <1>9. p \in Seq(Seq(Bytes)) /\ Len(p) = n /\ u \in Seq(Seq(Bytes)) /\ Len(u) = n
    <2>1. p = [i \in 1 .. n |-> p[i]] /\ u = [i \in 1 .. n |-> u[i]]
      BY <1>5, <1>6, <1>7 DEF Pieces
    <2>2. p \in [1 .. n -> Seq(Bytes)] /\ u \in [1 .. n -> Seq(Bytes)]
      BY <1>8, <2>1
    <2> QED
      BY <2>2
  <1>10. Len(Engine!FlattenSeq(p)) + Len(Engine!FlattenSeq(u)) = EndOf(s, Len(s))
    <2>1. Shared(p, u, s)
      BY <1>5, <1>8, <1>9 DEF Shared
    <2> QED
      BY <1>4, <2>1, SharedFlatten
  <1>11. Engine!FlattenSeq(u) = Engine!Removed(re, nth)
    <2>1. CASE nth < 0
      <3>1. nth \notin DOMAIN s /\ u = Engine!Texts(re, s)
        BY <1>5, <1>7, <2>1 DEF Engine!Texts
      <3> QED
        BY <1>2, <2>1, <3>1 DEF Engine!Removed, Engine!Rebuilt
    <2>2. CASE nth >= 0
      <3>1. nth \in Nat /\ \A i \in 1 .. Len(u) : i # nth => u[i] = <<>>
        BY <1>5, <1>7, <1>9, <2>2
      <3>2. Engine!FlattenSeq(u) = IF nth \in 1 .. Len(u) THEN u[nth] ELSE <<>>
        BY <1>9, <3>1, FlattenOnly
      <3>3. nth \in 1 .. Len(u) => u[nth] = Engine!Text(re, s[nth])
        BY <1>5, <1>7, <1>9
      <3> QED
        BY <1>2, <1>5, <1>9, <2>2, <3>2, <3>3 DEF Engine!Removed
    <2> QED
      BY <2>1, <2>2
  <1>12. PICK last \in Seq(Bytes) : /\ last = Engine!Slice(re, EndOf(s, Len(s)), Engine!End(re))
                                    /\ Len(last) = Engine!End(re) - EndOf(s, Len(s))
    <2>1. /\ EndOf(s, Len(s)) \in Nat /\ EndOf(s, Len(s)) <= Engine!End(re)
          /\ Engine!End(re) \in Nat /\ Engine!End(re) <= Engine!End(re)
      BY <1>3, <1>4, MatchesFollow DEF BoundariesOf
    <2>2. SliceOf(Engine!Slice(re, EndOf(s, Len(s)), Engine!End(re)), re, EndOf(s, Len(s)), Engine!End(re))
      BY <2>1, SliceIs
    <2> QED
      BY <2>2 DEF SliceOf
  <1>13. s \in Seq(Spans)
    BY <1>4 DEF InOrder
  <1>14. Engine!replace_manual(re, nth, <<>>, <<>>, <<>>, FALSE) = Engine!FlattenSeq(p) \o last
    BY <1>2, <1>6, <1>12, <1>13, ManualIs, ZenonT(60)
  <1>15. PICK a \in Seq(Bytes), b \in Seq(Bytes) :
            a = Engine!FlattenSeq(p) /\ b = Engine!FlattenSeq(u)
    BY <1>9, FlattenIs
  <1>16. PICK k \in Nat, l \in Nat, e \in Nat, z \in Nat :
            k = Len(a) /\ l = Len(b) /\ e = EndOf(s, Len(s)) /\ z = Engine!End(re)
    BY <1>3, <1>4, <1>15, MatchesFollow DEF BoundariesOf
  <1>17. k + l = e /\ Len(last) = z - e
    <2>1. Len(Engine!FlattenSeq(p)) = k /\ Len(Engine!FlattenSeq(u)) = l
      BY <1>15, <1>16
    <2>2. k + l = e
      BY <1>10, <1>16, <2>1
    <2>3. Len(last) = z - e
      BY <1>12, <1>16
    <2> QED
      BY <2>2, <2>3
  <1>18. Len(a \o last) = k + (z - e)
    <2>1. Len(a \o last) = Len(a) + Len(last)
      BY <1>12, <1>15
    <2> QED
      BY <1>16, <1>17, <2>1
  <1>19. k + (z - e) = z - l
    BY <1>17
  <1> QED
    BY <1>11, <1>14, <1>15, <1>16, <1>18, <1>19


-----------------------------------------------------------------------------
(* What is taken out starts and ends between characters.                   *)

CutRight(t, re, max_len) ==
    /\ t.start <= t.end /\ t.end - t.start <= max_len
    /\ t.start # t.end => {t.start, t.end} \subseteq Engine!Boundaries(re)

LEMMA HeadIsCut ==
    ASSUME NEW re, RegexIs(re), NEW max_len \in Nat
    PROVE  CutRight(Engine!truncated_head(re, max_len), re, max_len)
  <1>1. BoundariesOf(re)
    BY BoundariesAre
  <1>2. PICK n \in Nat : n = Engine!End(re)
    BY <1>1 DEF BoundariesOf
  <1>3. PICK S : S = {i \in Engine!Boundaries(re) : i <= max_len}
    OBVIOUS
  <1>4. S \in SUBSET (0 .. n) /\ S # {}
    BY <1>1, <1>2, <1>3 DEF BoundariesOf
  <1>5. PICK x : x = Engine!Max(S)
    OBVIOUS
  <1>6. x \in S
    BY <1>4, <1>5, MaxIs
  <1>7. x \in Nat /\ x <= max_len /\ x \in Engine!Boundaries(re) /\ 0 \in Engine!Boundaries(re)
    BY <1>1, <1>3, <1>6 DEF BoundariesOf
  <1>8. Engine!truncated_head(re, max_len) = [start |-> 0, end |-> x]
    BY <1>3, <1>5 DEF Engine!truncated_head, Engine!Span
  <1> QED
    BY <1>7, <1>8 DEF CutRight

LEMMA MatchIsCut ==
    ASSUME NEW re, RegexIs(re), NEW max_len \in Nat
    PROVE  CutRight(Engine!truncate_match(re, max_len), re, max_len)
  <1>1. BoundariesOf(re)
    BY BoundariesAre
  <1>2. PICK n \in Nat : n = Engine!End(re)
    BY <1>1 DEF BoundariesOf
  <1>3. CASE ~Engine!Matches(re, 0)
    BY <1>3, HeadIsCut DEF Engine!truncate_match
  <1>4. CASE Engine!Matches(re, 0)
    <2>1. PICK middle \in 0 .. n : /\ middle = Engine!find_from_pos(re, 0).start
                                   /\ middle \in Engine!Boundaries(re)
      <3>1. FoundAt(Engine!find_from_pos(re, 0), re, 0)
        BY <1>4, FindIs
      <3> QED
        BY <1>1, <1>2, <3>1 DEF FoundAt, BoundariesOf
    <2>2. PICK half \in Nat : half = max_len \div 2 /\ half <= max_len
      OBVIOUS
    <2>3. PICK start \in Nat :
            /\ start = IF middle < half THEN 0 ELSE middle - half
            /\ start <= middle /\ middle <= start + half
      <3>1. (IF middle < half THEN 0 ELSE middle - half) \in Nat
        OBVIOUS
      <3>2. (IF middle < half THEN 0 ELSE middle - half) <= middle
        OBVIOUS
      <3>3. middle <= (IF middle < half THEN 0 ELSE middle - half) + half
        OBVIOUS
      <3> QED
        BY <3>1, <3>2, <3>3
    <2>4. PICK end \in Nat :
            /\ end = IF start + max_len > n THEN n ELSE start + max_len
            /\ middle <= end /\ end <= start + max_len
      <3>1. (IF start + max_len > n THEN n ELSE start + max_len) \in Nat
        OBVIOUS
      <3>2. middle <= (IF start + max_len > n THEN n ELSE start + max_len)
        BY <2>2, <2>3
      <3>3. (IF start + max_len > n THEN n ELSE start + max_len) <= start + max_len
        OBVIOUS
      <3> QED
        BY <3>1, <3>2, <3>3
    <2>5. PICK S : S = {i \in Engine!Boundaries(re) : i >= start}
      OBVIOUS
    <2>6. S \in SUBSET Nat /\ S # {} /\ middle \in S
      BY <1>1, <2>1, <2>3, <2>5 DEF BoundariesOf
    <2>7. PICK first \in Nat : /\ first = Engine!Min(S) /\ first \in Engine!Boundaries(re)
                               /\ start <= first /\ first <= middle
      <3>1. Engine!Min(S) \in S /\ Engine!Min(S) <= middle
        BY <2>6, MinIs
      <3> QED
        BY <2>5, <2>6, <3>1
    <2>8. PICK R : R = {i \in Engine!Boundaries(re) : first <= i /\ i <= end}
      OBVIOUS
    <2>9. PICK t : t = Engine!truncate_match(re, max_len)
      OBVIOUS
    <2>10. t = IF end <= start THEN [start |-> start, end |-> start]
               ELSE [start |-> first, end |-> IF end <= first THEN end ELSE Engine!Max(R)]
      <3>1. Engine!End(re) = n
        BY <1>2
      <3> QED
        BY <1>4, <2>1, <2>2, <2>3, <2>4, <2>5, <2>7, <2>8, <2>9, <3>1
           DEF Engine!truncate_match, Engine!Span
    <2>11. CASE end <= start
      <3>1. t.start = start /\ t.end = start
        BY <2>10, <2>11
      <3> QED
        BY <2>9, <3>1 DEF CutRight
    <2>12. CASE ~(end <= start) /\ end <= first
      <3>1. t = [start |-> first, end |-> end]
        BY <2>10, <2>12
      <3>2. end = first
        BY <2>4, <2>7, <2>12
      <3>3. t.start = first /\ t.end = first
        BY <3>1, <3>2
      <3> QED
        BY <2>9, <3>3 DEF CutRight
    <2>13. CASE ~(end <= start) /\ ~(end <= first)
      <3>1. R \in SUBSET (0 .. n) /\ R # {}
        <4>1. first \in R
          BY <2>7, <2>8, <2>13
        <4> QED
          BY <1>1, <1>2, <2>8, <4>1 DEF BoundariesOf
      <3>2. PICK x : x = Engine!Max(R)
        OBVIOUS
      <3>3. x \in R
        BY <3>1, <3>2, MaxIs
      <3>4. x \in Nat /\ x \in Engine!Boundaries(re) /\ first <= x /\ x <= end
        BY <1>1, <2>8, <3>3 DEF BoundariesOf
      <3>5. t = [start |-> first, end |-> x]
        BY <2>10, <2>13, <3>2
      <3>6. t.start = first /\ t.end = x
        BY <3>5
      <3>7. x - first <= max_len
        BY <2>4, <2>7, <3>4
      <3> QED
        BY <2>7, <2>9, <3>4, <3>6, <3>7 DEF CutRight
    <2> QED
      BY <2>11, <2>12, <2>13
  <1> QED
    BY <1>3, <1>4

SpansRight(s, re) ==
    \A i, j \in DOMAIN s :
       /\ {s[i].start, s[i].end} \subseteq Engine!Boundaries(re)
       /\ i < j => s[i].end <= s[j].start

LEMMA SpansAreRight == ASSUME NEW re, RegexIs(re) PROVE SpansRight(Engine!matches(re), re)
  <1>1. PICK f : Scans(f, re)
    BY MatchesScan
  <1>2. PICK s : s = Engine!matches(re)
    OBVIOUS
  <1>3. InOrder(s, re, 0)
    <2>1. 0 \in 0 .. Engine!End(re)
      BY BoundariesAre DEF BoundariesOf
    <2> QED
      BY <1>1, <1>2, <2>1, ScansInOrder DEF Scans
  <1>4. DOMAIN s = 1 .. Len(s)
    BY <1>3 DEF InOrder
  <1> QED
    BY <1>2, <1>3, <1>4 DEF SpansRight, InOrder


-----------------------------------------------------------------------------
(* Every answer.                                                           *)

\* What the property says of an answer, in constants.
AnswerIs(re, c, answer) ==
    re.pattern # None =>
    /\ c.op = "sub" =>
         /\ answer.count = Engine!Replaced(re, c.arguments[2])
         /\ c.arguments[1] = <<Engine!Group(0)>> => answer.text = re.subject
         /\ c.arguments[1] = <<>> /\ re.groups = 0 =>
              answer.text = Engine!Rebuilt(Engine!split(re, 0, c.arguments[2]))
    /\ c.op = "split" /\ re.groups = 1 => Engine!Rebuilt(answer) = re.subject
    /\ c.op = "splitKeep" /\ re.groups = 0 => Engine!Rebuilt(answer) = re.subject
    /\ c.op = "highlight" /\ c.arguments[2] = <<>> => answer = re.subject
    /\ c.op = "replaceNth" =>
         Len(answer) = Engine!End(re) - Len(Engine!Removed(re, c.arguments[1]))
    /\ c.op = "findallOverlapping" => Len(answer) = Engine!Cardinality(Engine!StartsFrom(re, 0))
    /\ c.op = "truncateMatch" => CutRight(answer, re, c.arguments[1])
    /\ c.op = "findSpans" => SpansRight(answer, re)

RegexInv ==
    /\ re_regex.pattern # None => RegexIs(re_regex)
    /\ AnswerIs(re_regex, re_call, re_result)

LEMMA AnswersKeepSubject == RegexInv => Engine!SubjectIsKept
  BY DEF RegexInv, AnswerIs, CutRight, SpansRight, Engine!SubjectIsKept, Engine!Compiles

LEMMA RegexStarts == Engine!Init => RegexInv
  <1> SUFFICES ASSUME Engine!Init PROVE RegexInv
    OBVIOUS
  <1>1. PICK subject \in Engine!Subjects : re_regex \in Engine!Regexes(subject)
    BY DEF Engine!Init
  <1>2. re_call = [op |-> "none", arguments |-> <<>>]
    BY DEF Engine!Init, Engine!Call
  <1>3. AnswerIs(re_regex, re_call, re_result)
    BY <1>2 DEF AnswerIs
  <1>4. subject \in Seq(Bytes)
    <2>1. PICK k \in 0 .. MaxLength :
            \E chars \in [1 .. k -> Characters] : subject = Engine!FlattenSeq(chars)
      BY <1>1 DEF Engine!Subjects
    <2> PICK chars \in [1 .. k -> Characters] : subject = Engine!FlattenSeq(chars)
      BY <2>1
    <2>2. \A c \in Characters : c \in Seq(Bytes)
      BY NativeAssumption DEF Engine!RegexAssumption
    <2>3. k \in Nat /\ chars \in [1 .. k -> Seq(Bytes)]
      <3>1. k \in Nat
        BY NativeAssumption DEF Engine!RegexAssumption
      <3>2. \A i \in 1 .. k : chars[i] \in Seq(Bytes)
        BY <2>2
      <3> QED
        BY <3>1, <3>2
    <2>4. chars \in Seq(Seq(Bytes))
      BY <2>3
    <2> QED
      BY <2>4, FlattenIs
  <1>5. ASSUME re_regex.pattern # None PROVE RegexIs(re_regex)
    <2>1. PICK re : re = [subject |-> subject]
      OBVIOUS
    <2>2. PICK B : B = Engine!Boundaries(re)
      OBVIOUS
    <2>3. PICK g \in {0, 1}, q \in {None} \cup {r \in [B -> B \cup {None}] :
                                 \A s \in B : r[s] # None => r[s] >= s} :
            re_regex = [subject |-> subject, pattern |-> q, groups |-> g]
      BY <1>1, <2>1, <2>2 DEF Engine!Regexes
    <2>4. re_regex.subject = subject /\ re_regex.pattern = q /\ re_regex.groups = g
      BY <2>3
    <2>5. q \in [B -> B \cup {None}] /\ \A s \in B : q[s] # None => q[s] >= s
      BY <1>5, <2>3, <2>4
    <2>6. re.subject = subject
      BY <2>1
    <2>7. Engine!Boundaries(re_regex) = B
      BY <2>2, <2>4, <2>6 DEF Engine!Boundaries, Engine!Positions, Engine!End, Engine!is_char_boundary
    <2> QED
      BY <1>4, <2>4, <2>5, <2>7 DEF RegexIs
  <1> QED
    BY <1>3, <1>5 DEF RegexInv

\* An operation leaves the pattern and answers a call.
LEMMA RegexAnswers ==
    ASSUME NEW op, NEW arguments, NEW answer, Engine!Answer(op, arguments, answer)
    PROVE  /\ re_regex' = re_regex /\ re_result' = answer
           /\ re_call' = [op |-> op, arguments |-> arguments]
  BY DEF Engine!Answer, Engine!Call

\* The operations of which the property says something.
Judged == {"sub", "split", "splitKeep", "highlight", "replaceNth",
         "findallOverlapping", "truncateMatch", "findSpans"}

LEMMA OthersAnswer ==
    ASSUME NEW op, NEW arguments, NEW answer, Engine!Answer(op, arguments, answer),
           op \notin Judged
    PROVE  re_regex' = re_regex /\ AnswerIs(re_regex, re_call', re_result')
  <1>1. PICK c : c = re_call' /\ c = [op |-> op, arguments |-> arguments]
    BY RegexAnswers
  <1>2. c.op \notin Judged
    BY <1>1
  <1> QED
    BY <1>1, <1>2, RegexAnswers DEF AnswerIs, Judged

LEMMA SubAnswers ==
    ASSUME RegexInv, NEW r \in Replacements, NEW limit \in Engine!Limits, Engine!sub(r, limit)
    PROVE  re_regex' = re_regex /\ AnswerIs(re_regex, re_call', re_result')
  <1>1. PICK re : re = re_regex
    OBVIOUS
  <1>2. PICK c : c = re_call' /\ c = [op |-> "sub", arguments |-> <<r, limit>>]
    BY RegexAnswers DEF Engine!sub
  <1>3. c.op = "sub" /\ c.arguments[1] = r /\ c.arguments[2] = limit
    BY <1>2
  <1>4. ASSUME re.pattern # None
        PROVE  /\ re_result'.count = Engine!Replaced(re, limit)
               /\ r = <<Engine!Group(0)>> => re_result'.text = re.subject
               /\ r = <<>> => re_result'.text = Engine!Rebuilt(Engine!split(re, 0, limit))
    <2>1. re_result' = Engine!replace(re, r, limit)
      BY <1>1, <1>4, RegexAnswers DEF Engine!sub, Engine!with_pattern, Engine!Compiles
    <2>2. RegexIs(re)
      BY <1>1, <1>4 DEF RegexInv
    <2>3. r \in Seq(Engine!Part) /\ limit \in Int
      BY NativeAssumption DEF Engine!RegexAssumption, Engine!Limits
    <2> QED
      BY <2>1, <2>2, <2>3, ReplacedAreCounted, ReplacedByItself, ReplacedByNothing
         DEF Engine!Rebuilt
  <1>5. AnswerIs(re, c, re_result')
    BY <1>3, <1>4 DEF AnswerIs
  <1> QED
    BY <1>1, <1>2, <1>5, RegexAnswers DEF Engine!sub

LEMMA SplitAnswers ==
    ASSUME RegexInv, NEW limit \in Engine!Limits, Engine!re_split(limit)
    PROVE  re_regex' = re_regex /\ AnswerIs(re_regex, re_call', re_result')
  <1>1. PICK re : re = re_regex
    OBVIOUS
  <1>2. PICK c : c = re_call' /\ c = [op |-> "split", arguments |-> <<limit>>]
    BY RegexAnswers DEF Engine!re_split
  <1>3. c.op = "split"
    BY <1>2
  <1>4. ASSUME re.pattern # None, re.groups = 1
        PROVE  Engine!Rebuilt(re_result') = re.subject
    <2>1. re_result' = Engine!split(re, 1, limit)
      BY <1>1, <1>4, RegexAnswers DEF Engine!re_split, Engine!with_pattern, Engine!Compiles
    <2>2. RegexIs(re)
      BY <1>1, <1>4 DEF RegexInv
    <2> QED
      BY <2>1, <2>2, SplitKeepsSubject DEF Engine!Rebuilt
  <1>5. AnswerIs(re, c, re_result')
    BY <1>3, <1>4 DEF AnswerIs
  <1> QED
    BY <1>1, <1>2, <1>5, RegexAnswers DEF Engine!re_split

LEMMA SplitKeepAnswers ==
    ASSUME RegexInv, Engine!splitKeep
    PROVE  re_regex' = re_regex /\ AnswerIs(re_regex, re_call', re_result')
  <1>1. PICK re : re = re_regex
    OBVIOUS
  <1>2. PICK c : c = re_call' /\ c = [op |-> "splitKeep", arguments |-> <<>>]
    BY RegexAnswers DEF Engine!splitKeep
  <1>3. c.op = "splitKeep"
    BY <1>2
  <1>4. ASSUME re.pattern # None, re.groups = 0
        PROVE  Engine!Rebuilt(re_result') = re.subject
    <2>1. re_result' = Engine!split(re, re.groups + 1, -1)
      BY <1>1, <1>4, RegexAnswers DEF Engine!splitKeep, Engine!with_pattern, Engine!Compiles
    <2>2. re.groups + 1 = 1
      BY <1>4
    <2>3. RegexIs(re)
      BY <1>1, <1>4 DEF RegexInv
    <2> QED
      BY <2>1, <2>2, <2>3, SplitKeepsSubject DEF Engine!Rebuilt
  <1>5. AnswerIs(re, c, re_result')
    BY <1>3, <1>4 DEF AnswerIs
  <1> QED
    BY <1>1, <1>2, <1>5, RegexAnswers DEF Engine!splitKeep

LEMMA HighlightAnswers ==
    ASSUME RegexInv, NEW after, Engine!highlight(<<>>, after)
    PROVE  re_regex' = re_regex /\ AnswerIs(re_regex, re_call', re_result')
  <1>1. PICK re : re = re_regex
    OBVIOUS
  <1>2. PICK c : c = re_call' /\ c = [op |-> "highlight", arguments |-> <<<<>>, after>>]
    BY RegexAnswers DEF Engine!highlight
  <1>3. c.op = "highlight" /\ c.arguments[2] = after
    BY <1>2
  <1>4. ASSUME re.pattern # None, after = <<>> PROVE re_result' = re.subject
    <2>1. re_result' = Engine!replace_manual(re, -1, <<>>, <<>>, after, TRUE)
      BY <1>1, <1>4, RegexAnswers DEF Engine!highlight, Engine!with_pattern, Engine!Compiles
    <2>2. RegexIs(re)
      BY <1>1, <1>4 DEF RegexInv
    <2> QED
      BY <1>4, <2>1, <2>2, HighlightKeepsSubject
  <1>5. AnswerIs(re, c, re_result')
    BY <1>3, <1>4 DEF AnswerIs
  <1> QED
    BY <1>1, <1>2, <1>5, RegexAnswers DEF Engine!highlight

LEMMA NthAnswers ==
    ASSUME RegexInv, NEW nth \in Engine!Limits, Engine!replaceNth(nth, <<>>)
    PROVE  re_regex' = re_regex /\ AnswerIs(re_regex, re_call', re_result')
  <1>1. PICK re : re = re_regex
    OBVIOUS
  <1>2. PICK c : c = re_call' /\ c = [op |-> "replaceNth", arguments |-> <<nth, <<>>>>]
    BY RegexAnswers DEF Engine!replaceNth
  <1>3. c.op = "replaceNth" /\ c.arguments[1] = nth
    BY <1>2
  <1>4. ASSUME re.pattern # None
        PROVE  Len(re_result') = Engine!End(re) - Len(Engine!Removed(re, nth))
    <2>1. re_result' = Engine!replace_manual(re, nth, <<>>, <<>>, <<>>, FALSE)
      BY <1>1, <1>4, RegexAnswers DEF Engine!replaceNth, Engine!with_pattern, Engine!Compiles
    <2>2. RegexIs(re) /\ nth \in Int
      BY <1>1, <1>4 DEF RegexInv, Engine!Limits
    <2> QED
      BY <2>1, <2>2, NthIsRemoved
  <1>5. AnswerIs(re, c, re_result')
    BY <1>3, <1>4 DEF AnswerIs
  <1> QED
    BY <1>1, <1>2, <1>5, RegexAnswers DEF Engine!replaceNth

LEMMA OverlappingAnswers ==
    ASSUME RegexInv, Engine!findallOverlapping
    PROVE  re_regex' = re_regex /\ AnswerIs(re_regex, re_call', re_result')
  <1>1. PICK re : re = re_regex
    OBVIOUS
  <1>2. PICK c : c = re_call' /\ c = [op |-> "findallOverlapping", arguments |-> <<>>]
    BY RegexAnswers DEF Engine!findallOverlapping
  <1>3. c.op = "findallOverlapping"
    BY <1>2
  <1>4. ASSUME re.pattern # None
        PROVE  Len(re_result') = Engine!Cardinality(Engine!StartsFrom(re, 0))
    <2>1. re_result' = Engine!overlapping(re)
      BY <1>1, <1>4, RegexAnswers
         DEF Engine!findallOverlapping, Engine!with_pattern, Engine!Compiles
    <2>2. RegexIs(re)
      BY <1>1, <1>4 DEF RegexInv
    <2> QED
      BY <2>1, <2>2, OverlapsAreStarts
  <1>5. AnswerIs(re, c, re_result')
    BY <1>3, <1>4 DEF AnswerIs
  <1> QED
    BY <1>1, <1>2, <1>5, RegexAnswers DEF Engine!findallOverlapping

LEMMA TruncateAnswers ==
    ASSUME RegexInv, NEW max_len \in Nat, Engine!truncateMatch(max_len)
    PROVE  re_regex' = re_regex /\ AnswerIs(re_regex, re_call', re_result')
  <1>1. PICK re : re = re_regex
    OBVIOUS
  <1>2. PICK c : c = re_call' /\ c = [op |-> "truncateMatch", arguments |-> <<max_len>>]
    BY RegexAnswers DEF Engine!truncateMatch
  <1>3. c.op = "truncateMatch" /\ c.arguments[1] = max_len
    BY <1>2
  <1>4. ASSUME re.pattern # None PROVE CutRight(re_result', re, max_len)
    <2>1. re_result' = Engine!truncate_match(re, max_len)
      BY <1>1, <1>4, RegexAnswers DEF Engine!truncateMatch, Engine!with_pattern, Engine!Compiles
    <2>2. RegexIs(re)
      BY <1>1, <1>4 DEF RegexInv
    <2> QED
      BY <2>1, <2>2, MatchIsCut
  <1>5. AnswerIs(re, c, re_result')
    BY <1>3, <1>4 DEF AnswerIs
  <1> QED
    BY <1>1, <1>2, <1>5, RegexAnswers DEF Engine!truncateMatch

LEMMA SpansAnswer ==
    ASSUME RegexInv, Engine!findSpans
    PROVE  re_regex' = re_regex /\ AnswerIs(re_regex, re_call', re_result')
  <1>1. PICK re : re = re_regex
    OBVIOUS
  <1>2. PICK c : c = re_call' /\ c = [op |-> "findSpans", arguments |-> <<>>]
    BY RegexAnswers DEF Engine!findSpans
  <1>3. c.op = "findSpans"
    BY <1>2
  <1>4. ASSUME re.pattern # None PROVE SpansRight(re_result', re)
    <2>1. re_result' = Engine!matches(re)
      BY <1>1, <1>4, RegexAnswers DEF Engine!findSpans, Engine!with_pattern, Engine!Compiles
    <2>2. RegexIs(re)
      BY <1>1, <1>4 DEF RegexInv
    <2> QED
      BY <2>1, <2>2, SpansAreRight
  <1>5. AnswerIs(re, c, re_result')
    BY <1>3, <1>4 DEF AnswerIs
  <1> QED
    BY <1>1, <1>2, <1>5, RegexAnswers DEF Engine!findSpans

LEMMA RegexStep == RegexInv /\ [Engine!Next]_re_vars => RegexInv'
  <1> SUFFICES ASSUME RegexInv, [Engine!Next]_re_vars PROVE RegexInv'
    OBVIOUS
  <1>1. CASE UNCHANGED re_vars
    BY <1>1 DEF RegexInv, re_vars
  <1>2. ASSUME re_regex' = re_regex, AnswerIs(re_regex, re_call', re_result') PROVE RegexInv'
    BY <1>2 DEF RegexInv
  <1>3. ASSUME Engine!Next PROVE re_regex' = re_regex /\ AnswerIs(re_regex, re_call', re_result')
    <2>1. CASE Engine!test \/ Engine!match \/ Engine!search \/ Engine!findall
               \/ Engine!count_matches
      BY <2>1, OthersAnswer
         DEF Judged, Engine!test, Engine!match, Engine!search, Engine!findall, Engine!count_matches
    <2>2. CASE Engine!findSpansChar \/ Engine!matchStart \/ Engine!matchEnd
               \/ Engine!unique \/ Engine!lastMatch
      BY <2>2, OthersAnswer
         DEF Judged, Engine!findSpansChar, Engine!matchStart, Engine!matchEnd, Engine!unique,
             Engine!lastMatch
    <2>3. CASE Engine!findSpans
      BY <2>3, SpansAnswer
    <2>4. CASE \E replacement \in Replacements, limit \in Engine!Limits :
                  Engine!sub(replacement, limit)
      BY <2>4, SubAnswers
    <2>5. CASE \E limit \in Engine!Limits : Engine!re_split(limit)
      BY <2>5, SplitAnswers
    <2>6. CASE Engine!splitKeep
      BY <2>6, SplitKeepAnswers
    <2>7. CASE Engine!findallOverlapping
      BY <2>7, OverlappingAnswers
    <2>8. CASE \E nth \in Engine!Limits : Engine!replaceNth(nth, <<>>)
      BY <2>8, NthAnswers
    <2>9. CASE \E after \in {<<>>, <<"$">>} : Engine!highlight(<<>>, after)
      BY <2>9, HighlightAnswers
    <2>10. CASE \E max_len \in 0 .. Engine!End(re_regex) + 1 : Engine!truncateMatch(max_len)
      BY <2>10, TruncateAnswers
    <2> QED
      BY <1>3, <2>1, <2>2, <2>3, <2>4, <2>5, <2>6, <2>7, <2>8, <2>9, <2>10 DEF Engine!Next
  <1> QED
    BY <1>1, <1>2, <1>3

\* Whatever the pattern matches, no operation loses or doubles a part of the subject,
\* counts other matches than it replaced, or takes out a part of a character
\* (matches_from, replace, split and the helpers of regex_engine/src/lib.rs,
\* replaceNth, highlight and truncateMatch of regex/src/lib.rs).
THEOREM SubjectsAreKept == Spec => []SubjectIsKept
  <1>1. Init => (focus = "regex" => RegexInv)
    BY FocusStart, RegexStarts
  <1>2. (focus = "regex" => RegexInv) /\ [Next]_vars => (focus = "regex" => RegexInv)'
    BY FocusStep, RegexStep
  <1>3. (focus = "regex" => RegexInv) => SubjectIsKept
    BY AnswersKeepSubject DEF SubjectIsKept
  <1> QED
    BY <1>1, <1>2, <1>3, PTL DEF Spec

=============================================================================
