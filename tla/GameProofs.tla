----------------------------- MODULE GameProofs -----------------------------
(****************************************************************************)
(* Proofs about the game and graphics modules of NativeModules: frame       *)
(* loops, registries, input, surfaces, widgets, physics, sprites and tile   *)
(* maps, for any threads, keys, textures, walls and map files.  The lemmas  *)
(* about sequences and recursion are those all native modules need.         *)
(*                                                                          *)
(* A behaviour follows one module.  For each module there is an invariant   *)
(* of it alone; the theorems put them under its `focus`.                    *)
(****************************************************************************)
EXTENDS NativeModules, SequenceTheorems, FunctionTheorems, FiniteSetTheorems,
        NaturalsInduction, WellFoundedInduction, TLAPS

-----------------------------------------------------------------------------
(* A step of the whole is one of the module it follows.                    *)

LEMMA FocusStart ==
    ASSUME Init
    PROVE  /\ focus = "frames" => Loop!Init
           /\ focus = "surfaces" => Surfaces!Init
           /\ focus = "ui" => Ui!Init
           /\ focus = "world" => World!Init
           /\ focus = "watch" => Watching!Init
           /\ focus = "network" => Net!Init
           /\ focus = "prompts" => Prompts!Init
           /\ focus = "displays" => Displays!Init
           /\ focus = "sound" => Sounds!Init
           /\ focus = "database" => Store!Init
           /\ focus = "images" => Pictures!Init
           /\ focus = "input" => Inputs!Init
           /\ focus = "physics" => Physics!Init
           /\ focus = "sprites" => Sprites!Init
           /\ focus = "tilemap" => Maps!Init
           /\ focus = "regex" => Engine!Init
  BY DEF Init, Start

LEMMA FocusStep ==
    ASSUME [Next]_vars
    PROVE  /\ focus' = focus
           /\ focus = "frames" => [Loop!Next]_loop_vars
           /\ focus = "surfaces" => [Surfaces!Next]_paint_vars
           /\ focus = "ui" => [Ui!Next]_ui_vars
           /\ focus = "world" => [World!Next]_world_vars
           /\ focus = "watch" => [Watching!Next]_watch_vars
           /\ focus = "network" => [Net!Next]_net_vars
           /\ focus = "prompts" => [Prompts!Next]_term_vars
           /\ focus = "displays" => [Displays!Next]_disp_vars
           /\ focus = "sound" => [Sounds!Next]_sound_vars
           /\ focus = "database" => [Store!Next]_db_vars
           /\ focus = "images" => [Pictures!Next]_img_vars
           /\ focus = "input" => [Inputs!Next]_in_vars
           /\ focus = "physics" => [Physics!Next]_body_vars
           /\ focus = "sprites" => [Sprites!Next]_sprite_vars
           /\ focus = "tilemap" => [Maps!Next]_map_vars
           /\ focus = "regex" => [Engine!Next]_re_vars
  BY DEF Next, vars

-----------------------------------------------------------------------------
(* Sequences whose elements do not matter.                                 *)

IsSeq(s) == \E S : s \in Seq(S)

LEMMA AppendedSeq ==
    ASSUME NEW s, NEW e, IsSeq(s)
    PROVE  /\ IsSeq(Append(s, e))
           /\ Len(s) \in Nat /\ DOMAIN s = 1 .. Len(s)
           /\ DOMAIN Append(s, e) = 1 .. (Len(s) + 1)
           /\ \A i \in DOMAIN s : Append(s, e)[i] = s[i]
           /\ Append(s, e)[Len(s) + 1] = e
  <1>1. PICK S : s \in Seq(S)
    BY DEF IsSeq
  <1>2. PICK V : V = S \cup {e}
    OBVIOUS
  <1>3. s \in Seq(V) /\ e \in V
    BY <1>1, <1>2
  <1>4. /\ Append(s, e) \in Seq(V)
        /\ Len(s) \in Nat /\ DOMAIN s = 1 .. Len(s)
        /\ DOMAIN Append(s, e) = 1 .. (Len(s) + 1)
        /\ \A i \in DOMAIN s : Append(s, e)[i] = s[i]
        /\ Append(s, e)[Len(s) + 1] = e
    BY <1>3
  <1> QED
    BY <1>4 DEF IsSeq

LEMMA ChangedSeq ==
    ASSUME NEW s, IsSeq(s), NEW k, NEW e
    PROVE  /\ IsSeq([s EXCEPT ![k] = e])
           /\ DOMAIN [s EXCEPT ![k] = e] = DOMAIN s
  <1>1. PICK S : s \in Seq(S)
    BY DEF IsSeq
  <1>2. PICK V : V = S \cup {e}
    OBVIOUS
  <1>3. s \in Seq(V) /\ e \in V
    BY <1>1, <1>2
  <1>4. Len(s) \in Nat /\ s \in [1 .. Len(s) -> V]
    BY <1>3
  <1>5. [s EXCEPT ![k] = e] \in [1 .. Len(s) -> V]
    BY <1>3, <1>4
  <1>6. [s EXCEPT ![k] = e] \in Seq(V)
    BY <1>4, <1>5
  <1> QED
    BY <1>6 DEF IsSeq

LEMMA MappedSeq ==
    ASSUME NEW s, IsSeq(s), NEW r, r = [i \in DOMAIN s |-> r[i]]
    PROVE  IsSeq(r) /\ DOMAIN r = DOMAIN s
  <1>1. PICK S : s \in Seq(S)
    BY DEF IsSeq
  <1>2. DOMAIN s = 1 .. Len(s) /\ Len(s) \in Nat
    BY <1>1
  <1>3. PICK V : V = {r[i] : i \in DOMAIN s}
    OBVIOUS
  <1>4. r \in [1 .. Len(s) -> V]
    BY <1>2, <1>3
  <1>5. r \in Seq(V)
    BY <1>2, <1>4
  <1> QED
    BY <1>5 DEF IsSeq

LEMMA ShortenedSeq ==
    ASSUME NEW s, IsSeq(s), s # <<>>, NEW r, r = SubSeq(s, 1, Len(s) - 1)
    PROVE  /\ IsSeq(r) /\ Len(s) \in DOMAIN s
           /\ DOMAIN r \subseteq DOMAIN s /\ \A i \in DOMAIN r : r[i] = s[i]
  <1>1. PICK S : s \in Seq(S)
    BY DEF IsSeq
  <1>2. PICK n : n = Len(s)
    OBVIOUS
  <1>3. n \in Nat /\ n # 0 /\ DOMAIN s = 1 .. n /\ n - 1 \in Nat /\ n \in 1 .. n
    BY <1>1, <1>2
  <1>4. \A i \in 1 .. n - 1 : s[i] \in S
    BY <1>1, <1>3
  <1>5. /\ r \in Seq(S) /\ Len(r) = IF 1 <= n - 1 THEN (n - 1) - 1 + 1 ELSE 0
        /\ \A i \in 1 .. (n - 1) - 1 + 1 : r[i] = s[1 + i - 1]
    BY <1>2, <1>3, <1>4, SubSeqProperties
  <1>6. Len(r) = n - 1 /\ \A i \in 1 .. n - 1 : 1 + i - 1 = i
    BY <1>3, <1>5
  <1>7. 1 .. (n - 1) - 1 + 1 = 1 .. n - 1
    BY <1>3
  <1>8. DOMAIN r = 1 .. n - 1
    BY <1>5, <1>6
  <1> QED
    BY <1>2, <1>3, <1>5, <1>6, <1>7, <1>8 DEF IsSeq

\* Joining sequences is associative.
Joins(r, s, t) == (r \o s) \o t = r \o (s \o t)

LEMMA SeqJoins ==
    ASSUME NEW S, NEW r \in Seq(S), NEW s \in Seq(S), NEW t \in Seq(S)
    PROVE  Joins(r, s, t)
  BY ConcatAssociative, SMTT(60) DEF Joins

-----------------------------------------------------------------------------
(* Induction over the natural numbers: a set of them has a least one.      *)

LEMMA Least ==
    ASSUME NEW T, T \subseteq Nat, T # {}
    PROVE  \E x \in T : \A y \in T : x <= y
  <1>1. PICK R : R = {ss \in Nat \X Nat : ss[1] < ss[2]}
    OBVIOUS
  <1>2. IsWellFoundedOn(R, Nat)
    BY <1>1, NatLessThanWellFounded DEF OpToRel
  <1>3. PICK x \in T : \A y \in T : <<y, x>> \notin R
    BY <1>2, WFMin
  <1>4. ASSUME NEW y \in T PROVE x <= y
    <2>1. x \in Nat /\ y \in Nat
      BY <1>3
    <2>2. <<y, x>> \in R <=> y < x
      BY <1>1, <2>1
    <2> QED
      BY <1>3, <2>1, <2>2
  <1> QED
    BY <1>3, <1>4

-----------------------------------------------------------------------------
(* Recursion over the natural numbers: a function of n that looks at its   *)
(* value for n - 1 exists.                                                 *)

LEMMA Induction ==
    ASSUME NEW T, 0 \in T, \A n \in Nat : n \in T => n + 1 \in T
    PROVE  \A n \in Nat : n \in T
  <1>1. PICK B : B = {n \in Nat : n \notin T}
    OBVIOUS
  <1>2. ASSUME B # {} PROVE FALSE
    <2>1. B \subseteq Nat
      BY <1>1
    <2>2. PICK n \in B : \A m \in B : n <= m
      BY <1>2, <2>1, Least
    <2>3. n \in Nat /\ n \notin T /\ n # 0
      BY <1>1, <2>2
    <2>4. n - 1 \in Nat /\ ~(n <= n - 1) /\ (n - 1) + 1 = n
      BY <2>3
    <2>5. n - 1 \in T
      BY <1>1, <2>2, <2>4
    <2> QED
      BY <2>3, <2>4, <2>5
  <1> QED
    BY <1>1, <1>2

\* The first n + 1 values of a function that starts with x and goes on with G.
Begins(f, n, S, x, G) ==
    /\ f \in [0 .. n -> S] /\ f[0] = x
    /\ \A k \in 1 .. n : f[k] = G[<<k, f[k - 1]>>]

LEMMA BeginsLonger ==
    ASSUME NEW S, NEW x \in S, NEW G \in [Nat \X S -> S], NEW n \in Nat,
           NEW g, Begins(g, n, S, x, G)
    PROVE  \E f : Begins(f, n + 1, S, x, G)
  <1>1. PICK last : last = G[<<n + 1, g[n]>>]
    OBVIOUS
  <1>2. last \in S
    BY <1>1 DEF Begins
  <1>3. PICK f : f = [k \in 0 .. n + 1 |-> IF k = n + 1 THEN last ELSE g[k]]
    OBVIOUS
  <1>4. f \in [0 .. n + 1 -> S]
    BY <1>2, <1>3 DEF Begins
  <1>5. f[0] = x
    BY <1>3 DEF Begins
  <1>6. ASSUME NEW k \in 1 .. n + 1 PROVE f[k] = G[<<k, f[k - 1]>>]
    <2>1. f[k - 1] = g[k - 1]
      BY <1>3
    <2>2. CASE k = n + 1
      <3>1. k - 1 = n /\ f[k] = last
        BY <1>3, <2>2
      <3> QED
        BY <1>1, <2>1, <2>2, <3>1
    <2>3. CASE k # n + 1
      <3>1. k \in 1 .. n /\ f[k] = g[k]
        BY <1>3, <2>3
      <3> QED
        BY <2>1, <3>1 DEF Begins
    <2> QED
      BY <2>2, <2>3
  <1> QED
    BY <1>4, <1>5, <1>6 DEF Begins

LEMMA BeginsExist ==
    ASSUME NEW S, NEW x \in S, NEW G \in [Nat \X S -> S]
    PROVE  \A n \in Nat : \E f : Begins(f, n, S, x, G)
  <1>1. PICK T : T = {n \in Nat : \E f : Begins(f, n, S, x, G)}
    OBVIOUS
  <1>2. 0 \in T
    <2>1. PICK f : f = [k \in 0 .. 0 |-> x]
      OBVIOUS
    <2>2. Begins(f, 0, S, x, G)
      BY <2>1 DEF Begins
    <2> QED
      BY <1>1, <2>2
  <1>3. ASSUME NEW n \in Nat, n \in T PROVE n + 1 \in T
    BY <1>1, <1>3, BeginsLonger
  <1>4. \A n \in Nat : n \in T
    BY <1>2, <1>3, Induction
  <1> QED
    BY <1>1, <1>4

LEMMA BeginsAgree ==
    ASSUME NEW S, NEW x, NEW G, NEW n \in Nat, NEW m \in Nat,
           NEW f, NEW g, Begins(f, n, S, x, G), Begins(g, m, S, x, G), n <= m
    PROVE  f[n] = g[n]
  <1>1. PICK T : T = {k \in Nat : k <= n => f[k] = g[k]}
    OBVIOUS
  <1>2. 0 \in T
    BY <1>1 DEF Begins
  <1>3. ASSUME NEW k \in Nat, k \in T PROVE k + 1 \in T
    <2>1. CASE k + 1 <= n
      <3>1. k + 1 \in 1 .. n /\ k + 1 \in 1 .. m /\ (k + 1) - 1 = k
        BY <2>1
      <3>2. f[k] = g[k]
        BY <1>1, <1>3, <2>1
      <3>3. f[k + 1] = G[<<k + 1, f[k]>>] /\ g[k + 1] = G[<<k + 1, g[k]>>]
        BY <3>1 DEF Begins
      <3> QED
        BY <1>1, <3>2, <3>3
    <2>2. CASE ~(k + 1 <= n)
      BY <1>1, <2>2
    <2> QED
      BY <2>1, <2>2
  <1>4. \A k \in Nat : k \in T
    BY <1>2, <1>3, Induction
  <1> QED
    BY <1>1, <1>4

Repeats(f, S, x, G) ==
    /\ f \in [Nat -> S] /\ f[0] = x
    /\ \A n \in Nat : f[n + 1] = G[<<n + 1, f[n]>>]

LEMMA RecursionExists ==
    ASSUME NEW S, NEW x \in S, NEW G \in [Nat \X S -> S]
    PROVE  \E f : Repeats(f, S, x, G)
  <1>1. PICK gs : gs = [n \in Nat |-> CHOOSE g : Begins(g, n, S, x, G)]
    OBVIOUS
  <1>2. \A n \in Nat : Begins(gs[n], n, S, x, G)
    BY <1>1, BeginsExist
  <1>3. PICK f : f = [n \in Nat |-> gs[n][n]]
    OBVIOUS
  <1>4. f \in [Nat -> S]
    BY <1>2, <1>3 DEF Begins
  <1>5. f[0] = x
    BY <1>2, <1>3 DEF Begins
  <1>6. ASSUME NEW n \in Nat PROVE f[n + 1] = G[<<n + 1, f[n]>>]
    <2>1. Begins(gs[n], n, S, x, G) /\ Begins(gs[n + 1], n + 1, S, x, G)
      BY <1>2
    <2>2. gs[n][n] = gs[n + 1][n]
      BY <2>1, BeginsAgree
    <2>3. n + 1 \in 1 .. n + 1 /\ (n + 1) - 1 = n
      OBVIOUS
    <2>4. gs[n + 1][n + 1] = G[<<n + 1, gs[n + 1][n]>>]
      BY <2>1, <2>3 DEF Begins
    <2> QED
      BY <1>3, <2>2, <2>4
  <1> QED
    BY <1>4, <1>5, <1>6 DEF Repeats

-----------------------------------------------------------------------------
(* Frame loops: the runs of a thread.                                     *)

RunStacks == [Threads -> Seq(Loop!Run)]

LEMMA TopRun ==
    ASSUME loop_runs \in RunStacks, NEW t \in Threads, loop_runs[t] # <<>>
    PROVE  /\ Loop!Depth(t) \in Nat \ {0} /\ Loop!Depth(t) \in DOMAIN loop_runs[t]
           /\ Loop!Top(t) \in Loop!Run
  BY DEF RunStacks, Loop!Depth, Loop!Top

LEMMA ChangedTopRun ==
    ASSUME loop_runs \in RunStacks, NEW t \in Threads, loop_runs[t] # <<>>, NEW r \in Loop!Run
    PROVE  /\ Loop!SetTop(t, r) \in RunStacks
           /\ \A u \in Threads : DOMAIN Loop!SetTop(t, r)[u] = DOMAIN loop_runs[u]
           /\ \A u \in Threads : Len(Loop!SetTop(t, r)[u]) = Len(loop_runs[u])
           /\ \A u \in Threads \ {t} : Loop!SetTop(t, r)[u] = loop_runs[u]
           /\ \A i \in DOMAIN loop_runs[t] :
                 Loop!SetTop(t, r)[t][i] = IF i = Loop!Depth(t) THEN r ELSE loop_runs[t][i]
  <1>1. Loop!Depth(t) \in DOMAIN loop_runs[t] /\ loop_runs[t] \in Seq(Loop!Run)
    BY TopRun DEF RunStacks
  <1>2. Loop!SetTop(t, r) = [loop_runs EXCEPT ![t] = [loop_runs[t] EXCEPT ![Loop!Depth(t)] = r]]
    BY DEF Loop!SetTop
  <1>3. [loop_runs[t] EXCEPT ![Loop!Depth(t)] = r] \in Seq(Loop!Run)
    BY <1>1
  <1>4. Len([loop_runs[t] EXCEPT ![Loop!Depth(t)] = r]) = Len(loop_runs[t])
    BY <1>1
  <1> QED
    BY <1>1, <1>2, <1>3, <1>4 DEF RunStacks

LEMMA PoppedRun ==
    ASSUME loop_runs \in RunStacks, NEW t \in Threads, loop_runs[t] # <<>>
    PROVE  /\ [loop_runs EXCEPT ![t] = Loop!Pop(t)] \in RunStacks
           /\ Loop!Pop(t) \in Seq(Loop!Run)
           /\ Len(Loop!Pop(t)) = Loop!Depth(t) - 1
           /\ DOMAIN Loop!Pop(t) = {i \in DOMAIN loop_runs[t] : i < Loop!Depth(t)}
           /\ \A i \in DOMAIN Loop!Pop(t) : Loop!Pop(t)[i] = loop_runs[t][i]
  <1>1. Loop!Depth(t) \in Nat \ {0} /\ loop_runs[t] \in Seq(Loop!Run)
    BY TopRun DEF RunStacks
  <1>2. Loop!Pop(t) \in Seq(Loop!Run) /\ Len(Loop!Pop(t)) = Loop!Depth(t) - 1
    BY <1>1 DEF Loop!Pop, Loop!Depth
  <1>3. \A i \in 1 .. Loop!Depth(t) - 1 : Loop!Pop(t)[i] = loop_runs[t][i]
    BY <1>1 DEF Loop!Pop, Loop!Depth
  <1>4. DOMAIN Loop!Pop(t) = 1 .. Loop!Depth(t) - 1 /\ DOMAIN loop_runs[t] = 1 .. Loop!Depth(t)
    BY <1>1, <1>2 DEF Loop!Depth
  <1>5. [loop_runs EXCEPT ![t] = Loop!Pop(t)] \in RunStacks
    BY <1>2 DEF RunStacks
  <1>6. \A i \in DOMAIN Loop!Pop(t) : Loop!Pop(t)[i] = loop_runs[t][i]
    BY <1>3, <1>4
  <1>7. DOMAIN Loop!Pop(t) = {i \in DOMAIN loop_runs[t] : i < Loop!Depth(t)}
    BY <1>1, <1>4
  <1> QED
    BY <1>2, <1>5, <1>6, <1>7

LEMMA PushedRun ==
    ASSUME loop_runs \in RunStacks, NEW t \in Threads, NEW r \in Loop!Run
    PROVE  /\ [loop_runs EXCEPT ![t] = Append(@, r)] \in RunStacks
           /\ Len(Append(loop_runs[t], r)) = Loop!Depth(t) + 1
           /\ DOMAIN Append(loop_runs[t], r) = DOMAIN loop_runs[t] \cup {Loop!Depth(t) + 1}
           /\ \A i \in DOMAIN loop_runs[t] : Append(loop_runs[t], r)[i] = loop_runs[t][i]
           /\ Append(loop_runs[t], r)[Loop!Depth(t) + 1] = r
  BY DEF RunStacks, Loop!Depth

-----------------------------------------------------------------------------
(* The inductive invariant.                                                *)

\* A run that goes on has frames left, and a thread that is not inside a run's
\* own code is in one of its callbacks.
RunsArePlaced ==
    /\ \A t \in Threads : loop_pc[t] = "native" => loop_runs[t] # <<>>
    /\ \A t \in Threads : \A i \in DOMAIN loop_runs[t] :
          /\ loop_runs[t][i].at # "stop" => loop_runs[t][i].frame < HEADLESS_FRAMES
          /\ i < Loop!Depth(t) \/ loop_pc[t] # "native"
                => loop_runs[t][i].at \in Loop!Callbacks

\* A failure is kept by the innermost run of the thread that evaluates, on its
\* way out, and waits in deferredNativeError unless it is an interrupt.
Waits(t, failure) ==
    /\ loop_holder = t /\ loop_pc[t] = "native"
    /\ loop_deferred = failure \/ (failure = INTERRUPT /\ loop_interrupted)

FailuresAreCarried ==
    /\ loop_deferred # INTERRUPT
    /\ \A t \in Threads : loop_raised[t] = INTERRUPT => loop_interrupted
    /\ \A t \in Threads : \A i \in DOMAIN loop_runs[t] :
          loop_runs[t][i].failure # None =>
             i = Loop!Depth(t) /\ loop_runs[t][i].at = "stop" /\ Waits(t, loop_runs[t][i].failure)

LoopInv == Loop!TypeOK /\ RunsArePlaced /\ FailuresAreCarried

\* No run has a failure.
NoRunFailed ==
    \A t \in Threads : \A i \in DOMAIN loop_runs[t] : loop_runs[t][i].failure = None

LEMMA LoopInit == ASSUME Loop!FrameAssumption, Loop!Init PROVE LoopInv
  <1>1. Loop!TypeOK
    <2>1. <<>> \in Seq(Loop!Run)
      OBVIOUS
    <2>2. [t \in Threads |-> <<>>] \in [Threads -> Seq(Loop!Run)]
      BY <2>1
    <2>3. loop_runs \in [Threads -> Seq(Loop!Run)]
      BY <2>2 DEF Loop!Init
    <2>4. /\ loop_holder \in Threads \cup {None}
          /\ loop_pc \in [Threads -> {"code", "raising", "native", "parked", "ended"}]
          /\ loop_raised \in [Threads -> Loop!Errors \cup {None}]
          /\ loop_deferred \in Loop!Errors \cup {None}
      BY DEF Loop!Init, Loop!FrameAssumption
    <2> QED
      BY <2>3, <2>4 DEF Loop!Init, Loop!TypeOK
  <1>2. \A t \in Threads : DOMAIN loop_runs[t] = {}
    <2>1. ASSUME NEW t \in Threads PROVE DOMAIN loop_runs[t] = {}
      <3>1. loop_runs[t] = <<>>
        BY DEF Loop!Init
      <3> QED
        BY <3>1
    <2> QED
      BY <2>1
  <1>3. loop_deferred # INTERRUPT /\ \A t \in Threads : loop_raised[t] # INTERRUPT
    BY DEF Loop!Init, Loop!FrameAssumption, Loop!Errors
  <1>4. \A t \in Threads : loop_pc[t] # "native"
    BY DEF Loop!Init
  <1>5. RunsArePlaced
    BY <1>2, <1>4 DEF RunsArePlaced
  <1>6. FailuresAreCarried
    BY <1>2, <1>3 DEF FailuresAreCarried
  <1> QED
    BY <1>1, <1>5, <1>6 DEF LoopInv

\* While a thread evaluates its program, and between two frames, all is well.
LEMMA CodeIsClean ==
    ASSUME LoopInv, Loop!FrameAssumption, NEW t \in Threads, loop_holder = t, loop_pc[t] # "native"
    PROVE  NoRunFailed
  BY DEF LoopInv, FailuresAreCarried, Waits, NoRunFailed

LEMMA LoopIsClean ==
    ASSUME LoopInv, Loop!FrameAssumption, NEW t \in Threads, Loop!InRun(t), loop_runs[t] # <<>>,
           Loop!Top(t).at # "stop"
    PROVE  NoRunFailed
  BY DEF LoopInv, FailuresAreCarried, Waits, NoRunFailed, Loop!InRun, Loop!Top

LEMMA FreeIsClean ==
    ASSUME LoopInv, Loop!FrameAssumption, loop_holder = None
    PROVE  NoRunFailed
  BY DEF LoopInv, FailuresAreCarried, Waits, NoRunFailed, Loop!FrameAssumption

LEMMA RunsStayPlaced ==
    ASSUME RunsArePlaced, loop_runs' = loop_runs,
           \A t \in Threads : (loop_pc'[t] = "native") <=> (loop_pc[t] = "native")
    PROVE  RunsArePlaced'
  BY DEF RunsArePlaced, Loop!Depth

LEMMA FailuresStayCarried ==
    ASSUME NoRunFailed, loop_runs' = loop_runs, loop_deferred' # INTERRUPT,
           \A t \in Threads : loop_raised'[t] = INTERRUPT => loop_interrupted'
    PROVE  FailuresAreCarried'
  BY DEF NoRunFailed, FailuresAreCarried

-----------------------------------------------------------------------------
(* Errors.                                                                 *)

AnyError == Loop!Errors \cup {None}

LEMMA SpecialErrors ==
    ASSUME Loop!FrameAssumption
    PROVE  /\ INTERRUPT \in Loop!Errors /\ EXIT \in Loop!Errors /\ None \notin Loop!Errors
           /\ INTERRUPT # EXIT /\ INTERRUPT # None /\ EXIT # None
           /\ INTERRUPT \notin Loop!ProgramErrors /\ EXIT \notin Loop!ProgramErrors
  BY DEF Loop!FrameAssumption, Loop!Errors

LEMMA SignalIsError ==
    ASSUME Loop!FrameAssumption, NEW t \in Threads
    PROVE  Loop!Signal(t) \in AnyError /\ (Loop!Signal(t) = INTERRUPT => loop_interrupted)
  BY SpecialErrors DEF Loop!Signal, AnyError

LEMMA ThrownIsError ==
    ASSUME Loop!FrameAssumption, LoopInv, NEW t \in Threads
    PROVE  Loop!Thrown(t) \in AnyError /\ (Loop!Thrown(t) = INTERRUPT => loop_interrupted)
  <1>1. loop_deferred \in AnyError /\ loop_deferred # INTERRUPT
    BY DEF LoopInv, Loop!TypeOK, FailuresAreCarried, AnyError
  <1> QED
    BY <1>1, SpecialErrors, SignalIsError DEF Loop!Thrown, AnyError

PcStates == {"code", "raising", "native", "parked", "ended"}

LEMMA RaisedError ==
    ASSUME Loop!FrameAssumption, LoopInv, NEW t \in Threads, NEW error \in AnyError,
           Loop!Raise(t, error), error = INTERRUPT => loop_interrupted'
    PROVE  /\ loop_raised' \in [Threads -> AnyError] /\ loop_pc' \in [Threads -> PcStates]
           /\ loop_pc'[t] \in {"code", "raising"}
           /\ \A u \in Threads \ {t} : loop_pc'[u] = loop_pc[u] /\ loop_raised'[u] = loop_raised[u]
           /\ loop_raised'[t] = error
  BY DEF LoopInv, Loop!TypeOK, Loop!Raise, AnyError, PcStates

-----------------------------------------------------------------------------
(* Steps that leave the runs as they are.                                  *)

\* Whoever takes, gives away or uses the lock in Lynxer code.
LoopLockStep(t) == Loop!Yield(t) \/ Loop!Acquire(t)

RaisingStep(t) ==
    \/ Loop!Throw(t) \/ Loop!Catch(t) \/ Loop!Uncaught(t)
    \/ Loop!AnyNativeCall(t) \/ Loop!RequestExit(t)
    \/ \E m \in FrameModules : Loop!init(t, m) \/ Loop!stop(t, m)
    \/ \E m \in FrameModules : \E c \in Loop!Registrable(m), named \in BOOLEAN :
          Loop!set_callback(t, m, c, named)

LEMMA InterruptKeeps == ASSUME Loop!FrameAssumption, LoopInv, Loop!Interrupt PROVE LoopInv'
  <1>1. Loop!TypeOK'
    BY DEF LoopInv, Loop!TypeOK, Loop!Interrupt, Loop!module
  <1>2. RunsArePlaced'
    BY RunsStayPlaced DEF LoopInv, Loop!Interrupt
  <1>3. FailuresAreCarried'
    BY DEF LoopInv, FailuresAreCarried, Loop!Interrupt, Waits, Loop!Depth
  <1> QED
    BY <1>1, <1>2, <1>3 DEF LoopInv

LEMMA LoopLockStepKeeps ==
    ASSUME Loop!FrameAssumption, LoopInv, NEW t \in Threads, LoopLockStep(t) PROVE LoopInv'
  <1>1. NoRunFailed
    BY CodeIsClean, FreeIsClean DEF LoopLockStep, Loop!Yield, Loop!Acquire, Loop!Code
  <1>2. Loop!TypeOK'
    BY DEF LoopInv, Loop!TypeOK, LoopLockStep, Loop!Yield, Loop!Acquire, Loop!Code,
           Loop!module
  <1>3. RunsArePlaced'
    <2>1. \A u \in Threads : (loop_pc'[u] = "native") <=> (loop_pc[u] = "native")
      BY DEF LoopInv, Loop!TypeOK, LoopLockStep, Loop!Yield, Loop!Acquire, Loop!Code
    <2> QED
      BY <2>1, RunsStayPlaced DEF LoopInv, LoopLockStep, Loop!Yield, Loop!Acquire
  <1>4. FailuresAreCarried'
    <2>1. UNCHANGED <<loop_deferred, loop_raised, loop_interrupted, loop_runs>>
      BY DEF LoopLockStep, Loop!Yield, Loop!Acquire
    <2> QED
      BY <1>1, <2>1, FailuresStayCarried DEF LoopInv, FailuresAreCarried
  <1> QED
    BY <1>2, <1>3, <1>4 DEF LoopInv

\* The error a program throws itself.
LEMMA ProgramError ==
    ASSUME Loop!FrameAssumption, LoopInv, NEW t \in Threads, loop_pc[t] = "code"
    PROVE  [by |-> t, depth |-> Loop!Depth(t),
            in |-> IF loop_runs[t] = <<>> THEN "program" ELSE Loop!Top(t).at] \in Loop!ProgramErrors
  <1>1. loop_runs \in RunStacks
    BY DEF LoopInv, Loop!TypeOK, RunStacks
  <1>2. Loop!Depth(t) \in Nat
    BY <1>1 DEF RunStacks, Loop!Depth
  <1>3. loop_runs[t] # <<>> => Loop!Top(t).at \in Loop!Callbacks
    BY <1>1, TopRun DEF LoopInv, RunsArePlaced, Loop!Top
  <1> QED
    BY <1>2, <1>3 DEF Loop!ProgramErrors

\* The functions of the two modules change nothing but their own state.
FrameModuleType ==
    /\ loop_registered \in [Threads -> [FrameModules -> SUBSET Loop!Callbacks]]
    /\ loop_quit_requested \in [Threads -> SUBSET FrameModules]
    /\ loop_headless \in [FrameModules -> BOOLEAN]
    /\ loop_callback_active \in [Threads -> BOOLEAN]
    /\ loop_running \in [Threads -> SUBSET FrameModules]

LEMMA FrameModuleCalls ==
    ASSUME Loop!FrameAssumption, LoopInv, NEW t \in Threads, RaisingStep(t)
    PROVE  FrameModuleType'
  <1>1. FrameModuleType
    BY DEF LoopInv, Loop!TypeOK, FrameModuleType
  <1>2. CASE UNCHANGED Loop!module
    BY <1>1, <1>2 DEF FrameModuleType, Loop!module
  <1>3. ASSUME NEW m \in FrameModules, Loop!init(t, m) \/ Loop!stop(t, m) PROVE FrameModuleType'
    BY <1>1, <1>3 DEF Loop!init, Loop!stop, Loop!NativeCall, FrameModuleType, Loop!module
  <1>4. ASSUME NEW m \in FrameModules, NEW c \in Loop!Registrable(m), NEW named \in BOOLEAN,
               Loop!set_callback(t, m, c, named)
        PROVE  FrameModuleType'
    <2>1. c \in Loop!Callbacks
      BY DEF Loop!Registrable, Loop!Callbacks
    <2> DEFINE old == loop_registered[t][m]
               new == IF named THEN old \cup {c} ELSE old \ {c}
    <2>2. /\ \/ loop_registered' = loop_registered
             \/ loop_registered' = [loop_registered EXCEPT ![t][m] = new]
          /\ UNCHANGED <<loop_headless, loop_quit_requested, loop_callback_active,
                         loop_running>>
      BY <1>4 DEF Loop!set_callback, Loop!NativeCall, Loop!module
    <2>3. old \in SUBSET Loop!Callbacks
      BY <1>1 DEF FrameModuleType
    <2>4. new \in SUBSET Loop!Callbacks
      BY <2>1, <2>3
    <2>5. loop_registered' \in [Threads -> [FrameModules -> SUBSET Loop!Callbacks]]
      <3> HIDE DEF new
      <3>1. loop_registered[t] \in [FrameModules -> SUBSET Loop!Callbacks]
        BY <1>1 DEF FrameModuleType
      <3>2. [loop_registered[t] EXCEPT ![m] = new] \in [FrameModules -> SUBSET Loop!Callbacks]
        BY <2>4, <3>1
      <3> QED
        BY <1>1, <2>2, <3>2 DEF FrameModuleType
    <2> QED
      BY <1>1, <2>2, <2>5 DEF FrameModuleType
  <1> QED
    BY <1>2, <1>3, <1>4
       DEF RaisingStep, Loop!Throw, Loop!Catch, Loop!Uncaught, Loop!AnyNativeCall,
           Loop!NativeCall, Loop!RequestExit

\* A native call without what it does to its module.
CalledNative(t) ==
    /\ Loop!Code(t)
    /\ IF Loop!Signal(t) # None
          THEN Loop!Raise(t, Loop!Signal(t)) /\ loop_deferred' = loop_deferred
          ELSE Loop!NativeReturns(t)
    /\ UNCHANGED <<loop_holder, loop_runs, loop_interrupted, loop_exiting>>

LEMMA RaisingCases ==
    ASSUME NEW t \in Threads, RaisingStep(t)
    PROVE  \/ Loop!Throw(t) \/ Loop!Catch(t) \/ Loop!Uncaught(t)
           \/ CalledNative(t) \/ Loop!RequestExit(t)
  <1>1. CASE Loop!AnyNativeCall(t)
    BY <1>1 DEF Loop!AnyNativeCall, Loop!NativeCall, CalledNative
  <1>2. ASSUME NEW m \in FrameModules, Loop!init(t, m) PROVE CalledNative(t)
    BY <1>2 DEF Loop!init, Loop!NativeCall, CalledNative
  <1>3. ASSUME NEW m \in FrameModules, Loop!stop(t, m) PROVE CalledNative(t)
    BY <1>3 DEF Loop!stop, Loop!NativeCall, CalledNative
  <1>4. ASSUME NEW m \in FrameModules, NEW c \in Loop!Registrable(m), NEW named \in BOOLEAN,
               Loop!set_callback(t, m, c, named)
        PROVE  CalledNative(t)
    BY <1>4 DEF Loop!set_callback, Loop!NativeCall, CalledNative
  <1> QED
    BY <1>1, <1>2, <1>3, <1>4 DEF RaisingStep

\* What such a step does to the thread, the error and the run.
RaisesAnError(t, error) ==
    /\ loop_holder = t /\ loop_pc[t] \in {"code", "raising"}
    /\ loop_raised' = [loop_raised EXCEPT ![t] = error]
    /\ loop_pc' \in [Threads -> PcStates] /\ loop_pc'[t] # "native"
    /\ \A u \in Threads \ {t} : loop_pc'[u] = loop_pc[u]
    /\ error = INTERRUPT => loop_interrupted
    /\ loop_deferred' \in {loop_deferred, None}
    /\ loop_holder' \in {loop_holder, None} /\ loop_exiting' \in {loop_exiting, t}
    /\ UNCHANGED <<loop_runs, loop_interrupted>>

LEMMA RaisingStepRaises ==
    ASSUME Loop!FrameAssumption, LoopInv, NEW t \in Threads, RaisingStep(t)
    PROVE  \E error \in AnyError : RaisesAnError(t, error)
  <1>1. loop_pc \in [Threads -> PcStates] /\ None \in AnyError
    BY DEF LoopInv, Loop!TypeOK, PcStates, AnyError
  <1>2. CASE Loop!Throw(t)
    <2>1. ASSUME NEW error \in AnyError, Loop!Raise(t, error), error = INTERRUPT => loop_interrupted
          PROVE  RaisesAnError(t, error)
      BY <1>1, <1>2, <2>1 DEF Loop!Throw, Loop!Code, Loop!Raise, RaisesAnError, PcStates
    <2>2. loop_pc[t] = "code"
      BY <1>2 DEF Loop!Throw, Loop!Code
    <2> DEFINE own == [by |-> t, depth |-> Loop!Depth(t),
                       in |-> IF loop_runs[t] = <<>> THEN "program" ELSE Loop!Top(t).at]
    <2>3. own \in AnyError /\ own # INTERRUPT
      BY <2>2, ProgramError, SpecialErrors DEF AnyError, Loop!Errors
    <2>4. Loop!Raise(t, own) \/ Loop!Raise(t, Loop!Signal(t))
      BY <1>2 DEF Loop!Throw
    <2> HIDE DEF own
    <2> QED
      BY <2>1, <2>3, <2>4, SignalIsError
  <1>3. CASE Loop!Catch(t)
    <2>1. RaisesAnError(t, None)
      BY <1>1, <1>3, SpecialErrors DEF Loop!Catch, Loop!Raise, RaisesAnError, PcStates
    <2> QED
      BY <1>1, <2>1
  <1>4. CASE Loop!Uncaught(t)
    <2>1. RaisesAnError(t, None)
      BY <1>1, <1>4, SpecialErrors DEF Loop!Uncaught, RaisesAnError, PcStates
    <2> QED
      BY <1>1, <2>1
  <1>5. CASE CalledNative(t)
    <2>1. ASSUME NEW error \in AnyError, Loop!Raise(t, error), error = INTERRUPT => loop_interrupted
          PROVE  RaisesAnError(t, error)
      BY <1>1, <1>5, <2>1 DEF CalledNative, Loop!NativeReturns, Loop!Code, Loop!Raise,
                              RaisesAnError, PcStates
    <2>2. Loop!Raise(t, Loop!Signal(t)) \/ Loop!Raise(t, Loop!Thrown(t))
      BY <1>5 DEF CalledNative, Loop!NativeReturns
    <2> QED
      BY <2>1, <2>2, SignalIsError, ThrownIsError
  <1>6. CASE Loop!RequestExit(t)
    <2>1. ASSUME NEW error \in AnyError, Loop!Raise(t, error), error # INTERRUPT
          PROVE  RaisesAnError(t, error)
      BY <1>1, <1>6, <2>1 DEF Loop!RequestExit, Loop!Code, Loop!Raise, RaisesAnError,
                              PcStates
    <2>2. \/ Loop!Raise(t, EXIT) \/ Loop!Raise(t, loop_deferred) \/ Loop!Raise(t, None)
      BY <1>6 DEF Loop!RequestExit
    <2>3. loop_deferred \in AnyError /\ loop_deferred # INTERRUPT
      BY DEF LoopInv, Loop!TypeOK, FailuresAreCarried, AnyError
    <2> QED
      BY <2>1, <2>2, <2>3, SpecialErrors DEF AnyError
  <1> QED
    BY <1>2, <1>3, <1>4, <1>5, <1>6, RaisingCases

LEMMA RaisingStepKeeps ==
    ASSUME Loop!FrameAssumption, LoopInv, NEW t \in Threads, RaisingStep(t) PROVE LoopInv'
  <1>1. PICK error \in AnyError : RaisesAnError(t, error)
    BY RaisingStepRaises
  <1>2. NoRunFailed
    BY <1>1, CodeIsClean DEF RaisesAnError
  <1>3. Loop!TypeOK'
    <2>1. FrameModuleType'
      BY FrameModuleCalls
    <2>2. loop_raised' \in [Threads -> AnyError]
      BY <1>1 DEF RaisesAnError, LoopInv, Loop!TypeOK, AnyError
    <2>3. /\ loop_holder' \in Threads \cup {None} /\ loop_exiting' \in Threads \cup {None}
          /\ loop_runs' \in RunStacks /\ loop_deferred' \in AnyError
          /\ loop_interrupted' \in BOOLEAN
          /\ loop_pc' \in [Threads -> PcStates]
      BY <1>1 DEF RaisesAnError, LoopInv, Loop!TypeOK, AnyError, RunStacks
    <2> QED
      BY <2>1, <2>2, <2>3 DEF Loop!TypeOK, FrameModuleType, AnyError, RunStacks, PcStates
  <1>4. RunsArePlaced'
    <2>1. \A u \in Threads : (loop_pc'[u] = "native") <=> (loop_pc[u] = "native")
      BY <1>1 DEF RaisesAnError
    <2> QED
      BY <1>1, <2>1, RunsStayPlaced DEF LoopInv, RaisesAnError
  <1>5. FailuresAreCarried'
    <2>1. loop_deferred' # INTERRUPT
      BY <1>1, SpecialErrors DEF RaisesAnError, LoopInv, FailuresAreCarried
    <2>2. \A u \in Threads : loop_raised'[u] = INTERRUPT => loop_interrupted'
      BY <1>1 DEF RaisesAnError, LoopInv, FailuresAreCarried, Loop!TypeOK
    <2> QED
      BY <1>1, <1>2, <2>1, <2>2, FailuresStayCarried DEF RaisesAnError
  <1> QED
    BY <1>3, <1>4, <1>5 DEF LoopInv

-----------------------------------------------------------------------------
(* Steps of runs.                                                          *)

LEMMA InvokeKeeps ==
    ASSUME Loop!FrameAssumption, LoopInv, NEW t \in Threads, Loop!invoke_callback(t)
    PROVE  LoopInv'
  <1>0. loop_runs \in RunStacks /\ loop_runs[t] # <<>>
    BY DEF LoopInv, Loop!TypeOK, RunStacks, RunsArePlaced, Loop!invoke_callback, Loop!InRun
  <1>1. Loop!Top(t).at # "stop"
    <2>1. Loop!Top(t) \in Loop!Run
      BY <1>0, TopRun
    <2>2. Loop!Top(t).at \in Loop!Callbacks
      BY <2>1 DEF Loop!invoke_callback, Loop!Run
    <2> QED
      BY <2>2 DEF Loop!Callbacks
  <1>2. NoRunFailed
    BY <1>0, <1>1, LoopIsClean DEF Loop!invoke_callback
  <1>3. Loop!TypeOK'
    BY DEF LoopInv, Loop!TypeOK, Loop!invoke_callback
  <1>4. RunsArePlaced'
    <2>1. Loop!Top(t).at \in Loop!Callbacks
      <3>1. Loop!Top(t) \in Loop!Run
        BY <1>0, TopRun
      <3> QED
        BY <3>1 DEF Loop!invoke_callback, Loop!Run
    <2>2. loop_runs[t][Loop!Depth(t)].at \in Loop!Callbacks
      BY <2>1 DEF Loop!Top
    <2>3. loop_pc' = [loop_pc EXCEPT ![t] = "code"]
          /\ loop_runs' = loop_runs /\ loop_pc \in [Threads -> PcStates]
      BY DEF Loop!invoke_callback, LoopInv, Loop!TypeOK, PcStates
    <2>4. \A i \in DOMAIN loop_runs[t] : i < Loop!Depth(t) \/ i = Loop!Depth(t)
      BY <1>0 DEF RunStacks, Loop!Depth
    <2> QED
      BY <2>2, <2>3, <2>4 DEF LoopInv, RunsArePlaced, Loop!Depth
  <1>5. FailuresAreCarried'
    BY <1>2, FailuresStayCarried DEF Loop!invoke_callback, LoopInv, FailuresAreCarried
  <1> QED
    BY <1>3, <1>4, <1>5 DEF LoopInv

\* The top run of the thread changes, and it does not leave a failure that is
\* not being carried.
ChangesTop(t, r) ==
    /\ loop_runs' = Loop!SetTop(t, r)
    /\ r.at # "stop" => r.frame < HEADLESS_FRAMES
    /\ loop_pc' = [loop_pc EXCEPT ![t] = "native"]
    /\ r.failure # None => r.at = "stop" /\ Waits(t, r.failure)'
    /\ loop_deferred' # INTERRUPT

          /\ \A u \in Threads : loop_raised'[u] = INTERRUPT => loop_interrupted'

LEMMA ChangedTopKeeps ==
    ASSUME Loop!FrameAssumption, LoopInv, NoRunFailed, NEW t \in Threads, loop_runs[t] # <<>>,
           NEW r \in Loop!Run, ChangesTop(t, r)
    PROVE  loop_runs' \in RunStacks /\ RunsArePlaced' /\ FailuresAreCarried'
  <1>1. loop_runs \in RunStacks /\ loop_pc \in [Threads -> PcStates]
    BY DEF LoopInv, Loop!TypeOK, RunStacks, PcStates
  <1>2. /\ loop_runs' \in RunStacks
        /\ \A u \in Threads : DOMAIN loop_runs'[u] = DOMAIN loop_runs[u]
              /\ Len(loop_runs'[u]) = Len(loop_runs[u])
        /\ \A u \in Threads \ {t} : loop_runs'[u] = loop_runs[u]
        /\ \A i \in DOMAIN loop_runs[t] :
              loop_runs'[t][i] = IF i = Loop!Depth(t) THEN r ELSE loop_runs[t][i]
    BY <1>1, ChangedTopRun DEF ChangesTop
  <1>3. \A i \in DOMAIN loop_runs[t] : i < Loop!Depth(t) \/ i = Loop!Depth(t)
    BY <1>1 DEF RunStacks, Loop!Depth
  <1>4. RunsArePlaced'
    <2>1. ASSUME NEW u \in Threads, loop_pc'[u] = "native" PROVE loop_runs'[u] # <<>>
      <3>1. loop_runs[u] # <<>> /\ loop_runs[u] \in Seq(Loop!Run) /\ loop_runs'[u] \in Seq(Loop!Run)
        BY <1>1, <1>2, <2>1 DEF ChangesTop, LoopInv, RunsArePlaced, RunStacks
      <3>2. Len(loop_runs'[u]) # 0
        BY <1>2, <3>1
      <3> QED
        BY <3>2
    <2>2. ASSUME NEW u \in Threads \ {t}, NEW i \in DOMAIN loop_runs'[u]
          PROVE  /\ loop_runs'[u][i].at # "stop" => loop_runs'[u][i].frame < HEADLESS_FRAMES
                 /\ i < Loop!Depth(u)' \/ loop_pc'[u] # "native"
                       => loop_runs'[u][i].at \in Loop!Callbacks
      BY <1>1, <1>2, <2>2 DEF ChangesTop, LoopInv, RunsArePlaced, Loop!Depth
    <2>3. ASSUME NEW i \in DOMAIN loop_runs'[t]
          PROVE  /\ loop_runs'[t][i].at # "stop" => loop_runs'[t][i].frame < HEADLESS_FRAMES
                 /\ i < Loop!Depth(t)' \/ loop_pc'[t] # "native"
                       => loop_runs'[t][i].at \in Loop!Callbacks
      BY <1>1, <1>2, <1>3, <2>3 DEF ChangesTop, LoopInv, RunsArePlaced, Loop!Depth
    <2> QED
      BY <2>1, <2>2, <2>3 DEF RunsArePlaced
  <1>5. FailuresAreCarried'
    <2>1. ASSUME NEW u \in Threads \ {t}, NEW i \in DOMAIN loop_runs'[u]
          PROVE  loop_runs'[u][i].failure = None
      BY <1>2, <2>1 DEF NoRunFailed
    <2>2. ASSUME NEW i \in DOMAIN loop_runs'[t], loop_runs'[t][i].failure # None
          PROVE  i = Loop!Depth(t)' /\ loop_runs'[t][i] = r
      BY <1>2, <1>3, <2>2 DEF NoRunFailed, Loop!Depth
    <2> QED
      BY <2>1, <2>2 DEF FailuresAreCarried, ChangesTop
  <1> QED
    BY <1>2, <1>4, <1>5

\* What the module remembers between two steps, except for the runs.
LoopOtherType ==
    /\ loop_holder \in Threads \cup {None} /\ loop_pc \in [Threads -> PcStates]
    /\ loop_raised \in [Threads -> AnyError] /\ loop_deferred \in AnyError
    /\ loop_interrupted \in BOOLEAN /\ loop_exiting \in Threads \cup {None}
    /\ FrameModuleType

LEMMA LoopTypeParts == Loop!TypeOK <=> loop_runs \in RunStacks /\ LoopOtherType
  BY DEF Loop!TypeOK, RunStacks, LoopOtherType, FrameModuleType, AnyError, PcStates

\* The innermost run, when its thread is inside it.
LEMMA InsideRun ==
    ASSUME Loop!FrameAssumption, LoopInv, NEW t \in Threads, Loop!InRun(t)
    PROVE  loop_runs[t] # <<>> /\ Loop!Top(t) \in Loop!Run /\ loop_holder = t /\ loop_pc[t] = "native"
           /\ (Loop!Top(t).at # "stop" => NoRunFailed /\ Loop!Top(t).failure = None
                                     /\ Loop!Top(t).frame < HEADLESS_FRAMES)
  <1>1. loop_runs \in RunStacks /\ loop_runs[t] # <<>>
    BY DEF LoopInv, Loop!TypeOK, RunStacks, RunsArePlaced, Loop!InRun
  <1>2. Loop!Depth(t) \in DOMAIN loop_runs[t] /\ Loop!Top(t) \in Loop!Run
    BY <1>1, TopRun
  <1>3. ASSUME Loop!Top(t).at # "stop"
        PROVE  NoRunFailed /\ Loop!Top(t).failure = None /\ Loop!Top(t).frame < HEADLESS_FRAMES
    <2>1. NoRunFailed
      BY <1>1, <1>3, LoopIsClean
    <2> QED
      BY <1>2, <1>3, <2>1 DEF NoRunFailed, LoopInv, RunsArePlaced, Loop!Top
  <1> QED
    BY <1>1, <1>2, <1>3 DEF Loop!InRun

LEMMA SkippedCallbackKeeps ==
    ASSUME Loop!FrameAssumption, LoopInv, NEW t \in Threads, Loop!Skip(t) PROVE LoopInv'
  <1>1. /\ loop_runs[t] # <<>> /\ Loop!Top(t) \in Loop!Run /\ loop_holder = t
        /\ loop_pc[t] = "native"
        /\ Loop!Top(t).at \in {"begin"} \cup Loop!Callbacks
    BY InsideRun DEF Loop!Skip
  <1>2. NoRunFailed /\ Loop!Top(t).failure = None /\ Loop!Top(t).frame < HEADLESS_FRAMES
    BY <1>1, InsideRun DEF Loop!Skip, Loop!Callbacks
  <1>3. Loop!After(Loop!Top(t).at, TRUE) \in {"start", "update", "draw", "check"}
    BY <1>1 DEF Loop!After, Loop!Callbacks
  <1>4. PICK r : r = [Loop!Top(t) EXCEPT !.at = Loop!After(@, TRUE)]
    OBVIOUS
  <1>5. r \in Loop!Run /\ r.failure = None /\ r.frame < HEADLESS_FRAMES
    BY <1>1, <1>2, <1>3, <1>4 DEF Loop!Run, Loop!Callbacks
  <1>6. LoopOtherType /\ UNCHANGED <<loop_holder, loop_pc, loop_raised, loop_deferred,
                                     loop_interrupted, loop_exiting, Loop!module>>
    BY LoopTypeParts DEF LoopInv, Loop!Skip
  <1>7. loop_pc' = [loop_pc EXCEPT ![t] = "native"]
    BY <1>1, <1>6 DEF LoopOtherType
  <1>8. ChangesTop(t, r)
    <2>1. loop_runs' = Loop!SetTop(t, r)
      BY <1>4 DEF Loop!Skip
    <2>2. loop_deferred' # INTERRUPT
          /\ \A u \in Threads : loop_raised'[u] = INTERRUPT => loop_interrupted'
      BY <1>6 DEF LoopInv, FailuresAreCarried
    <2> QED
      BY <1>5, <1>7, <2>1, <2>2 DEF ChangesTop
  <1>9. loop_runs' \in RunStacks /\ RunsArePlaced' /\ FailuresAreCarried'
    BY <1>1, <1>2, <1>5, <1>8, ChangedTopKeeps
  <1>10. LoopOtherType'
    BY <1>6 DEF LoopOtherType, FrameModuleType, Loop!module
  <1> QED
    BY <1>9, <1>10, LoopTypeParts DEF LoopInv, Loop!TypeOK, LoopOtherType, FrameModuleType,
                                      RunStacks, AnyError, PcStates

LEMMA EndFrameKeeps ==
    ASSUME Loop!FrameAssumption, LoopInv, NEW t \in Threads, Loop!EndFrame(t) PROVE LoopInv'
  <1>1. /\ loop_runs[t] # <<>> /\ Loop!Top(t) \in Loop!Run /\ loop_holder = t
        /\ loop_pc[t] = "native"
        /\ NoRunFailed /\ Loop!Top(t).failure = None /\ Loop!Top(t).frame < HEADLESS_FRAMES
    BY InsideRun DEF Loop!EndFrame
  <1>2. HEADLESS_FRAMES \in Nat \ {0}
    BY DEF Loop!FrameAssumption
  <1>3. PICK frames \in 0 .. HEADLESS_FRAMES, at \in {"stop", "update"} :
            /\ at = "update" => frames < HEADLESS_FRAMES
            /\ loop_runs' = Loop!SetTop(t, [Loop!Top(t) EXCEPT !.at = at, !.frame = frames])
    <2> DEFINE frames == IF loop_headless[Loop!Top(t).module] THEN Loop!Top(t).frame + 1 ELSE 0
               ends == loop_interrupted \/ Loop!Top(t).module \in loop_quit_requested[t]
                       \/ frames = HEADLESS_FRAMES
               at == IF ends THEN "stop" ELSE "update"
    <2>1. frames \in 0 .. HEADLESS_FRAMES
      BY <1>1, <1>2 DEF Loop!Run
    <2>2. at \in {"stop", "update"} /\ (at = "update" => frames # HEADLESS_FRAMES)
      OBVIOUS
    <2>3. loop_runs' = Loop!SetTop(t, [Loop!Top(t) EXCEPT !.at = at, !.frame = frames])
      BY DEF Loop!EndFrame
    <2>4. at = "update" => frames < HEADLESS_FRAMES
      <3>1. at = "update" => frames # HEADLESS_FRAMES
        BY <2>2
      <3> HIDE DEF frames, at
      <3> QED
        BY <1>2, <2>1, <3>1
    <2> HIDE DEF frames, at
    <2> QED
      BY <2>1, <2>2, <2>3, <2>4
  <1>4. PICK r : r = [Loop!Top(t) EXCEPT !.at = at, !.frame = frames]
    OBVIOUS
  <1>5. r \in Loop!Run /\ r.failure = None /\ r.at = at /\ r.frame = frames
    <2>1. at \in Loop!Callbacks \cup {"begin", "check", "stop"}
      BY <1>3 DEF Loop!Callbacks
    <2>2. frames \in 0 .. HEADLESS_FRAMES
      BY <1>3
    <2> QED
      BY <1>1, <1>4, <2>1, <2>2 DEF Loop!Run
  <1>6. LoopOtherType /\ UNCHANGED <<loop_holder, loop_pc, loop_raised, loop_deferred,
                                     loop_interrupted, loop_exiting, Loop!module>>
    BY LoopTypeParts DEF LoopInv, Loop!EndFrame
  <1>7. loop_pc' = [loop_pc EXCEPT ![t] = "native"]
    BY <1>1, <1>6 DEF LoopOtherType
  <1>8. ChangesTop(t, r)
    BY <1>3, <1>4, <1>5, <1>6, <1>7 DEF ChangesTop, LoopInv, FailuresAreCarried
  <1>9. loop_runs' \in RunStacks /\ RunsArePlaced' /\ FailuresAreCarried'
    BY <1>1, <1>5, <1>8, ChangedTopKeeps
  <1>10. LoopOtherType'
    BY <1>6 DEF LoopOtherType, FrameModuleType, Loop!module
  <1> QED
    BY <1>9, <1>10, LoopTypeParts DEF LoopInv, Loop!TypeOK, LoopOtherType, FrameModuleType,
                                      RunStacks, AnyError, PcStates

LEMMA CallbackEndsType ==
    ASSUME LoopOtherType, NEW t \in Threads, NEW ok, NEW failure, Loop!CallbackEnds(t, ok, failure),
           loop_raised' \in [Threads -> AnyError], loop_deferred' \in AnyError
    PROVE  LoopOtherType' /\ loop_holder' = loop_holder /\ loop_interrupted' = loop_interrupted
           /\ loop_pc' = [loop_pc EXCEPT ![t] = "native"]
  BY DEF LoopOtherType, FrameModuleType, Loop!CallbackEnds, PcStates

\* A thread in its program is in a callback of its innermost run.
LEMMA InsideCallback ==
    ASSUME Loop!FrameAssumption, LoopInv, NEW t \in Threads, loop_runs[t] # <<>>, loop_holder = t,
           loop_pc[t] # "native"
    PROVE  /\ NoRunFailed /\ Loop!Top(t) \in Loop!Run /\ Loop!Top(t).at \in Loop!Callbacks
           /\ Loop!Top(t).failure = None /\ Loop!Top(t).frame < HEADLESS_FRAMES
  <1>1. Loop!Depth(t) \in DOMAIN loop_runs[t] /\ Loop!Top(t) \in Loop!Run
    BY TopRun DEF LoopInv, Loop!TypeOK, RunStacks
  <1>2. NoRunFailed
    BY CodeIsClean
  <1>3. Loop!Top(t).at \in Loop!Callbacks
    BY <1>1 DEF LoopInv, RunsArePlaced, Loop!Top
  <1> QED
    BY <1>1, <1>2, <1>3 DEF NoRunFailed, LoopInv, RunsArePlaced, Loop!Top, Loop!Callbacks

LEMMA ReturnKeeps ==
    ASSUME Loop!FrameAssumption, LoopInv, NEW t \in Threads, Loop!CallbackReturns(t) PROVE LoopInv'
  <1>1. /\ NoRunFailed /\ Loop!Top(t) \in Loop!Run /\ Loop!Top(t).at \in Loop!Callbacks
        /\ loop_runs[t] # <<>>
        /\ Loop!Top(t).failure = None /\ Loop!Top(t).frame < HEADLESS_FRAMES
    BY InsideCallback DEF Loop!CallbackReturns, Loop!Code
  <1>2. Loop!After(Loop!Top(t).at, TRUE) \in {"update", "draw", "check"}
    BY <1>1 DEF Loop!After, Loop!Callbacks
  <1>3. PICK r : r = [Loop!Top(t) EXCEPT !.at = Loop!After(@, TRUE),
                                      !.failure = Loop!Top(t).failure]
    OBVIOUS
  <1>4. r \in Loop!Run /\ r.failure = None /\ r.frame < HEADLESS_FRAMES
    BY <1>1, <1>2, <1>3 DEF Loop!Run, Loop!Callbacks
  <1>5. LoopOtherType /\ loop_raised' = loop_raised /\ loop_deferred' = loop_deferred
    BY LoopTypeParts DEF LoopInv, Loop!CallbackReturns
  <1>6. LoopOtherType' /\ loop_holder' = loop_holder /\ loop_interrupted' = loop_interrupted
        /\ loop_pc' = [loop_pc EXCEPT ![t] = "native"]
    BY <1>5, CallbackEndsType DEF Loop!CallbackReturns, LoopOtherType
  <1>7. ChangesTop(t, r)
    <2>1. loop_runs' = Loop!SetTop(t, r)
      BY <1>3 DEF Loop!CallbackReturns, Loop!CallbackEnds
    <2>2. loop_deferred' # INTERRUPT
          /\ \A u \in Threads : loop_raised'[u] = INTERRUPT => loop_interrupted'
      BY <1>5, <1>6 DEF LoopInv, FailuresAreCarried
    <2> QED
      BY <1>4, <1>6, <2>1, <2>2 DEF ChangesTop
  <1>8. loop_runs' \in RunStacks /\ RunsArePlaced' /\ FailuresAreCarried'
    BY <1>1, <1>4, <1>7, ChangedTopKeeps
  <1> QED
    BY <1>6, <1>8 DEF LoopInv, Loop!TypeOK, LoopOtherType, FrameModuleType, RunStacks,
                      AnyError, PcStates

LEMMA FailureKeeps ==
    ASSUME Loop!FrameAssumption, LoopInv, NEW t \in Threads, Loop!CallbackFails(t) PROVE LoopInv'
  <1>1. /\ NoRunFailed /\ Loop!Top(t) \in Loop!Run /\ Loop!Top(t).at \in Loop!Callbacks
        /\ loop_runs[t] # <<>>
        /\ Loop!Top(t).failure = None /\ Loop!Top(t).frame < HEADLESS_FRAMES
        /\ loop_holder = t
    BY InsideCallback DEF Loop!CallbackFails
  <1>2. loop_raised[t] \in AnyError /\ (loop_raised[t] = INTERRUPT => loop_interrupted)
    BY DEF LoopInv, Loop!TypeOK, FailuresAreCarried, AnyError
  <1>3. PICK failure \in AnyError :
            /\ failure = IF Loop!Top(t).at = "start" THEN Loop!Top(t).failure ELSE loop_raised[t]
            /\ Loop!CallbackEnds(t, FALSE, failure)
    BY <1>1, <1>2 DEF Loop!CallbackFails, AnyError
  <1>4. PICK r : r = [Loop!Top(t) EXCEPT !.at = Loop!After(@, FALSE), !.failure = failure]
    OBVIOUS
  <1>5. /\ Loop!After(Loop!Top(t).at, FALSE) \in {"update", "stop"}
        /\ Loop!Top(t).at # "start" => Loop!After(Loop!Top(t).at, FALSE) = "stop"
    BY <1>1 DEF Loop!After, Loop!Callbacks
  <1>6. /\ r \in Loop!Run /\ r.frame < HEADLESS_FRAMES /\ r.failure = failure
        /\ failure # None => r.at = "stop" /\ failure = loop_raised[t]
    BY <1>1, <1>3, <1>4, <1>5 DEF Loop!Run, AnyError, Loop!Callbacks
  <1>7. loop_deferred' \in AnyError /\ loop_deferred' # INTERRUPT
        /\ (loop_raised[t] # INTERRUPT => loop_deferred' = loop_raised[t])
    BY <1>2 DEF Loop!CallbackFails, LoopInv, Loop!TypeOK, FailuresAreCarried, AnyError
  <1>8. loop_raised' = [loop_raised EXCEPT ![t] = None] /\ loop_raised \in [Threads -> AnyError]
    BY DEF Loop!CallbackFails, LoopInv, Loop!TypeOK, AnyError
  <1>9. LoopOtherType' /\ loop_holder' = loop_holder /\ loop_interrupted' = loop_interrupted
        /\ loop_pc' = [loop_pc EXCEPT ![t] = "native"]
    <2>1. loop_raised' \in [Threads -> AnyError]
      BY <1>8 DEF AnyError
    <2>2. LoopOtherType
      BY LoopTypeParts DEF LoopInv
    <2> QED
      BY <1>3, <1>7, <2>1, <2>2, CallbackEndsType
  <1>10. ChangesTop(t, r)
    <2>1. loop_runs' = Loop!SetTop(t, r)
      BY <1>3, <1>4 DEF Loop!CallbackEnds
    <2>2. \A u \in Threads : loop_raised'[u] = INTERRUPT => loop_interrupted'
      BY <1>8, <1>9, SpecialErrors DEF LoopInv, FailuresAreCarried
    <2>3. loop_pc'[t] = "native"
      BY <1>9 DEF LoopInv, Loop!TypeOK
    <2>4. r.failure # None => Waits(t, r.failure)'
      BY <1>1, <1>2, <1>6, <1>7, <1>9, <2>3 DEF Waits
    <2> QED
      BY <1>6, <1>7, <1>9, <2>1, <2>2, <2>4 DEF ChangesTop
  <1>11. loop_runs' \in RunStacks /\ RunsArePlaced' /\ FailuresAreCarried'
    BY <1>1, <1>6, <1>10, ChangedTopKeeps
  <1> QED
    BY <1>9, <1>11 DEF LoopInv, Loop!TypeOK, LoopOtherType, FrameModuleType, RunStacks,
                       AnyError, PcStates

LEMMA RunKeeps ==
    ASSUME Loop!FrameAssumption, LoopInv, NEW t \in Threads, NEW m \in FrameModules, Loop!run(t, m)
    PROVE  LoopInv'
  <1>1. /\ loop_holder = t /\ loop_pc[t] = "code" /\ NoRunFailed /\ LoopOtherType
        /\ loop_runs \in RunStacks
        /\ UNCHANGED <<loop_holder, loop_deferred, loop_interrupted, loop_exiting,
                       loop_headless, loop_registered, loop_quit_requested, loop_callback_active>>
    BY CodeIsClean, LoopTypeParts DEF Loop!run, Loop!Code, LoopInv
  <1>2. CASE Loop!Signal(t) # None
    <2>1. Loop!Raise(t, Loop!Signal(t)) /\ loop_runs' = loop_runs /\ loop_running' = loop_running
      BY <1>2 DEF Loop!run
    <2>2. /\ loop_raised' \in [Threads -> AnyError] /\ loop_pc' \in [Threads -> PcStates]
          /\ loop_pc'[t] \in {"code", "raising"}
          /\ \A u \in Threads \ {t} : loop_pc'[u] = loop_pc[u] /\ loop_raised'[u] = loop_raised[u]
          /\ loop_raised'[t] = Loop!Signal(t)
      BY <1>1, <2>1, SignalIsError, RaisedError
    <2>3. LoopOtherType'
      BY <1>1, <2>1, <2>2 DEF LoopOtherType, FrameModuleType
    <2>4. RunsArePlaced'
      <3>1. \A u \in Threads : (loop_pc'[u] = "native") <=> (loop_pc[u] = "native")
        BY <1>1, <2>2
      <3> QED
        BY <2>1, <3>1, RunsStayPlaced DEF LoopInv
    <2>5. FailuresAreCarried'
      <3>1. loop_deferred' # INTERRUPT
        BY <1>1 DEF LoopInv, FailuresAreCarried
      <3>2. \A u \in Threads : loop_raised'[u] = INTERRUPT => loop_interrupted'
        BY <1>1, <2>2, SignalIsError DEF LoopInv, FailuresAreCarried
      <3> QED
        BY <1>1, <2>1, <3>1, <3>2, FailuresStayCarried
    <2> QED
      BY <1>1, <2>1, <2>3, <2>4, <2>5
         DEF LoopInv, Loop!TypeOK, LoopOtherType, FrameModuleType, RunStacks, AnyError,
             PcStates
  <1>3. CASE Loop!Signal(t) = None
    <2>1. PICK r : r = [module |-> m, calls |-> loop_registered[t][m], frame |-> 0,
                        at |-> "begin", failure |-> None]
      OBVIOUS
    <2>2. r \in Loop!Run
      BY <1>1, <2>1 DEF Loop!Run, LoopOtherType, FrameModuleType, Loop!FrameAssumption
    <2>3. /\ loop_runs' = [loop_runs EXCEPT ![t] = Append(@, r)]
          /\ loop_running' = [loop_running EXCEPT ![t] = @ \cup {m}]
          /\ loop_pc' = [loop_pc EXCEPT ![t] = "native"] /\ loop_raised' = loop_raised
      BY <1>3, <2>1 DEF Loop!run
    <2>4. LoopOtherType'
      BY <1>1, <2>3 DEF LoopOtherType, FrameModuleType, PcStates
    <2>5. /\ loop_runs' \in RunStacks
          /\ Len(loop_runs'[t]) = Loop!Depth(t) + 1
          /\ DOMAIN loop_runs'[t] = DOMAIN loop_runs[t] \cup {Loop!Depth(t) + 1}
          /\ \A i \in DOMAIN loop_runs[t] : loop_runs'[t][i] = loop_runs[t][i]
          /\ loop_runs'[t][Loop!Depth(t) + 1] = r
          /\ \A u \in Threads \ {t} : loop_runs'[u] = loop_runs[u]
      BY <1>1, <2>2, <2>3, PushedRun DEF RunStacks
    <2>6. Loop!Depth(t) \in Nat /\ DOMAIN loop_runs[t] = 1 .. Loop!Depth(t)
      BY <1>1 DEF RunStacks, Loop!Depth
    <2>7. RunsArePlaced'
      <3>1. \A u \in Threads \ {t} : loop_pc'[u] = loop_pc[u]
        BY <1>1, <2>3 DEF LoopOtherType
      <3>2. ASSUME NEW u \in Threads \ {t}
            PROVE  /\ loop_pc'[u] = "native" => loop_runs'[u] # <<>>
                   /\ \A i \in DOMAIN loop_runs'[u] :
                        /\ loop_runs'[u][i].at # "stop"
                              => loop_runs'[u][i].frame < HEADLESS_FRAMES
                        /\ i < Loop!Depth(u)' \/ loop_pc'[u] # "native"
                              => loop_runs'[u][i].at \in Loop!Callbacks
        BY <2>5, <3>1 DEF LoopInv, RunsArePlaced, Loop!Depth
      <3>3. loop_runs'[t] # <<>>
        BY <2>5, <2>6
      <3>4. ASSUME NEW i \in DOMAIN loop_runs'[t]
            PROVE  /\ loop_runs'[t][i].at # "stop"
                         => loop_runs'[t][i].frame < HEADLESS_FRAMES
                   /\ i < Loop!Depth(t)' \/ loop_pc'[t] # "native"
                         => loop_runs'[t][i].at \in Loop!Callbacks
        <4>1. CASE i \in DOMAIN loop_runs[t]
          <5>1. loop_runs'[t][i] = loop_runs[t][i]
            BY <2>5, <4>1
          <5>2. loop_pc[t] # "native"
            BY <1>1
          <5> QED
            BY <4>1, <5>1, <5>2 DEF LoopInv, RunsArePlaced
        <4>2. CASE i = Loop!Depth(t) + 1
          <5>1. loop_runs'[t][i] = r /\ r.frame = 0 /\ Loop!Depth(t)' = Loop!Depth(t) + 1
            BY <2>1, <2>5, <4>2 DEF Loop!Depth
          <5>2. loop_pc'[t] = "native"
            BY <1>1, <2>3 DEF LoopOtherType
          <5>3. 0 < HEADLESS_FRAMES
            BY DEF Loop!FrameAssumption
          <5> QED
            BY <2>6, <4>2, <5>1, <5>2, <5>3
        <4> QED
          BY <2>5, <4>1, <4>2
      <3> QED
        BY <3>2, <3>3, <3>4 DEF RunsArePlaced
    <2>8. FailuresAreCarried'
      <3>1. \A u \in Threads : \A i \in DOMAIN loop_runs'[u] : loop_runs'[u][i].failure = None
        BY <1>1, <2>1, <2>5 DEF NoRunFailed
      <3>2. loop_deferred' # INTERRUPT
          /\ \A u \in Threads : loop_raised'[u] = INTERRUPT => loop_interrupted'
        BY <1>1, <2>3 DEF LoopInv, FailuresAreCarried
      <3> QED
        BY <3>1, <3>2 DEF FailuresAreCarried
    <2> QED
      BY <2>4, <2>5, <2>7, <2>8
         DEF LoopInv, Loop!TypeOK, LoopOtherType, FrameModuleType, RunStacks, AnyError,
             PcStates
  <1> QED
    BY <1>2, <1>3

LEMMA RunReturnsKeeps ==
    ASSUME Loop!FrameAssumption, LoopInv, NEW t \in Threads, Loop!run_returns(t) PROVE LoopInv'
  <1>1. /\ loop_runs[t] # <<>> /\ Loop!Top(t) \in Loop!Run /\ loop_holder = t
        /\ loop_pc[t] = "native"
        /\ LoopOtherType /\ loop_runs \in RunStacks
    BY InsideRun, LoopTypeParts DEF Loop!run_returns, LoopInv
  <1>2. /\ loop_raised' \in [Threads -> AnyError] /\ loop_pc' \in [Threads -> PcStates]
        /\ loop_pc'[t] \in {"code", "raising"}
        /\ \A u \in Threads \ {t} : loop_pc'[u] = loop_pc[u] /\ loop_raised'[u] = loop_raised[u]
        /\ loop_raised'[t] = Loop!Thrown(t)
    BY ThrownIsError, RaisedError DEF Loop!run_returns, Loop!NativeReturns
  <1>3. loop_deferred' \in {loop_deferred, None} /\ loop_interrupted' = loop_interrupted
    BY DEF Loop!run_returns, Loop!NativeReturns
  <1>4. LoopOtherType'
    <2>1. loop_running' \in [Threads -> SUBSET FrameModules]
      BY <1>1 DEF Loop!run_returns, LoopOtherType, FrameModuleType
    <2>2. UNCHANGED <<loop_holder, loop_exiting, loop_headless, loop_registered,
                      loop_quit_requested, loop_callback_active>>
      BY DEF Loop!run_returns
    <2> QED
      BY <1>1, <1>2, <1>3, <2>1, <2>2 DEF LoopOtherType, FrameModuleType, AnyError
  <1>5. /\ loop_runs' \in RunStacks /\ loop_runs'[t] = Loop!Pop(t)
        /\ Len(Loop!Pop(t)) = Loop!Depth(t) - 1
        /\ DOMAIN Loop!Pop(t) = {i \in DOMAIN loop_runs[t] : i < Loop!Depth(t)}
        /\ \A i \in DOMAIN Loop!Pop(t) : Loop!Pop(t)[i] = loop_runs[t][i]
        /\ \A u \in Threads \ {t} : loop_runs'[u] = loop_runs[u]
    BY <1>1, PoppedRun DEF Loop!run_returns, RunStacks
  <1>6. RunsArePlaced'
    <2>1. ASSUME NEW u \in Threads \ {t}
          PROVE  /\ loop_pc'[u] = "native" => loop_runs'[u] # <<>>
                 /\ \A i \in DOMAIN loop_runs'[u] :
                      /\ loop_runs'[u][i].at # "stop"
                            => loop_runs'[u][i].frame < HEADLESS_FRAMES
                      /\ i < Loop!Depth(u)' \/ loop_pc'[u] # "native"
                            => loop_runs'[u][i].at \in Loop!Callbacks
      BY <1>2, <1>5 DEF LoopInv, RunsArePlaced, Loop!Depth
    <2>2. ASSUME NEW i \in DOMAIN loop_runs'[t]
          PROVE  /\ loop_runs'[t][i].at # "stop" => loop_runs'[t][i].frame < HEADLESS_FRAMES
                 /\ loop_runs'[t][i].at \in Loop!Callbacks
      BY <1>5, <2>2 DEF LoopInv, RunsArePlaced
    <2>3. loop_pc'[t] # "native"
      BY <1>2
    <2> QED
      BY <2>1, <2>2, <2>3 DEF RunsArePlaced
  <1>7. FailuresAreCarried'
    <2>1. \A u \in Threads \ {t} : \A i \in DOMAIN loop_runs'[u] : loop_runs'[u][i].failure = None
      BY <1>1, <1>5 DEF LoopInv, FailuresAreCarried, Waits
    <2>2. \A i \in DOMAIN loop_runs'[t] : loop_runs'[t][i].failure = None
      <3>1. ASSUME NEW i \in DOMAIN loop_runs'[t] PROVE loop_runs'[t][i].failure = None
        <4>1. i \in DOMAIN loop_runs[t] /\ i < Loop!Depth(t) /\ loop_runs'[t][i] = loop_runs[t][i]
          BY <1>5, <3>1
        <4>2. Loop!Depth(t) \in Nat /\ i \in Nat
          BY <1>1, <4>1 DEF RunStacks, Loop!Depth
        <4>3. i # Loop!Depth(t)
          BY <4>1, <4>2
        <4> QED
          BY <4>1, <4>3 DEF LoopInv, FailuresAreCarried
      <3> QED
        BY <3>1
    <2>3. loop_deferred' # INTERRUPT
      BY <1>3, SpecialErrors DEF LoopInv, FailuresAreCarried
    <2>4. \A u \in Threads : loop_raised'[u] = INTERRUPT => loop_interrupted'
      BY <1>2, <1>3, ThrownIsError DEF LoopInv, FailuresAreCarried
    <2> QED
      BY <2>1, <2>2, <2>3, <2>4 DEF FailuresAreCarried
  <1> QED
    BY <1>4, <1>5, <1>6, <1>7
       DEF LoopInv, Loop!TypeOK, LoopOtherType, FrameModuleType, RunStacks, AnyError,
           PcStates

-----------------------------------------------------------------------------
(* Every step.                                                             *)

RunStep(t) ==
    \/ \E m \in FrameModules : Loop!run(t, m)
    \/ Loop!Skip(t) \/ Loop!invoke_callback(t) \/ Loop!CallbackReturns(t) \/ Loop!CallbackFails(t)
    \/ Loop!EndFrame(t) \/ Loop!run_returns(t)

LEMMA LoopCases ==
    Loop!Next => \/ Loop!Interrupt
                 \/ \E t \in Threads : LoopLockStep(t) \/ RaisingStep(t) \/ RunStep(t)
  BY DEF Loop!Next, LoopLockStep, RaisingStep, RunStep

LEMMA RunStepKeeps ==
    ASSUME Loop!FrameAssumption, LoopInv, NEW t \in Threads, RunStep(t) PROVE LoopInv'
  BY RunKeeps, SkippedCallbackKeeps, InvokeKeeps, ReturnKeeps, FailureKeeps, EndFrameKeeps,
     RunReturnsKeeps DEF RunStep

LEMMA LoopStep == ASSUME Loop!FrameAssumption, LoopInv, [Loop!Next]_loop_vars PROVE LoopInv'
  <1>1. CASE UNCHANGED loop_vars
    <2>1. UNCHANGED <<loop_holder, loop_pc, loop_runs, loop_raised, loop_deferred,
                      loop_interrupted, loop_exiting, Loop!module>>
      BY <1>1 DEF loop_vars, Loop!module
    <2>2. Loop!TypeOK'
      BY <2>1 DEF LoopInv, Loop!TypeOK, Loop!module
    <2>3. RunsArePlaced' /\ FailuresAreCarried'
      BY <2>1 DEF LoopInv, RunsArePlaced, FailuresAreCarried, Waits, Loop!Depth
    <2> QED
      BY <2>2, <2>3 DEF LoopInv
  <1> QED
    BY <1>1, LoopCases, InterruptKeeps, LoopLockStepKeeps, RaisingStepKeeps, RunStepKeeps

-----------------------------------------------------------------------------
(* What a run throws.                                                      *)

\* Only run_returns takes a run that has failed off the stack.
LEMMA FailedRunEnds ==
    ASSUME Loop!FrameAssumption, LoopInv, [Loop!Next]_loop_vars, NEW t \in Threads,
           Loop!Depth(t) > 0, loop_runs'[t] = Loop!Pop(t), Loop!Top(t).failure # None
    PROVE  Loop!run_returns(t) /\ Waits(t, Loop!Top(t).failure)
  <1>1. loop_runs \in RunStacks /\ loop_runs[t] # <<>>
    BY DEF LoopInv, Loop!TypeOK, RunStacks, Loop!Depth
  <1>2. Loop!Depth(t) \in DOMAIN loop_runs[t] /\ Loop!Depth(t) \in Nat
    BY <1>1, TopRun
  <1>3. Loop!Top(t).at = "stop" /\ Waits(t, Loop!Top(t).failure)
    BY <1>2 DEF LoopInv, FailuresAreCarried, Loop!Top
  <1>4. loop_runs'[t] # loop_runs[t]
    <2>1. Len(Loop!Pop(t)) = Loop!Depth(t) - 1
      BY <1>1, PoppedRun
    <2> QED
      BY <1>2, <2>1 DEF Loop!Depth
  <1>5. loop_holder = t /\ loop_pc[t] = "native" /\ loop_holder # None
    BY <1>3 DEF Waits, Loop!FrameAssumption
  <1>6. ~Loop!Interrupt /\ ~UNCHANGED loop_vars
    BY <1>4 DEF Loop!Interrupt, loop_vars, Loop!module
  <1>7. ASSUME NEW u \in Threads PROVE ~LoopLockStep(u)
    BY <1>5 DEF LoopLockStep, Loop!Yield, Loop!Acquire, Loop!Code
  <1>8. ASSUME NEW u \in Threads PROVE ~RaisingStep(u)
    <2>1. ASSUME RaisingStep(u) PROVE loop_runs' = loop_runs
      BY <2>1, RaisingStepRaises DEF RaisesAnError
    <2> QED
      BY <1>4, <2>1
  <1>9. ASSUME NEW u \in Threads, RunStep(u) PROVE u = t /\ Loop!run_returns(t)
    <2>1. loop_holder = u
      BY <1>9 DEF RunStep, Loop!run, Loop!Skip, Loop!invoke_callback, Loop!CallbackReturns,
                  Loop!CallbackFails,
                  Loop!EndFrame, Loop!run_returns, Loop!Code, Loop!InRun
    <2>2. \A m \in FrameModules : ~Loop!run(t, m)
      BY <1>5 DEF Loop!run, Loop!Code
    <2>3. ~Loop!CallbackReturns(t) /\ ~Loop!CallbackFails(t)
      BY <1>5 DEF Loop!CallbackReturns, Loop!CallbackFails, Loop!Code
    <2>4. ~Loop!Skip(t) /\ ~Loop!EndFrame(t)
      BY <1>3 DEF Loop!Skip, Loop!EndFrame, Loop!Callbacks
    <2>5. ~Loop!invoke_callback(t)
      BY <1>4 DEF Loop!invoke_callback
    <2> QED
      BY <1>5, <1>9, <2>1, <2>2, <2>3, <2>4, <2>5 DEF RunStep
  <1> QED
    BY <1>3, <1>6, <1>7, <1>8, <1>9, LoopCases

LEMMA FailedRunThrows ==
    ASSUME Loop!FrameAssumption, LoopInv, NEW t \in Threads, Loop!run_returns(t),
           Loop!Top(t).failure # None, Waits(t, Loop!Top(t).failure)
    PROVE  /\ loop_pc'[t] = "raising"
           /\ loop_raised'[t] \in {Loop!Top(t).failure, EXIT} \/ Loop!Top(t).failure = INTERRUPT
  <1>1. Loop!Raise(t, Loop!Thrown(t))
    BY DEF Loop!run_returns, Loop!NativeReturns
  <1>2. \/ Loop!Thrown(t) = EXIT
        \/ loop_deferred # None /\ Loop!Thrown(t) = loop_deferred
        \/ loop_deferred = None /\ Loop!Thrown(t) = Loop!Signal(t)
    BY DEF Loop!Thrown
  <1>3. loop_deferred = Loop!Top(t).failure
        \/ (Loop!Top(t).failure = INTERRUPT /\ Loop!Signal(t) = INTERRUPT)
    BY DEF Waits, Loop!Signal
  <1>4. Loop!Thrown(t) # None
    BY <1>2, <1>3, SpecialErrors
  <1> QED
    BY <1>1, <1>2, <1>3, <1>4 DEF Loop!Raise, LoopInv, Loop!TypeOK

\* The error that ended a frame is what its run throws, unless the program is
\* exiting, over any nesting of runs and any other threads (lynxerHostInvokeImpl,
\* callNative, run_frame).
THEOREM ErrorsAreThrown == Spec => CallbackErrorsAreThrown
  <1>1. Loop!FrameAssumption
    BY NativeAssumption
  <1>2. Init => (focus = "frames" => LoopInv)
    BY <1>1, FocusStart, LoopInit
  <1>3. (focus = "frames" => LoopInv) /\ [Next]_vars => (focus = "frames" => LoopInv)'
    BY <1>1, FocusStep, LoopStep
  <1>4. (focus = "frames" => LoopInv) /\ [Next]_vars
            => [focus = "frames" => Loop!RunThrowsItsError]_vars
    <2> SUFFICES ASSUME LoopInv, [Loop!Next]_loop_vars, NEW t \in Threads,
                        Loop!Depth(t) > 0 /\ loop_runs'[t] = Loop!Pop(t)
                            /\ Loop!Top(t).failure # None
                 PROVE  /\ loop_pc'[t] = "raising"
                        /\ loop_raised'[t] \in {Loop!Top(t).failure, EXIT}
                              \/ Loop!Top(t).failure = INTERRUPT
      BY FocusStep DEF Loop!RunThrowsItsError
    <2> QED
      BY <1>1, FailedRunEnds, FailedRunThrows
  <1> QED
    BY <1>2, <1>3, <1>4, PTL DEF Spec, CallbackErrorsAreThrown

\* Type correctness of frame loops, for any threads, modules and depth of runs
\* (run of the two modules, callNative and lynxerHostInvokeImpl).
THEOREM LoopTypes == Spec => [](focus = "frames" => Loop!TypeOK)
  <1>1. Loop!FrameAssumption
    BY NativeAssumption
  <1>2. Init => (focus = "frames" => LoopInv)
    BY <1>1, FocusStart, LoopInit
  <1>3. (focus = "frames" => LoopInv) /\ [Next]_vars => (focus = "frames" => LoopInv)'
    BY <1>1, FocusStep, LoopStep
  <1>4. LoopInv => Loop!TypeOK
    BY DEF LoopInv
  <1> QED
    BY <1>2, <1>3, <1>4, PTL DEF Spec

-----------------------------------------------------------------------------
(* The game's registries.                                                  *)

\* Every sprite shows one of n textures, or none.
Textured(sprites, n) ==
    /\ sprites \in Seq(World!Sprite \cup {None})
    /\ \A i \in DOMAIN sprites : sprites[i] # None => sprites[i].texture <= n

\* Every animation goes through some of n textures.
Cycles(animations, n) ==
    \A i \in DOMAIN animations :
       animations[i] \in [textures : Seq(1 .. n), frame : Int]

\* Every scene names lists.
Staged(scenes, lists) ==
    /\ IsSeq(scenes) /\ IsSeq(lists)
    /\ \A s \in DOMAIN scenes : \A n \in DOMAIN scenes[s] : scenes[s][n] \in DOMAIN lists

Counted ==
    /\ world_textures \in Nat /\ world_cameras \in Nat /\ world_active_camera \in Nat
    /\ world_active_camera <= world_cameras

WorldInv ==
    /\ Counted
    /\ Textured(world_sprites, world_textures)
    /\ Cycles(world_animations, world_textures)
    /\ Staged(world_scenes, world_lists)

LEMMA WorldEmpty ==
    /\ Textured(<<>>, 0) /\ Cycles(World!NoAnimation, 0) /\ Staged(<<>>, <<>>)
  <1>1. <<>> \in Seq(World!Sprite \cup {None}) /\ DOMAIN <<>> = {}
    OBVIOUS
  <1>2. IsSeq(<<>>)
    BY <1>1 DEF IsSeq
  <1> QED
    BY <1>1, <1>2 DEF Textured, Cycles, Staged, World!NoAnimation

LEMMA WorldInit == ASSUME World!Init PROVE WorldInv
  BY WorldEmpty DEF World!Init, WorldInv, Counted

\* More textures keep what is drawn.
LEMMA MoreTextures ==
    ASSUME NEW n \in Nat, NEW m \in Nat, n <= m,
           NEW sprites, Textured(sprites, n), NEW animations, Cycles(animations, n)
    PROVE  Textured(sprites, m) /\ Cycles(animations, m)
  <1>1. Textured(sprites, m)
    <2> SUFFICES ASSUME NEW i \in DOMAIN sprites, sprites[i] # None
                 PROVE  sprites[i].texture <= m
      BY DEF Textured
    <2>1. sprites[i] \in World!Sprite
      BY DEF Textured
    <2>2. sprites[i].texture \in Nat /\ sprites[i].texture <= n
      BY <2>1 DEF Textured, World!Sprite
    <2> QED
      BY <2>2
  <1>2. Cycles(animations, m)
    <2> SUFFICES ASSUME NEW i \in DOMAIN animations
                 PROVE  animations[i] \in [textures : Seq(1 .. m), frame : Int]
      BY DEF Cycles
    <2>1. animations[i] \in [textures : Seq(1 .. n), frame : Int]
      BY DEF Cycles
    <2>2. animations[i].textures \in Seq(1 .. n)
      BY <2>1
    <2>3. animations[i].textures \in Seq(1 .. m)
      BY <2>2
    <2> QED
      BY <2>1, <2>3
  <1> QED
    BY <1>1, <1>2

\* A new sprite that shows a texture, or none.
LEMMA DrawnSprite ==
    ASSUME NEW n \in Nat, NEW sprites, Textured(sprites, n), NEW t \in 0 .. n
    PROVE  Textured(Append(sprites, [texture |-> t]), n)
  <1>1. PICK r : r = [texture |-> t]
    OBVIOUS
  <1>2. r \in World!Sprite /\ r.texture = t
    BY <1>1 DEF World!Sprite
  <1>3. PICK V : V = World!Sprite \cup {None}
    OBVIOUS
  <1>4. sprites \in Seq(V) /\ r \in V
    BY <1>2, <1>3 DEF Textured
  <1>5. /\ Append(sprites, r) \in Seq(V)
        /\ DOMAIN Append(sprites, r) = 1 .. (Len(sprites) + 1)
        /\ Len(sprites) \in Nat /\ DOMAIN sprites = 1 .. Len(sprites)
        /\ \A i \in DOMAIN sprites : Append(sprites, r)[i] = sprites[i]
        /\ Append(sprites, r)[Len(sprites) + 1] = r
    BY <1>4
  <1>6. \A i \in DOMAIN Append(sprites, r) :
           Append(sprites, r)[i] # None => Append(sprites, r)[i].texture <= n
    <2> SUFFICES ASSUME NEW i \in DOMAIN Append(sprites, r), Append(sprites, r)[i] # None
                 PROVE  Append(sprites, r)[i].texture <= n
      OBVIOUS
    <2>1. i \in DOMAIN sprites \/ i = Len(sprites) + 1
      BY <1>5
    <2> QED
      BY <2>1, <1>2, <1>5 DEF Textured
  <1> QED
    BY <1>1, <1>3, <1>5, <1>6 DEF Textured

\* The picture of a sprite changes.
LEMMA OtherTexture ==
    ASSUME NEW n \in Nat, NEW sprites, Textured(sprites, n),
           NEW i \in DOMAIN sprites, sprites[i] # None, NEW t \in 0 .. n
    PROVE  Textured([sprites EXCEPT ![i].texture = t], n)
  <1>1. sprites[i] \in World!Sprite
    BY DEF Textured
  <1>2. PICK r : r = [sprites[i] EXCEPT !.texture = t]
    OBVIOUS
  <1>3. r \in World!Sprite /\ r.texture = t
    BY <1>1, <1>2 DEF World!Sprite
  <1>4. [sprites EXCEPT ![i].texture = t] = [sprites EXCEPT ![i] = r]
    BY <1>2
  <1>5. PICK V : V = World!Sprite \cup {None}
    OBVIOUS
  <1>6. sprites \in Seq(V) /\ r \in V
    BY <1>3, <1>5 DEF Textured
  <1>7. /\ [sprites EXCEPT ![i] = r] \in Seq(V)
        /\ DOMAIN [sprites EXCEPT ![i] = r] = DOMAIN sprites
        /\ \A j \in DOMAIN sprites :
              [sprites EXCEPT ![i] = r][j] = IF j = i THEN r ELSE sprites[j]
    BY <1>6
  <1>8. \A j \in DOMAIN sprites : [sprites EXCEPT ![i] = r][j] # None =>
           [sprites EXCEPT ![i] = r][j].texture <= n
    BY <1>3, <1>7 DEF Textured
  <1> QED
    BY <1>4, <1>5, <1>7, <1>8 DEF Textured

LEMMA EmptySlot ==
    ASSUME NEW n \in Nat, NEW sprites, Textured(sprites, n), NEW i \in DOMAIN sprites
    PROVE  Textured([sprites EXCEPT ![i] = None], n)
  <1>1. PICK V : V = World!Sprite \cup {None}
    OBVIOUS
  <1>2. sprites \in Seq(V) /\ None \in V
    BY <1>1 DEF Textured
  <1>3. /\ [sprites EXCEPT ![i] = None] \in Seq(V)
        /\ DOMAIN [sprites EXCEPT ![i] = None] = DOMAIN sprites
    BY <1>2
  <1> QED
    BY <1>1, <1>3 DEF Textured

LEMMA TextureOps ==
    ASSUME WorldInv,
           World!make_solid_sprite \/ World!load_texture \/ World!load_sprite
    PROVE  WorldInv'
  <1> USE DEF WorldInv, Counted, World!Others
  <1>1. CASE World!make_solid_sprite
    <2>1. Textured(World!NewSprite(0), world_textures)
      BY DrawnSprite DEF World!NewSprite
    <2> QED
      BY <1>1, <2>1 DEF World!make_solid_sprite
  <1>2. CASE World!load_texture
    BY <1>2, MoreTextures DEF World!load_texture
  <1>3. CASE World!load_sprite
    <2>1. /\ Textured(world_sprites, world_textures + 1)
          /\ Cycles(world_animations, world_textures + 1)
      BY MoreTextures
    <2>2. Textured(World!NewSprite(world_textures + 1), world_textures + 1)
      BY <2>1, DrawnSprite DEF World!NewSprite
    <2> QED
      BY <1>3, <2>1, <2>2 DEF World!load_sprite
  <1> QED
    BY <1>1, <1>2, <1>3

LEMMA SetTexture ==
    ASSUME WorldInv, NEW i, NEW texture \in 0 .. MaxTextures,
           World!set_sprite_texture(i, texture)
    PROVE  WorldInv'
  <1>1. i \in DOMAIN world_sprites /\ world_sprites[i] # None
    BY DEF World!set_sprite_texture, World!Live
  <1>2. texture \in Nat /\ texture \in 0 .. world_textures
    BY NativeAssumption
       DEF NativeAssumption, World!WorldAssumption, World!set_sprite_texture,
           World!AtLeastFirst, WorldInv, Counted
  <1>3. Textured([world_sprites EXCEPT ![i].texture = texture], world_textures)
    BY <1>1, <1>2, OtherTexture DEF WorldInv, Counted
  <1> QED
    BY <1>3 DEF World!set_sprite_texture, WorldInv, Counted, World!Others

LEMMA DestroySprite ==
    ASSUME WorldInv, NEW i, World!destroy_sprite(i)
    PROVE  WorldInv'
  <1>1. Textured(world_sprites', world_textures)
    BY EmptySlot DEF World!destroy_sprite, WorldInv, Counted
  <1>2. world_lists' = [l \in DOMAIN world_lists |-> world_lists'[l]]
    BY DEF World!destroy_sprite
  <1>3. IsSeq(world_lists') /\ DOMAIN world_lists' = DOMAIN world_lists
    BY <1>2, MappedSeq DEF WorldInv, Staged
  <1> QED
    BY <1>1, <1>3 DEF World!destroy_sprite, WorldInv, Counted, Staged, World!Others

\* The animation of a new sprite.
LEMMA NewAnimation ==
    ASSUME NEW n \in Nat, NEW k \in Nat
    PROVE  [textures |-> [f \in 1 .. k |-> n + f], frame |-> 1]
               \in [textures : Seq(1 .. (n + k)), frame : Int]
  <1>1. [f \in 1 .. k |-> n + f] \in [1 .. k -> 1 .. (n + k)]
    OBVIOUS
  <1>2. [f \in 1 .. k |-> n + f] \in Seq(1 .. (n + k))
    BY <1>1
  <1> QED
    BY <1>2

LEMMA AnimatedSprite ==
    ASSUME WorldInv, NEW n \in 1 .. 2, NEW loaded \in 0 .. n,
           World!make_animated_sprite(n, loaded)
    PROVE  WorldInv'
  <1>1. PICK m : m = world_textures + loaded
    OBVIOUS
  <1>2. m \in Nat /\ world_textures <= m /\ world_textures' = m
    BY <1>1 DEF WorldInv, Counted, World!make_animated_sprite
  <1>3. Textured(world_sprites, m) /\ Cycles(world_animations, m)
    BY <1>2, MoreTextures DEF WorldInv, Counted
  <1>4. CASE loaded # n
    BY <1>2, <1>3, <1>4 DEF World!make_animated_sprite, WorldInv, Counted, World!Others
  <1>5. CASE loaded = n
    <2>1. Textured(World!NewSprite(world_textures + 1), m)
      BY <1>1, <1>2, <1>3, <1>5, DrawnSprite DEF World!NewSprite, WorldInv, Counted
    <2>2. PICK a : a = [textures |-> [f \in 1 .. n |-> world_textures + f], frame |-> 1]
      OBVIOUS
    <2>3. a \in [textures : Seq(1 .. m), frame : Int]
      BY <1>1, <1>5, <2>2, NewAnimation DEF WorldInv, Counted
    <2>4. world_animations' = [i \in DOMAIN world_animations \cup {Len(world_sprites')} |->
             IF i = Len(world_sprites') THEN a ELSE world_animations[i]]
      BY <1>5, <2>2 DEF World!make_animated_sprite
    <2>5. Cycles(world_animations', m)
      BY <1>3, <2>3, <2>4 DEF Cycles
    <2> QED
      BY <1>2, <1>5, <2>1, <2>5
         DEF World!make_animated_sprite, WorldInv, Counted, World!Others
  <1> QED
    BY <1>4, <1>5

LEMMA UpdateAnimation ==
    ASSUME WorldInv, NEW i, NEW steps \in 0 .. 1, World!update_animation(i, steps)
    PROVE  WorldInv'
  <1>1. PICK a : a = world_animations[i]
    OBVIOUS
  <1>2. PICK k : k = Len(a.textures)
    OBVIOUS
  <1>3. /\ i \in DOMAIN world_animations
        /\ a \in [textures : Seq(1 .. world_textures), frame : Int]
        /\ k > 1
    BY <1>1, <1>2 DEF World!update_animation, WorldInv, Cycles
  <1>4. a.textures \in Seq(1 .. world_textures) /\ a.frame \in Int
    BY <1>3
  <1>5. PICK frame : frame = ((a.frame - 1 + steps) % k) + 1
    OBVIOUS
  <1>6. k \in Nat /\ k # 0 /\ DOMAIN a.textures = 1 .. k
    BY <1>2, <1>3, <1>4
  <1>7. frame \in 1 .. k
    BY <1>4, <1>5, <1>6
  <1>8. a.textures[frame] \in 1 .. world_textures
    <2>1. PICK ts : ts = a.textures
      OBVIOUS
    <2>2. PICK V : V = 1 .. world_textures
      OBVIOUS
    <2>3. ts \in Seq(V) /\ frame \in 1 .. Len(ts)
      BY <1>2, <1>4, <1>7, <2>1, <2>2
    <2>4. ts[frame] \in V
      BY <2>3
    <2> QED
      BY <2>1, <2>2, <2>4
  <1>9. /\ world_animations' = [world_animations EXCEPT ![i].frame = frame]
        /\ world_sprites' = IF World!Live(i)
              THEN [world_sprites EXCEPT ![i].texture = a.textures[frame]]
              ELSE world_sprites
    BY <1>1, <1>2, <1>5 DEF World!update_animation
  <1>10. Textured(world_sprites', world_textures)
    <2>1. CASE World!Live(i)
      <3>1. i \in DOMAIN world_sprites /\ world_sprites[i] # None
        BY <2>1 DEF World!Live
      <3>2. a.textures[frame] \in 0 .. world_textures
        BY <1>8 DEF WorldInv, Counted
      <3>3. Textured([world_sprites EXCEPT ![i].texture = a.textures[frame]], world_textures)
        BY <3>1, <3>2, OtherTexture DEF WorldInv, Counted
      <3> QED
        BY <1>9, <2>1, <3>3
    <2>2. CASE ~World!Live(i)
      BY <1>9, <2>2 DEF WorldInv
    <2> QED
      BY <2>1, <2>2
  <1>11. Cycles(world_animations', world_textures)
    <2>1. PICK b : b = [a EXCEPT !.frame = frame]
      OBVIOUS
    <2>2. b \in [textures : Seq(1 .. world_textures), frame : Int]
      BY <1>3, <1>6, <1>7, <2>1
    <2>3. world_animations' = [world_animations EXCEPT ![i] = b]
      BY <1>1, <1>9, <2>1
    <2> QED
      BY <1>3, <2>2, <2>3 DEF Cycles, WorldInv
  <1> QED
    BY <1>10, <1>11 DEF World!update_animation, WorldInv, Counted, World!Others

\* A list changes in place.
LEMMA ChangedList ==
    ASSUME WorldInv, NEW k, NEW e, world_lists' = [world_lists EXCEPT ![k] = e],
           UNCHANGED <<world_textures, world_sprites, world_scenes, world_animations,
                       World!Others>>
    PROVE  WorldInv'
  <1>1. IsSeq(world_lists') /\ DOMAIN world_lists' = DOMAIN world_lists
    BY ChangedSeq DEF WorldInv, Staged
  <1> QED
    BY <1>1 DEF WorldInv, Counted, Staged, World!Others

LEMMA ListChanges ==
    ASSUME WorldInv, NEW l, NEW i,
           \/ World!add_to_list(l, i) \/ World!remove_sprite_from_list(l, i)
           \/ World!clear_sprite_list(l)
    PROVE  WorldInv'
  <1>1. \E k, e : world_lists' = [world_lists EXCEPT ![k] = e]
    BY DEF World!add_to_list, World!remove_sprite_from_list, World!clear_sprite_list,
           World!ChangeList
  <1>2. UNCHANGED <<world_textures, world_sprites, world_scenes, world_animations,
                    World!Others>>
    BY DEF World!add_to_list, World!remove_sprite_from_list, World!clear_sprite_list,
           World!ChangeList
  <1> QED
    BY <1>1, <1>2, ChangedList

\* A new list keeps the scenes.
LEMMA NewList ==
    ASSUME NEW scenes, NEW lists, Staged(scenes, lists), NEW e
    PROVE  Staged(scenes, Append(lists, e)) /\ Len(lists) + 1 \in DOMAIN Append(lists, e)
  <1>1. /\ IsSeq(Append(lists, e))
        /\ Len(lists) \in Nat /\ DOMAIN lists = 1 .. Len(lists)
        /\ DOMAIN Append(lists, e) = 1 .. (Len(lists) + 1)
    BY AppendedSeq DEF Staged
  <1>2. DOMAIN lists \subseteq DOMAIN Append(lists, e)
    BY <1>1
  <1> QED
    BY <1>1, <1>2 DEF Staged

\* A new scene that names lists.
LEMMA NewScene ==
    ASSUME NEW scenes, NEW lists, Staged(scenes, lists), NEW c,
           \A n \in DOMAIN c : c[n] \in DOMAIN lists
    PROVE  Staged(Append(scenes, c), lists)
  <1>1. /\ IsSeq(Append(scenes, c))
        /\ Len(scenes) \in Nat /\ DOMAIN scenes = 1 .. Len(scenes)
        /\ DOMAIN Append(scenes, c) = 1 .. (Len(scenes) + 1)
        /\ \A i \in DOMAIN scenes : Append(scenes, c)[i] = scenes[i]
        /\ Append(scenes, c)[Len(scenes) + 1] = c
    BY AppendedSeq DEF Staged
  <1>2. \A i \in DOMAIN Append(scenes, c) : i \in DOMAIN scenes \/ i = Len(scenes) + 1
    BY <1>1
  <1> QED
    BY <1>1, <1>2 DEF Staged

LEMMA SceneOps ==
    ASSUME WorldInv,
           \/ World!make_sprite_list \/ World!make_scene
           \/ \E scene, l \in 1 .. MaxOthers, name \in Names :
                 World!add_list_to_scene(scene, l, name)
    PROVE  WorldInv'
  <1>1. CASE World!make_sprite_list
    BY <1>1, NewList DEF World!make_sprite_list, WorldInv, Counted, World!Others
  <1>2. CASE World!make_scene
    <2>1. Staged(Append(world_scenes, World!NoLists), world_lists)
      BY NewScene DEF World!NoLists, WorldInv
    <2> QED
      BY <1>2, <2>1 DEF World!make_scene, WorldInv, Counted, World!Others
  <1>3. ASSUME NEW scene \in 1 .. MaxOthers, NEW l \in 1 .. MaxOthers, NEW name \in Names,
               World!add_list_to_scene(scene, l, name)
        PROVE  WorldInv'
    <2>1. PICK c : c = [n \in DOMAIN world_scenes[scene] \cup {name} |->
                          IF n = name THEN l ELSE world_scenes[scene][n]]
      OBVIOUS
    <2>2. /\ world_scenes' = [world_scenes EXCEPT ![scene] = c]
          /\ scene \in DOMAIN world_scenes /\ l \in DOMAIN world_lists
      BY <1>3, <2>1 DEF World!add_list_to_scene
    <2>3. \A n \in DOMAIN c : c[n] \in DOMAIN world_lists
      BY <2>1, <2>2 DEF WorldInv, Staged
    <2>4. IsSeq(world_scenes') /\ DOMAIN world_scenes' = DOMAIN world_scenes
      BY <2>2, ChangedSeq DEF WorldInv, Staged
    <2>5. \A s \in DOMAIN world_scenes : world_scenes'[s] = IF s = scene THEN c ELSE world_scenes[s]
      BY <2>2
    <2>6. Staged(world_scenes', world_lists)
      BY <2>3, <2>4, <2>5 DEF WorldInv, Staged
    <2> QED
      BY <1>3, <2>6 DEF World!add_list_to_scene, WorldInv, Counted, World!Others
  <1> QED
    BY <1>1, <1>2, <1>3

\* The tiles of a map are new sprites.
LEMMA DrawnTiles ==
    ASSUME NEW n \in Nat, NEW sprites, Textured(sprites, n), NEW t \in 0 .. n, NEW k \in Nat
    PROVE  Textured(sprites \o [i \in 1 .. k |-> [texture |-> t]], n)
  <1>1. PICK r : r = [texture |-> t]
    OBVIOUS
  <1>2. r \in World!Sprite /\ r.texture = t
    BY <1>1 DEF World!Sprite
  <1>3. PICK V : V = World!Sprite \cup {None}
    OBVIOUS
  <1>4. PICK q : q = [i \in 1 .. k |-> r]
    OBVIOUS
  <1>5. sprites \in Seq(V) /\ q \in [1 .. k -> V]
    BY <1>2, <1>3, <1>4 DEF Textured
  <1>6. q \in Seq(V) /\ Len(q) = k /\ \A i \in 1 .. k : q[i] = r
    BY <1>4, <1>5
  <1>7. /\ sprites \o q \in Seq(V)
        /\ Len(sprites) \in Nat /\ DOMAIN sprites = 1 .. Len(sprites)
        /\ DOMAIN (sprites \o q) = 1 .. (Len(sprites) + k)
        /\ \A i \in 1 .. (Len(sprites) + k) :
              (sprites \o q)[i] = IF i <= Len(sprites) THEN sprites[i]
                                  ELSE q[i - Len(sprites)]
    BY <1>5, <1>6
  <1>8. ASSUME NEW i \in DOMAIN (sprites \o q), (sprites \o q)[i] # None
        PROVE  (sprites \o q)[i].texture <= n
    <2>1. CASE i \in DOMAIN sprites
      BY <1>7, <1>8, <2>1 DEF Textured
    <2>2. CASE i \notin DOMAIN sprites
      <3>1. i - Len(sprites) \in 1 .. k /\ ~(i <= Len(sprites))
        BY <1>7, <2>2
      <3>2. (sprites \o q)[i] = r
        BY <1>6, <1>7, <3>1
      <3> QED
        BY <1>2, <3>2
    <2> QED
      BY <2>1, <2>2
  <1> QED
    BY <1>1, <1>3, <1>4, <1>7, <1>8 DEF Textured

LEMMA LoadTilemap ==
    ASSUME WorldInv, NEW tiles \in 0 .. 1, NEW name \in Names, NEW atlas \in BOOLEAN,
           World!load_tilemap(tiles, name, atlas)
    PROVE  WorldInv'
  <1>1. PICK n : n = IF atlas THEN world_textures + 1 ELSE world_textures
    OBVIOUS
  <1>2. PICK t : t = IF atlas THEN world_textures + 1 ELSE 0
    OBVIOUS
  <1>3. n \in Nat /\ world_textures <= n /\ t \in 0 .. n
    BY <1>1, <1>2 DEF WorldInv, Counted
  <1>4. /\ world_textures' = n
        /\ world_sprites' = world_sprites \o [k \in 1 .. tiles |-> [texture |-> t]]
    BY <1>1, <1>2 DEF World!load_tilemap
  <1>5. Textured(world_sprites, n) /\ Cycles(world_animations, n)
    BY <1>3, MoreTextures DEF WorldInv, Counted
  <1>6. Textured(world_sprites', n)
    BY <1>3, <1>4, <1>5, DrawnTiles
  <1>7. PICK e : e = [k \in 1 .. tiles |-> Len(world_sprites) + k]
    OBVIOUS
  <1>8. world_lists' = Append(world_lists, e)
    BY <1>7 DEF World!load_tilemap
  <1>9. Staged(world_scenes, world_lists') /\ Len(world_lists) + 1 \in DOMAIN world_lists'
    BY <1>8, NewList DEF WorldInv
  <1>10. PICK c : c = [m \in {name} |-> Len(world_lists) + 1]
    OBVIOUS
  <1>11. world_scenes' = Append(world_scenes, c)
    BY <1>10 DEF World!load_tilemap
  <1>12. Staged(world_scenes', world_lists')
    BY <1>9, <1>10, <1>11, NewScene
  <1> QED
    BY <1>3, <1>4, <1>5, <1>6, <1>12
       DEF World!load_tilemap, WorldInv, Counted, World!Others

LEMMA CameraOps == ASSUME WorldInv, World!OtherOps PROVE WorldInv'
  <1>1. Counted'
    <2> USE DEF WorldInv, Counted
    <2>1. CASE World!make_camera
      BY <2>1 DEF World!make_camera, World!Picture
    <2>2. CASE \E i \in 1 .. MaxOthers : World!use_camera(i)
      BY <2>2 DEF World!use_camera, World!Picture
    <2>3. CASE World!reset_camera
      BY <2>3 DEF World!reset_camera, World!Picture
    <2>4. CASE UNCHANGED <<world_textures, world_cameras, world_active_camera>>
      BY <2>4
    <2> QED
      BY <2>1, <2>2, <2>3, <2>4
         DEF World!OtherOps, World!make_text_label, World!destroy_text_label,
             World!load_sound, World!start_sound, World!stop_sound, World!Picture
  <1>2. UNCHANGED World!Picture
    BY DEF World!OtherOps, World!make_camera, World!use_camera, World!reset_camera,
           World!make_text_label, World!destroy_text_label, World!load_sound,
           World!start_sound, World!stop_sound
  <1> QED
    BY <1>1, <1>2 DEF WorldInv, World!Picture

LEMMA WorldStep == ASSUME WorldInv, [World!Next]_world_vars PROVE WorldInv'
  <1>1. CASE World!reset
    BY <1>1, WorldEmpty DEF World!reset, WorldInv, Counted
  <1>2. CASE World!SpriteOps
    BY <1>2, TextureOps, SetTexture, DestroySprite, AnimatedSprite, UpdateAnimation
       DEF World!SpriteOps, World!Indices
  <1>3. CASE World!ListOps
    BY <1>3, ListChanges, SceneOps, LoadTilemap DEF World!ListOps
  <1>4. CASE World!OtherOps
    BY <1>4, CameraOps
  <1>5. CASE UNCHANGED world_vars
    BY <1>5 DEF world_vars, WorldInv, Counted
  <1> QED
    BY <1>1, <1>2, <1>3, <1>4, <1>5 DEF World!Next

LEMMA WorldInvResolves == ASSUME WorldInv PROVE World!IndicesResolve
  <1>1. ASSUME NEW i \in DOMAIN world_animations,
               NEW f \in DOMAIN world_animations[i].textures
        PROVE  world_animations[i].textures[f] \in 1 .. world_textures
    <2>1. PICK ts : ts = world_animations[i].textures
      OBVIOUS
    <2>2. world_animations[i] \in [textures : Seq(1 .. world_textures), frame : Int]
      BY DEF WorldInv, Cycles
    <2>3. PICK V : V = 1 .. world_textures
      OBVIOUS
    <2>4. ts \in Seq(V)
      BY <2>1, <2>2, <2>3
    <2>5. f \in 1 .. Len(ts)
      BY <2>1, <2>4
    <2>6. ts[f] \in V
      BY <2>4, <2>5
    <2> QED
      BY <2>1, <2>3, <2>6
  <1> QED
    BY <1>1 DEF WorldInv, Counted, Textured, Staged, World!IndicesResolve

\* What is drawn exists, over failed loads, destroyed sprites and repeated calls
\* of init, for any number of textures, sprites, lists, scenes and cameras
\* (sprites.rs, extras.rs, State::reset).
THEOREM WorldIndicesResolve == Spec => []IndicesResolve
  <1>1. Init => (focus = "world" => WorldInv)
    BY FocusStart, WorldInit
  <1>2. (focus = "world" => WorldInv) /\ [Next]_vars => (focus = "world" => WorldInv)'
    BY FocusStep, WorldStep
  <1>3. (focus = "world" => WorldInv) => IndicesResolve
    BY WorldInvResolves DEF IndicesResolve
  <1> QED
    BY <1>1, <1>2, <1>3, PTL DEF Spec

-----------------------------------------------------------------------------
(* The keyboard and the mouse.                                             *)

InputEvents ==
    [kind : {"down", "up"}, of : Inputs!Switches] \cup [kind : {"move", "turn"}, of : Steps]

\* How far the events up to the n-th have moved the pointer, or turned the wheel.
AreSums(sum, kind) ==
    sum = [n \in Nat |->
             IF n = 0 THEN 0
             ELSE sum[n - 1] + IF n \in Inputs!OfKind(kind) THEN in_pending[n].of ELSE 0]

LEMMA TotalIsNumber ==
    ASSUME in_pending \in Seq(InputEvents), NEW kind \in {"move", "turn"}
    PROVE  Inputs!Total(kind) \in Int
  <1>1. ASSUME NEW n \in Inputs!OfKind(kind) PROVE in_pending[n].of \in Int
    <2>1. in_pending[n] \in InputEvents /\ in_pending[n].kind = kind
      BY DEF Inputs!OfKind
    <2> QED
      BY <2>1, NativeAssumption DEF InputEvents, Inputs!InputAssumption
  <1>2. PICK G : G = [p \in Nat \X Int |->
                        p[2] + IF p[1] \in Inputs!OfKind(kind) THEN in_pending[p[1]].of ELSE 0]
    OBVIOUS
  <1>3. \A n \in Nat, k \in Int :
          /\ G[<<n, k>>] = k + IF n \in Inputs!OfKind(kind) THEN in_pending[n].of ELSE 0
          /\ G[<<n, k>>] \in Int
    BY <1>1, <1>2
  <1>4. G \in [Nat \X Int -> Int]
    BY <1>1, <1>2
  <1>5. PICK f : Repeats(f, Int, 0, G)
    <2>1. 0 \in Int
      OBVIOUS
    <2> QED
      BY <1>4, <2>1, RecursionExists
  <1>6. ASSUME NEW n \in Nat
        PROVE  f[n] = IF n = 0 THEN 0
                      ELSE f[n - 1] + IF n \in Inputs!OfKind(kind) THEN in_pending[n].of ELSE 0
    <2>1. CASE n = 0
      BY <1>5, <2>1 DEF Repeats
    <2>2. CASE n # 0
      <3>1. n - 1 \in Nat /\ (n - 1) + 1 = n
        BY <2>2
      <3>2. f[n] = G[<<n, f[n - 1]>>] /\ f[n - 1] \in Int
        BY <1>5, <3>1 DEF Repeats
      <3> QED
        BY <1>3, <2>2, <3>2
    <2> QED
      BY <2>1, <2>2
  <1>7. f = [n \in Nat |-> f[n]]
    BY <1>5 DEF Repeats
  <1>8. AreSums(f, kind)
    BY <1>6, <1>7 DEF AreSums
  <1>9. PICK sum : sum = CHOOSE s : AreSums(s, kind)
    OBVIOUS
  <1>10. AreSums(sum, kind)
    BY <1>8, <1>9
  <1>11. Inputs!Total(kind) = sum[Len(in_pending)]
    BY <1>9 DEF Inputs!Total, AreSums
  <1>12. \A n \in Nat : sum[n] = IF n = 0 THEN 0
                ELSE sum[n - 1] + IF n \in Inputs!OfKind(kind) THEN in_pending[n].of ELSE 0
    BY <1>10 DEF AreSums
  <1>13. PICK T : T = {n \in Nat : sum[n] \in Int}
    OBVIOUS
  <1>14. 0 \in T
    BY <1>12, <1>13
  <1>15. ASSUME NEW n \in Nat, n \in T PROVE n + 1 \in T
    <2>1. n + 1 # 0 /\ n + 1 \in Nat /\ (n + 1) - 1 = n
      OBVIOUS
    <2>2. sum[n + 1] = sum[n] + IF n + 1 \in Inputs!OfKind(kind) THEN in_pending[n + 1].of ELSE 0
      BY <1>12, <2>1
    <2> QED
      BY <1>1, <1>13, <1>15, <2>2
  <1>16. \A n \in Nat : n \in T
    BY <1>14, <1>15, Induction
  <1> QED
    BY <1>11, <1>13, <1>16

\* The table of keys.
LEMMA KeysAreListed ==
    /\ Len(KEYS) \in Nat /\ DOMAIN KEYS = 1 .. Len(KEYS)
    /\ \A i \in DOMAIN KEYS : KEYS[i][1] # "" /\ KEYS[i][2] \in Keys
    /\ \A i, j \in DOMAIN KEYS : KEYS[i][1] = KEYS[j][1] => i = j
    /\ \A name \in DOMAIN GameKeys : \E i \in DOMAIN KEYS : KEYS[i][2] = GameKeys[name]
  <1>1. Inputs!InputAssumption
    BY NativeAssumption
  <1>2. PICK V : V = STRING \X Keys
    OBVIOUS
  <1>3. KEYS \in Seq(V)
    BY <1>1, <1>2 DEF Inputs!InputAssumption
  <1>4. Len(KEYS) \in Nat /\ DOMAIN KEYS = 1 .. Len(KEYS) /\ \A i \in DOMAIN KEYS : KEYS[i] \in V
    BY <1>3
  <1>5. \A v \in V : v[2] \in Keys
    BY <1>2
  <1> QED
    BY <1>1, <1>4, <1>5 DEF Inputs!InputAssumption

\* Names and codes: a name has one code, and a code of the table the first of its
\* names, which has that code.
LEMMA NamesAreUnique ==
    ASSUME NEW i \in DOMAIN KEYS
    PROVE  Inputs!key_code(KEYS[i][1]) = KEYS[i][2]
  <1>1. Inputs!Named(KEYS[i][1]) = {i}
    <2>1. \A j \in DOMAIN KEYS : KEYS[j][1] = KEYS[i][1] => j = i
      BY KeysAreListed
    <2> QED
      BY <2>1 DEF Inputs!Named
  <1>2. Inputs!FirstOf({i}) = i
    <2>1. i \in Nat
      <3>1. Len(KEYS) \in Nat /\ DOMAIN KEYS = 1 .. Len(KEYS)
        BY KeysAreListed
      <3> QED
        BY <3>1
    <2> QED
      BY <2>1 DEF Inputs!FirstOf
  <1> QED
    BY <1>1, <1>2 DEF Inputs!key_code

LEMMA CodesHaveNames ==
    ASSUME NEW i \in DOMAIN KEYS
    PROVE  \E j \in DOMAIN KEYS : KEYS[j][2] = KEYS[i][2] /\ Inputs!key_name(KEYS[i][2]) = KEYS[j][1]
  <1>1. PICK P : P = {j \in DOMAIN KEYS : KEYS[j][2] = KEYS[i][2]}
    OBVIOUS
  <1>2. P \subseteq Nat /\ P # {}
    <2>1. Len(KEYS) \in Nat /\ DOMAIN KEYS = 1 .. Len(KEYS)
      BY KeysAreListed
    <2> QED
      BY <1>1, <2>1
  <1>3. \E j \in P : \A k \in P : j <= k
    BY <1>2, Least
  <1>4. Inputs!FirstOf(P) \in P
    BY <1>3 DEF Inputs!FirstOf
  <1>5. Inputs!key_name(KEYS[i][2]) = KEYS[Inputs!FirstOf(P)][1]
    BY <1>1, <1>2 DEF Inputs!key_name
  <1> QED
    BY <1>1, <1>4, <1>5

\* A list of keys names a key of the table just when the key is one of them.
LEMMA ListsNameKeys ==
    ASSUME NEW i \in DOMAIN KEYS, NEW codes
    PROVE  /\ Inputs!key_code(Inputs!key_name(KEYS[i][2])) = KEYS[i][2]
           /\ Inputs!key_name(KEYS[i][2]) \in Inputs!key_set(codes) <=> KEYS[i][2] \in codes
  <1>1. PICK j \in DOMAIN KEYS : KEYS[j][2] = KEYS[i][2] /\ Inputs!key_name(KEYS[i][2]) = KEYS[j][1]
    BY CodesHaveNames
  <1>2. Inputs!key_code(KEYS[j][1]) = KEYS[i][2]
    BY <1>1, NamesAreUnique
  <1>3. ASSUME NEW code \in codes, Inputs!key_name(code) = KEYS[j][1] PROVE code = KEYS[i][2]
    <2>1. KEYS[j][1] # ""
      BY KeysAreListed
    <2>2. PICK k \in DOMAIN KEYS : KEYS[k][2] = code
      BY <1>3, <2>1 DEF Inputs!key_name
    <2>3. PICK l \in DOMAIN KEYS : KEYS[l][2] = code /\ Inputs!key_name(code) = KEYS[l][1]
      BY <2>2, CodesHaveNames
    <2>4. l = j
      BY <1>3, <2>3, KeysAreListed
    <2> QED
      BY <1>1, <2>3, <2>4
  <1> QED
    BY <1>1, <1>2, <1>3 DEF Inputs!key_set

InputTypes ==
    /\ in_headless \in BOOLEAN /\ in_pending \in Seq(InputEvents)
    /\ in_pointer \in Int /\ in_wheel \in Int /\ in_mouse_query \in Int
    /\ in_moved \in Int /\ in_scroll \in Int /\ in_scrolled \in Int

\* What was told and what is still to tell is what there is.
InputInv ==
    /\ InputTypes
    /\ in_moved = in_mouse_query
    /\ in_headless => in_moved = 0 /\ in_scroll = 0 /\ in_scrolled = 0
    /\ ~in_headless => in_scrolled + in_scroll = in_wheel
    /\ in_pressed \subseteq in_down \cup in_released

LEMMA InputInit == ASSUME Inputs!Init PROVE InputInv
  BY DEF Inputs!Init, InputInv, InputTypes

\* The last event of a switch between two frames.
LEMMA LastEvent ==
    ASSUME in_pending \in Seq(InputEvents), NEW s, s \in Inputs!Happened("down")
    PROVE  /\ Inputs!LastOf(s) \in Inputs!OfKind("down") \cup Inputs!OfKind("up")
           /\ in_pending[Inputs!LastOf(s)].of = s
  <1>1. PICK E : E = {i \in Inputs!OfKind("down") \cup Inputs!OfKind("up") : in_pending[i].of = s}
    OBVIOUS
  <1>2. Len(in_pending) \in Nat /\ E \subseteq 1 .. Len(in_pending)
    BY <1>1 DEF Inputs!OfKind
  <1>3. E # {}
    BY <1>1 DEF Inputs!Happened
  <1>4. PICK T : T = {d \in Nat : Len(in_pending) - d \in E}
    OBVIOUS
  <1>5. T \subseteq Nat
    BY <1>4
  <1>6. T # {}
    <2>1. PICK i \in E : TRUE
      BY <1>3
    <2>2. Len(in_pending) - i \in Nat /\ Len(in_pending) - (Len(in_pending) - i) = i
      BY <1>2
    <2> QED
      BY <1>4, <2>2
  <1>7. PICK d \in T : \A k \in T : d <= k
    BY <1>5, <1>6, Least
  <1>8. PICK l : l = Len(in_pending) - d
    OBVIOUS
  <1>9. l \in E
    BY <1>4, <1>7, <1>8
  <1>10. ASSUME NEW j \in E PROVE j <= l
    <2>1. Len(in_pending) - j \in Nat /\ Len(in_pending) - (Len(in_pending) - j) = j
      BY <1>2
    <2>2. Len(in_pending) - j \in T
      BY <1>4, <2>1
    <2>3. d <= Len(in_pending) - j
      BY <1>7, <2>2
    <2> QED
      BY <1>2, <1>5, <1>8, <2>3
  <1> QED
    BY <1>1, <1>9, <1>10 DEF Inputs!LastOf

LEMMA InputFrame == ASSUME InputInv, Inputs!NextFrame PROVE InputInv'
  <1>1. in_pending \in Seq(InputEvents)
    BY DEF InputInv, InputTypes
  <1>2. Inputs!Total("move") \in Int /\ Inputs!Total("turn") \in Int
    BY <1>1, TotalIsNumber
  <1>3. InputTypes'
    BY <1>2 DEF Inputs!NextFrame, InputInv, InputTypes
  <1>4. ASSUME NEW s \in in_pressed', s \notin in_released' PROVE s \in in_down'
    <2>1. s \in Inputs!Happened("down") /\ s \notin Inputs!Happened("up")
      BY <1>4 DEF Inputs!NextFrame
    <2>2. Inputs!LastOf(s) \in Inputs!OfKind("down")
      BY <1>1, <2>1, LastEvent DEF Inputs!Happened
    <2>3. in_pending[Inputs!LastOf(s)].kind = "down"
      BY <2>2 DEF Inputs!OfKind
    <2> QED
      BY <2>1, <2>3 DEF Inputs!NextFrame
  <1>5. /\ (in_moved = in_mouse_query)'
        /\ (in_headless => in_moved = 0 /\ in_scroll = 0 /\ in_scrolled = 0)'
        /\ (~in_headless => in_scrolled + in_scroll = in_wheel)'
    BY <1>2 DEF Inputs!NextFrame, InputInv
  <1> QED
    BY <1>3, <1>4, <1>5 DEF InputInv

LEMMA InputStep == ASSUME InputInv, [Inputs!Next]_in_vars PROVE InputInv'
  <1>1. CASE Inputs!User
    <2>1. PICK e \in InputEvents : in_pending' = Append(in_pending, e)
      BY <1>1 DEF Inputs!User, Inputs!Event, InputEvents
    <2>2. in_pending' \in Seq(InputEvents)
      BY <2>1 DEF InputInv, InputTypes
    <2> QED
      BY <1>1, <2>2 DEF Inputs!User, InputInv, InputTypes
  <1>2. CASE Inputs!NextFrame
    BY <1>2, InputFrame
  <1>3. CASE Inputs!mouse_delta
    BY <1>3 DEF Inputs!mouse_delta, Inputs!Delta, Inputs!macroquad, InputInv, InputTypes
  <1>4. CASE Inputs!mouse_scroll
    BY <1>4 DEF Inputs!mouse_scroll, Inputs!macroquad, InputInv, InputTypes
  <1>5. CASE UNCHANGED in_vars
    BY <1>5 DEF in_vars, InputInv, InputTypes
  <1> QED
    BY <1>1, <1>2, <1>3, <1>4, <1>5 DEF Inputs!Next

LEMMA InputInvReports == ASSUME InputInv PROVE Inputs!InputIsReportedOnce
  <1>1. /\ in_moved = in_mouse_query /\ in_moved + Inputs!Delta = Inputs!mouse_position
        /\ in_scrolled + in_scroll = Inputs!mouse_wheel
    BY DEF InputInv, InputTypes, Inputs!Delta, Inputs!mouse_position, Inputs!mouse_wheel
  <1>2. ASSUME NEW i \in DOMAIN KEYS
        PROVE  LET name == KEYS[i][1]  main == Inputs!key_name(KEYS[i][2]) IN
                 /\ Inputs!is_down(name) = (main \in Inputs!keys_down)
                 /\ (Inputs!is_down(name) => Inputs!any_down)
                 /\ Inputs!is_pressed(name) = (main \in Inputs!keys_pressed)
                 /\ Inputs!is_released(name) = (main \in Inputs!keys_released)
                 /\ Inputs!is_pressed(name) => Inputs!is_down(name) \/ Inputs!is_released(name)
    <2>1. Inputs!key_code(KEYS[i][1]) = KEYS[i][2]
      BY NamesAreUnique
    <2>2. KEYS[i][2] \in Keys
      BY KeysAreListed
    <2>3. \A codes : Inputs!key_name(KEYS[i][2]) \in Inputs!key_set(codes) <=> KEYS[i][2] \in codes
      BY ListsNameKeys
    <2>4. in_pressed \subseteq in_down \cup in_released
      BY DEF InputInv
    <2> QED
      BY <2>1, <2>2, <2>3, <2>4
         DEF Inputs!is_down, Inputs!is_pressed, Inputs!is_released, Inputs!Query,
             Inputs!any_down, Inputs!keys_down, Inputs!keys_pressed, Inputs!keys_released
  <1>3. ASSUME NEW name \in DOMAIN GameKeys
        PROVE  LET main == Inputs!key_name(GameKeys[name]) IN
                 /\ Inputs!game_key_down(name) = Inputs!is_down(main)
                 /\ Inputs!game_key_pressed(name) = Inputs!is_pressed(main)
                 /\ Inputs!game_key_released(name) = Inputs!is_released(main)
                 /\ ~(Inputs!game_key_up(name) /\ Inputs!game_key_down(name))
    <2>1. PICK i \in DOMAIN KEYS : KEYS[i][2] = GameKeys[name]
      BY KeysAreListed
    <2>2. Inputs!key_code(Inputs!key_name(GameKeys[name])) = GameKeys[name]
      BY <2>1, ListsNameKeys
    <2>3. Inputs!game_key_code(name) = GameKeys[name]
      BY DEF Inputs!game_key_code
    <2> QED
      BY <2>2, <2>3
         DEF Inputs!game_key_down, Inputs!game_key_pressed, Inputs!game_key_released,
             Inputs!game_key_up, Inputs!is_down, Inputs!is_pressed, Inputs!is_released,
             Inputs!Query
  <1>4. ASSUME NEW b \in Buttons \ {UnknownButton}
        PROVE  /\ Inputs!game_mouse_down(b) = Inputs!mouse_down(b)
               /\ Inputs!game_mouse_pressed(b) = Inputs!mouse_pressed(b)
               /\ Inputs!game_mouse_released(b) = Inputs!mouse_released(b)
    BY DEF Inputs!game_mouse_down, Inputs!game_mouse_pressed, Inputs!game_mouse_released,
           Inputs!mouse_down, Inputs!mouse_pressed, Inputs!mouse_released,
           Inputs!button_of, Inputs!mouse_button
  <1>5. ASSUME NEW b \in Buttons
        PROVE  Inputs!mouse_pressed(b) => Inputs!mouse_down(b) \/ Inputs!mouse_released(b)
    BY DEF InputInv, Inputs!mouse_down, Inputs!mouse_pressed, Inputs!mouse_released,
           Inputs!Query, Inputs!button_of
  <1> QED
    BY <1>1, <1>2, <1>3, <1>4, <1>5 DEF Inputs!InputIsReportedOnce

\* What the keyboard and the mouse report is reported once and without contradiction,
\* over any frames, events between them and questions, and any table of keys
\* (graphics/src/input.rs, game/src/input.rs).
THEOREM InputAgrees == Spec => []InputIsReportedOnce
  <1>1. Init => (focus = "input" => InputInv)
    BY FocusStart, InputInit
  <1>2. (focus = "input" => InputInv) /\ [Next]_vars => (focus = "input" => InputInv)'
    BY FocusStep, InputStep
  <1>3. (focus = "input" => InputInv) => InputIsReportedOnce
    BY InputInvReports DEF InputIsReportedOnce
  <1> QED
    BY <1>1, <1>2, <1>3, PTL DEF Spec

-----------------------------------------------------------------------------
(* The surfaces of graphics.                                               *)

\* A camera looks at the frame or at a target that is bound.
LooksAtBound(look, targets) ==
    look.target = 0 \/ (look.kind = "target" /\ look.target \in targets)

\* What is drawn on has been bound since init, and so has what is painted and
\* what popCameraState may bring back.
SurfacesInv ==
    /\ IsSeq(paint_targets)
    /\ Surfaces!OnlyBoundTargetsArePainted
    /\ paint_active_target = 0 \/ paint_active_target \in paint_bound
    /\ LooksAtBound(paint_camera, paint_bound)
    /\ IsSeq(paint_saved)
    /\ \A i \in DOMAIN paint_saved : LooksAtBound(paint_saved[i], paint_bound)

Bindings == <<paint_active_target, paint_camera, paint_saved, paint_bound>>

LEMMA SurfacesInit == ASSUME Surfaces!Init PROVE SurfacesInv
  <1>1. paint_targets = <<>> /\ <<>> \in Seq({}) /\ DOMAIN <<>> = {}
    BY DEF Surfaces!Init
  <1>2. LooksAtBound(paint_camera, paint_bound)
    BY DEF Surfaces!Init, Surfaces!Look, LooksAtBound
  <1>3. paint_saved = <<>>
    BY DEF Surfaces!Init
  <1> QED
    BY <1>1, <1>2, <1>3 DEF Surfaces!Init, SurfacesInv, IsSeq,
                            Surfaces!OnlyBoundTargetsArePainted

\* What is drawn goes to the frame or to a target that is bound.
LEMMA CanvasIsBound ==
    ASSUME SurfacesInv
    PROVE  Surfaces!Canvas = 0 \/ Surfaces!Canvas \in paint_bound
  BY DEF SurfacesInv, LooksAtBound, Surfaces!Canvas

LEMMA PaintKeeps ==
    ASSUME SurfacesInv, UNCHANGED Bindings,
           NEW e, paint_targets' = IF Surfaces!Canvas = 0 THEN paint_targets
                                   ELSE [paint_targets EXCEPT ![Surfaces!Canvas] = e]
    PROVE  SurfacesInv'
  <1>1. PICK k : k = Surfaces!Canvas
    OBVIOUS
  <1>2. k = 0 \/ k \in paint_bound
    BY <1>1, CanvasIsBound
  <1>3. CASE k = 0
    BY <1>1, <1>3 DEF SurfacesInv, Bindings, Surfaces!OnlyBoundTargetsArePainted
  <1>4. CASE k # 0
    <2>1. paint_targets' = [paint_targets EXCEPT ![k] = e]
      BY <1>1, <1>4
    <2>2. IsSeq(paint_targets)
      BY DEF SurfacesInv
    <2>3. IsSeq(paint_targets') /\ DOMAIN paint_targets' = DOMAIN paint_targets
      <3>1. PICK r : r = [paint_targets EXCEPT ![k] = e]
        OBVIOUS
      <3>2. IsSeq(r) /\ DOMAIN r = DOMAIN paint_targets
        BY <2>2, <3>1, ChangedSeq
      <3> QED
        BY <2>1, <3>1, <3>2
    <2>4. Surfaces!OnlyBoundTargetsArePainted'
      BY <1>2, <1>4, <2>1, <2>3
         DEF SurfacesInv, Bindings, Surfaces!OnlyBoundTargetsArePainted
    <2> QED
      BY <2>3, <2>4 DEF SurfacesInv, Bindings
  <1> QED
    BY <1>3, <1>4

LEMMA DrawingsKeep ==
    ASSUME SurfacesInv,
           \/ \E shade \in Shades :
                 \/ Surfaces!draw_shape(shade) \/ Surfaces!draw_text(shade)
                 \/ Surfaces!draw_3d(shade) \/ Surfaces!clear_background(shade)
           \/ \E h \in 1 .. MaxHandles : Surfaces!draw_texture(h)
    PROVE  SurfacesInv'
  <1>1. \E e : paint_targets' = IF Surfaces!Canvas = 0 THEN paint_targets
                                ELSE [paint_targets EXCEPT ![Surfaces!Canvas] = e]
    BY DEF Surfaces!draw_shape, Surfaces!draw_text, Surfaces!draw_3d,
           Surfaces!clear_background, Surfaces!draw_texture, Surfaces!Draw
  <1>2. UNCHANGED Bindings
    BY DEF Surfaces!draw_shape, Surfaces!draw_text, Surfaces!draw_3d,
           Surfaces!clear_background, Surfaces!draw_texture, Bindings
  <1> QED
    BY <1>1, <1>2, PaintKeeps

LEMMA TurtlesKeep == ASSUME SurfacesInv, Surfaces!TurtleOps PROVE SurfacesInv'
  <1>1. \/ UNCHANGED paint_targets
        \/ \E e : paint_targets' = IF Surfaces!Canvas = 0 THEN paint_targets
                                   ELSE [paint_targets EXCEPT ![Surfaces!Canvas] = e]
    BY DEF Surfaces!TurtleOps, Surfaces!turtle_create, Surfaces!turtle_goto,
           Surfaces!turtle_home, Surfaces!turtle_set, Surfaces!turtle_remove,
           Surfaces!turtle_moves, Surfaces!Draw, Surfaces!registries
  <1>2. UNCHANGED Bindings
    BY DEF Surfaces!TurtleOps, Surfaces!turtle_create, Surfaces!turtle_goto,
           Surfaces!turtle_home, Surfaces!turtle_set, Surfaces!turtle_remove,
           Surfaces!turtle_moves, Surfaces!registries, Bindings
  <1>3. CASE UNCHANGED paint_targets
    BY <1>2, <1>3 DEF SurfacesInv, Bindings, Surfaces!OnlyBoundTargetsArePainted
  <1> QED
    BY <1>1, <1>2, <1>3, PaintKeeps

\* The registries of images and textures, the fonts and the materials.
LEMMA OthersKeep ==
    ASSUME SurfacesInv,
           \/ \E s \in Sizes : Surfaces!set_window_size(s)
           \/ \E h \in 1 .. MaxHandles :
                 \/ Surfaces!texture_from_image(h) \/ Surfaces!image_from_texture(h)
                 \/ Surfaces!render_target_texture(h)
           \/ \E picture \in Surfaces!Pictures :
                 Surfaces!load_texture(picture) \/ Surfaces!load_image(picture)
           \/ \E shade \in Shades : Surfaces!gen_image(shade)
           \/ \E h \in 1 .. MaxHandles, shade \in Shades : Surfaces!image_set_pixel(h, shade)
           \/ Surfaces!screen_image \/ Surfaces!load_font \/ Surfaces!load_material
    PROVE  SurfacesInv'
  <1>1. UNCHANGED <<paint_targets, Bindings>>
    BY DEF Surfaces!set_window_size, Surfaces!texture_from_image,
           Surfaces!image_from_texture, Surfaces!render_target_texture,
           Surfaces!load_texture, Surfaces!load_image, Surfaces!gen_image,
           Surfaces!image_set_pixel, Surfaces!screen_image, Surfaces!load_font,
           Surfaces!load_material, Surfaces!push_image, Surfaces!push_texture,
           Surfaces!registries, Bindings
  <1> QED
    BY <1>1 DEF SurfacesInv, Bindings, Surfaces!OnlyBoundTargetsArePainted

\* Binding, unbinding and the cameras.
LEMMA CamerasKeep ==
    ASSUME SurfacesInv,
           \/ Surfaces!invoke_callback \/ Surfaces!end_render_target \/ Surfaces!set_camera_3d
           \/ Surfaces!push_camera_state \/ Surfaces!pop_camera_state
           \/ \E h \in 1 .. MaxHandles : Surfaces!set_render_target(h)
           \/ \E place \in Places, kind \in {"default", "2d"} :
                 Surfaces!set_camera_2d(place, kind)
    PROVE  SurfacesInv'
  <1>1. ASSUME NEW h, Surfaces!set_render_target(h)
        PROVE  SurfacesInv'
    <2>1. /\ UNCHANGED <<paint_targets, paint_saved>>
          /\ paint_bound' = paint_bound \cup {h}
          /\ paint_active_target' = h \/ UNCHANGED paint_active_target
          /\ paint_camera' = [kind |-> "target", target |-> h] \/ UNCHANGED paint_camera
      BY <1>1 DEF Surfaces!set_render_target, Surfaces!registries
    <2>2. LooksAtBound(paint_camera, paint_bound)'
      BY <2>1 DEF SurfacesInv, LooksAtBound
    <2> QED
      BY <2>1, <2>2 DEF SurfacesInv, LooksAtBound, Surfaces!OnlyBoundTargetsArePainted
  <1>2. ASSUME NEW kind, paint_camera' = Surfaces!Look(kind) \/ UNCHANGED paint_camera,
               paint_active_target' = 0 \/ UNCHANGED paint_active_target,
               UNCHANGED <<paint_targets, paint_saved, paint_bound>>
        PROVE  SurfacesInv'
    <2>1. LooksAtBound(paint_camera, paint_bound)'
      BY <1>2 DEF Surfaces!Look, SurfacesInv, LooksAtBound
    <2> QED
      BY <1>2, <2>1 DEF SurfacesInv, Surfaces!OnlyBoundTargetsArePainted
  <1>3. ASSUME Surfaces!invoke_callback \/ Surfaces!end_render_target
        PROVE  SurfacesInv'
    BY <1>2, <1>3 DEF Surfaces!invoke_callback, Surfaces!end_render_target,
                      Surfaces!registries
  <1>4. ASSUME \/ Surfaces!set_camera_3d
               \/ \E place \in Places, kind \in {"default", "2d"} :
                     Surfaces!set_camera_2d(place, kind)
        PROVE  SurfacesInv'
    BY <1>2, <1>4 DEF Surfaces!set_camera_3d, Surfaces!set_camera_2d, Surfaces!registries
  <1>5. ASSUME Surfaces!push_camera_state PROVE SurfacesInv'
    <2>1. /\ paint_saved' = Append(paint_saved, paint_camera)
          /\ UNCHANGED <<paint_targets, paint_active_target, paint_camera, paint_bound>>
      BY <1>5 DEF Surfaces!push_camera_state, Surfaces!registries
    <2>2. PICK r : r = Append(paint_saved, paint_camera)
      OBVIOUS
    <2>3. /\ IsSeq(r) /\ Len(paint_saved) \in Nat
          /\ DOMAIN paint_saved = 1 .. Len(paint_saved)
          /\ DOMAIN r = 1 .. (Len(paint_saved) + 1)
          /\ \A i \in DOMAIN paint_saved : r[i] = paint_saved[i]
          /\ r[Len(paint_saved) + 1] = paint_camera
      BY <2>2, AppendedSeq DEF SurfacesInv
    <2>4. \A i \in DOMAIN r : i \in DOMAIN paint_saved \/ i = Len(paint_saved) + 1
      BY <2>3
    <2>5. \A i \in DOMAIN r : LooksAtBound(r[i], paint_bound)
      BY <2>3, <2>4 DEF SurfacesInv
    <2> QED
      BY <2>1, <2>2, <2>3, <2>5 DEF SurfacesInv, Surfaces!OnlyBoundTargetsArePainted
  <1>6. ASSUME Surfaces!pop_camera_state PROVE SurfacesInv'
    <2>1. PICK r : r = SubSeq(paint_saved, 1, Len(paint_saved) - 1)
      OBVIOUS
    <2>2. /\ paint_saved # <<>> /\ paint_saved' = r
          /\ paint_camera' = paint_saved[Len(paint_saved)]
          /\ UNCHANGED <<paint_targets, paint_active_target, paint_bound>>
      BY <1>6, <2>1 DEF Surfaces!pop_camera_state, Surfaces!registries
    <2>3. /\ IsSeq(r) /\ Len(paint_saved) \in DOMAIN paint_saved
          /\ DOMAIN r \subseteq DOMAIN paint_saved
          /\ \A i \in DOMAIN r : r[i] = paint_saved[i]
      BY <2>1, <2>2, ShortenedSeq DEF SurfacesInv
    <2> QED
      BY <2>2, <2>3 DEF SurfacesInv, Surfaces!OnlyBoundTargetsArePainted
  <1> QED
    BY <1>1, <1>3, <1>4, <1>5, <1>6

LEMMA ResetKeeps ==
    ASSUME SurfacesInv, \E s \in Sizes : Surfaces!init(s)
    PROVE  SurfacesInv'
  <1>1. /\ paint_targets' = <<>> /\ <<>> \in Seq({}) /\ DOMAIN <<>> = {}
        /\ paint_active_target' = 0
        /\ paint_camera' = Surfaces!Forget(paint_camera)
        /\ paint_saved' = [i \in DOMAIN paint_saved |-> Surfaces!Forget(paint_saved[i])]
    BY DEF Surfaces!init, Surfaces!reset
  <1>2. \A look : LooksAtBound(look, paint_bound) => Surfaces!Forget(look).target = 0
    BY DEF Surfaces!Forget, Surfaces!Look, LooksAtBound
  <1>3. LooksAtBound(paint_camera, paint_bound)'
    BY <1>1, <1>2 DEF SurfacesInv, LooksAtBound
  <1>4. PICK r : r = [i \in DOMAIN paint_saved |-> Surfaces!Forget(paint_saved[i])]
    OBVIOUS
  <1>5. IsSeq(r) /\ DOMAIN r = DOMAIN paint_saved
    <2>1. r = [i \in DOMAIN paint_saved |-> r[i]]
      BY <1>4
    <2> QED
      BY <2>1, MappedSeq DEF SurfacesInv
  <1>6. \A i \in DOMAIN r : r[i].target = 0
    BY <1>2, <1>4, <1>5 DEF SurfacesInv
  <1> QED
    BY <1>1, <1>3, <1>4, <1>5, <1>6
       DEF SurfacesInv, IsSeq, LooksAtBound, Surfaces!OnlyBoundTargetsArePainted

LEMMA NewTargetKeeps == ASSUME SurfacesInv, Surfaces!render_target PROVE SurfacesInv'
  <1>1. paint_targets' = Append(paint_targets, {}) /\ UNCHANGED Bindings
    BY DEF Surfaces!render_target, Bindings
  <1>2. /\ IsSeq(paint_targets')
        /\ Len(paint_targets) \in Nat /\ DOMAIN paint_targets = 1 .. Len(paint_targets)
        /\ DOMAIN paint_targets' = 1 .. (Len(paint_targets) + 1)
        /\ \A i \in DOMAIN paint_targets : paint_targets'[i] = paint_targets[i]
        /\ paint_targets'[Len(paint_targets) + 1] = {}
    BY <1>1, AppendedSeq DEF SurfacesInv
  <1>3. \A i \in DOMAIN paint_targets' :
           i \in DOMAIN paint_targets \/ i = Len(paint_targets) + 1
    BY <1>2
  <1> QED
    BY <1>1, <1>2, <1>3 DEF SurfacesInv, Bindings, Surfaces!OnlyBoundTargetsArePainted

LEMMA SurfacesStep == ASSUME SurfacesInv, [Surfaces!Next]_paint_vars PROVE SurfacesInv'
  <1>1. CASE UNCHANGED paint_vars
    BY <1>1 DEF paint_vars, SurfacesInv, Surfaces!OnlyBoundTargetsArePainted
  <1>2. CASE Surfaces!TurtleOps
    BY <1>2, TurtlesKeep
  <1>3. CASE Surfaces!Surfaces
    BY <1>3, DrawingsKeep, OthersKeep, CamerasKeep, ResetKeeps, NewTargetKeeps
       DEF Surfaces!Surfaces
  <1> QED
    BY <1>1, <1>2, <1>3 DEF Surfaces!Next

\* Nothing is on a target that set_render_target has not named since init, for
\* any targets, textures, turtles and cameras (with_framebuffer, State::reset).
THEOREM TargetsArePaintedBound == Spec => []OnlyBoundTargetsArePainted
  <1>1. Init => (focus = "surfaces" => SurfacesInv)
    BY FocusStart, SurfacesInit
  <1>2. (focus = "surfaces" => SurfacesInv) /\ [Next]_vars
            => (focus = "surfaces" => SurfacesInv)'
    BY FocusStep, SurfacesStep
  <1>3. (focus = "surfaces" => SurfacesInv) => OnlyBoundTargetsArePainted
    BY DEF OnlyBoundTargetsArePainted, SurfacesInv
  <1> QED
    BY <1>1, <1>2, <1>3, PTL DEF Spec

-----------------------------------------------------------------------------
(* The widgets.                                                            *)

UiBlock == [kind : Ui!BlockKinds, id : Ids, commands : Seq(Ui!Command)]

\* Nested blocks as commands: the first n of a stack, outermost first.
AreCommands(flat, stack, n) ==
    flat = [k \in 0 .. n |->
              IF k = 0 THEN <<>>
              ELSE flat[k - 1] \o <<Ui!Begin(stack[k].kind, stack[k].id)>> \o stack[k].commands]

Said(stack) == CHOOSE flat : AreCommands(flat, stack, Len(stack))

LEMMA CommandsExist ==
    ASSUME NEW stack
    PROVE  \A n \in Nat : \E flat : AreCommands(flat, stack, n)
  <1>1. PICK T : T = {n \in Nat : ~\E flat : AreCommands(flat, stack, n)}
    OBVIOUS
  <1>2. ASSUME T # {} PROVE FALSE
    <2>1. T \subseteq Nat
      BY <1>1
    <2>2. PICK n \in T : \A m \in T : n <= m
      BY <1>2, <2>1, Least
    <2>3. n \in Nat /\ ~\E flat : AreCommands(flat, stack, n)
      BY <1>1, <2>2
    <2>4. CASE n = 0
      <3>1. PICK flat : flat = [k \in 0 .. 0 |-> <<>>]
        OBVIOUS
      <3>2. AreCommands(flat, stack, 0)
        BY <3>1 DEF AreCommands
      <3> QED
        BY <2>3, <2>4, <3>2
    <2>5. CASE n # 0
      <3>1. n - 1 \in Nat /\ ~(n <= n - 1)
        BY <2>3, <2>5
      <3>2. PICK flat : AreCommands(flat, stack, n - 1)
        BY <1>1, <2>2, <3>1
      <3>3. PICK last : last = flat[n - 1] \o <<Ui!Begin(stack[n].kind, stack[n].id)>>
                                  \o stack[n].commands
        OBVIOUS
      <3>4. PICK longer : longer = [k \in 0 .. n |-> IF k = n THEN last ELSE flat[k]]
        OBVIOUS
      <3>5. \A k \in 0 .. n - 1 : longer[k] = flat[k]
        BY <2>3, <3>4
      <3>6. ASSUME NEW k \in 0 .. n
            PROVE  longer[k] =
                     IF k = 0 THEN <<>>
                     ELSE longer[k - 1] \o <<Ui!Begin(stack[k].kind, stack[k].id)>>
                            \o stack[k].commands
        <4>1. CASE k = n
          <5>1. longer[k] = last /\ longer[k - 1] = flat[n - 1] /\ k # 0
            BY <2>3, <2>5, <3>4, <3>5, <4>1
          <5> QED
            BY <3>3, <4>1, <5>1
        <4>2. CASE k # n
          <5>1. k \in 0 .. n - 1 /\ longer[k] = flat[k]
            BY <2>3, <3>5, <4>2
          <5>2. flat[k] =
                     IF k = 0 THEN <<>>
                     ELSE flat[k - 1] \o <<Ui!Begin(stack[k].kind, stack[k].id)>>
                            \o stack[k].commands
            BY <3>2, <5>1 DEF AreCommands
          <5>3. k # 0 => longer[k - 1] = flat[k - 1]
            BY <2>3, <3>5, <5>1
          <5> QED
            BY <5>1, <5>2, <5>3
        <4> QED
          BY <4>1, <4>2
      <3>7. longer = [k \in 0 .. n |-> longer[k]]
        BY <3>4
      <3>8. AreCommands(longer, stack, n)
        BY <3>6, <3>7 DEF AreCommands
      <3> QED
        BY <2>3, <3>8
    <2> QED
      BY <2>4, <2>5
  <1> QED
    BY <1>1, <1>2

LEMMA SaidIs ==
    ASSUME NEW stack \in Seq(UiBlock)
    PROVE  /\ Said(stack)[0] = <<>>
           /\ \A k \in 1 .. Len(stack) :
                 Said(stack)[k] = Said(stack)[k - 1]
                    \o <<Ui!Begin(stack[k].kind, stack[k].id)>> \o stack[k].commands
  <1>1. Len(stack) \in Nat
    OBVIOUS
  <1>2. PICK flat : flat = Said(stack)
    OBVIOUS
  <1>3. AreCommands(flat, stack, Len(stack))
    BY <1>1, <1>2, CommandsExist DEF Said
  <1>4. ASSUME NEW k \in 0 .. Len(stack)
        PROVE  flat[k] =
                 IF k = 0 THEN <<>>
                 ELSE flat[k - 1] \o <<Ui!Begin(stack[k].kind, stack[k].id)>> \o stack[k].commands
    BY <1>3 DEF AreCommands
  <1>5. 0 \in 0 .. Len(stack) /\ \A k \in 1 .. Len(stack) : k \in 0 .. Len(stack) /\ k # 0
    BY <1>1
  <1> QED
    BY <1>2, <1>4, <1>5

LEMMA BeginIsCommand ==
    ASSUME NEW b \in UiBlock
    PROVE  /\ <<Ui!Begin(b.kind, b.id)>> \in Seq(Ui!Command)
           /\ <<Ui!End(b.id)>> \in Seq(Ui!Command)
           /\ b.commands \in Seq(Ui!Command)
  <1>1. Ui!Begin(b.kind, b.id) \in Ui!Command /\ Ui!End(b.id) \in Ui!Command
    BY DEF UiBlock, Ui!Begin, Ui!End, Ui!Command, Ui!BlockKinds
  <1> QED
    BY <1>1 DEF UiBlock

LEMMA SaidIsSeq ==
    ASSUME NEW stack \in Seq(UiBlock)
    PROVE  \A k \in 0 .. Len(stack) : Said(stack)[k] \in Seq(Ui!Command)
  <1>1. Len(stack) \in Nat /\ DOMAIN stack = 1 .. Len(stack)
    OBVIOUS
  <1>2. PICK T : T = {k \in 0 .. Len(stack) : Said(stack)[k] \notin Seq(Ui!Command)}
    OBVIOUS
  <1>3. ASSUME T # {} PROVE FALSE
    <2>1. T \subseteq Nat
      BY <1>1, <1>2
    <2>2. PICK k \in T : \A m \in T : k <= m
      BY <1>3, <2>1, Least
    <2>3. k \in 0 .. Len(stack) /\ Said(stack)[k] \notin Seq(Ui!Command) /\ k \in Nat
      BY <1>2, <2>1, <2>2
    <2>4. CASE k = 0
      <3>1. <<>> \in Seq(Ui!Command)
        OBVIOUS
      <3>2. Said(stack)[k] = <<>>
        BY <2>4, SaidIs
      <3> QED
        BY <2>3, <3>1, <3>2
    <2>5. CASE k # 0
      <3>1. k \in 1 .. Len(stack) /\ k - 1 \in 0 .. Len(stack) /\ ~(k <= k - 1)
        BY <1>1, <2>3, <2>5
      <3>2. Said(stack)[k - 1] \in Seq(Ui!Command)
        BY <1>2, <2>2, <3>1
      <3>3. stack[k] \in UiBlock
        BY <1>1, <3>1
      <3>4. /\ <<Ui!Begin(stack[k].kind, stack[k].id)>> \in Seq(Ui!Command)
            /\ stack[k].commands \in Seq(Ui!Command)
        BY <3>3, BeginIsCommand
      <3>5. Said(stack)[k] = Said(stack)[k - 1]
               \o <<Ui!Begin(stack[k].kind, stack[k].id)>> \o stack[k].commands
        BY <3>1, SaidIs
      <3>6. Said(stack)[k] \in Seq(Ui!Command)
        BY <3>2, <3>4, <3>5
      <3> QED
        BY <2>3, <3>6
    <2> QED
      BY <2>4, <2>5
  <1> QED
    BY <1>2, <1>3

\* Stacks that begin alike say the same so far.
LEMMA SaidAlike ==
    ASSUME NEW s \in Seq(UiBlock), NEW t \in Seq(UiBlock), NEW m \in Nat,
           m <= Len(s), m <= Len(t), \A k \in 1 .. m : s[k] = t[k]
    PROVE  \A k \in 0 .. m : Said(s)[k] = Said(t)[k]
  <1>1. Len(s) \in Nat /\ Len(t) \in Nat
    OBVIOUS
  <1>2. PICK T : T = {k \in 0 .. m : Said(s)[k] # Said(t)[k]}
    OBVIOUS
  <1>3. ASSUME T # {} PROVE FALSE
    <2>1. T \subseteq Nat
      BY <1>2
    <2>2. PICK k \in T : \A l \in T : k <= l
      BY <1>3, <2>1, Least
    <2>3. k \in 0 .. m /\ Said(s)[k] # Said(t)[k] /\ k \in Nat
      BY <1>2, <2>1, <2>2
    <2>4. CASE k = 0
      BY <2>3, <2>4, SaidIs
    <2>5. CASE k # 0
      <3>1. /\ k \in 1 .. Len(s) /\ k \in 1 .. Len(t) /\ k \in 1 .. m
            /\ k - 1 \in 0 .. m /\ ~(k <= k - 1)
        BY <1>1, <2>3, <2>5
      <3>2. Said(s)[k - 1] = Said(t)[k - 1]
        BY <1>2, <2>2, <3>1
      <3>3. s[k] = t[k]
        BY <3>1
      <3>4. Said(s)[k] = Said(s)[k - 1]
               \o <<Ui!Begin(s[k].kind, s[k].id)>> \o s[k].commands
        BY <3>1, SaidIs
      <3>5. Said(t)[k] = Said(t)[k - 1]
               \o <<Ui!Begin(t[k].kind, t[k].id)>> \o t[k].commands
        BY <3>1, SaidIs
      <3> QED
        BY <2>3, <3>2, <3>3, <3>4, <3>5
    <2> QED
      BY <2>4, <2>5
  <1> QED
    BY <1>2, <1>3

\* What all the blocks of a stack say.
SaidInAll(stack) == Said(stack)[Len(stack)]

\* A stack is its outer blocks and its innermost one.
LEMMA SaidByTheInnermost ==
    ASSUME NEW stack \in Seq(UiBlock), stack # <<>>,
           NEW outer, outer = SubSeq(stack, 1, Len(stack) - 1),
           NEW b, b = stack[Len(stack)]
    PROVE  /\ outer \in Seq(UiBlock) /\ Len(outer) = Len(stack) - 1 /\ b \in UiBlock
           /\ SaidInAll(outer) \in Seq(Ui!Command)
           /\ SaidInAll(stack) = SaidInAll(outer) \o <<Ui!Begin(b.kind, b.id)>> \o b.commands
  <1>1. PICK n : n = Len(stack)
    OBVIOUS
  <1>2. n \in Nat /\ n # 0 /\ DOMAIN stack = 1 .. n /\ n - 1 \in Nat /\ n \in 1 .. n
    BY <1>1
  <1>3. b \in UiBlock /\ \A i \in 1 .. n - 1 : stack[i] \in UiBlock
    BY <1>1, <1>2
  <1>4. /\ outer \in Seq(UiBlock) /\ Len(outer) = n - 1
        /\ \A i \in 1 .. n - 1 : outer[i] = stack[i]
    <2>1. /\ outer \in Seq(UiBlock) /\ Len(outer) = IF 1 <= n - 1 THEN (n - 1) - 1 + 1 ELSE 0
          /\ \A i \in 1 .. (n - 1) - 1 + 1 : outer[i] = stack[1 + i - 1]
      BY <1>1, <1>2, <1>3, SubSeqProperties
    <2>2. Len(outer) = n - 1 /\ \A i \in 1 .. n - 1 : 1 + i - 1 = i
      BY <1>2, <2>1
    <2>3. 1 .. (n - 1) - 1 + 1 = 1 .. n - 1
      BY <1>2
    <2> QED
      BY <2>1, <2>2, <2>3
  <1>5. Said(outer)[n - 1] = Said(stack)[n - 1]
    <2>1. n - 1 <= Len(outer) /\ n - 1 <= Len(stack)
      BY <1>1, <1>2, <1>4
    <2>2. \A k \in 0 .. n - 1 : Said(outer)[k] = Said(stack)[k]
      BY <1>2, <1>4, <2>1, SaidAlike
    <2> QED
      BY <1>2, <2>2
  <1>6. Said(outer)[n - 1] \in Seq(Ui!Command)
    <2>1. n - 1 \in 0 .. Len(outer)
      BY <1>2, <1>4
    <2> QED
      BY <1>4, <2>1, SaidIsSeq
  <1>7. Said(stack)[n] = Said(stack)[n - 1] \o <<Ui!Begin(b.kind, b.id)>> \o b.commands
    BY <1>1, <1>2, SaidIs
  <1> QED
    BY <1>1, <1>3, <1>4, <1>5, <1>6, <1>7 DEF SaidInAll

LEMMA PushSays ==
    ASSUME NEW stack \in Seq(UiBlock), stack # <<>>, NEW more \in Seq(Ui!Command),
           NEW pushed, pushed = Ui!Push(stack, more)
    PROVE  /\ pushed \in Seq(UiBlock) /\ pushed # <<>>
           /\ SaidInAll(pushed) = SaidInAll(stack) \o more
  <1>1. PICK n : n = Len(stack)
    OBVIOUS
  <1>2. n \in Nat /\ n # 0 /\ DOMAIN stack = 1 .. n /\ n - 1 \in Nat /\ n \in 1 .. n
    BY <1>1
  <1>3. PICK b : b = stack[n]
    OBVIOUS
  <1>4. b \in UiBlock /\ b.commands \in Seq(Ui!Command)
    <2>1. b \in UiBlock
      BY <1>2, <1>3
    <2> QED
      BY <2>1 DEF UiBlock
  <1>5. PICK c : c = [b EXCEPT !.commands = @ \o more]
    OBVIOUS
  <1>6. b.commands \o more \in Seq(Ui!Command)
    BY <1>4
  <1>7. c \in UiBlock /\ c.kind = b.kind /\ c.id = b.id /\ c.commands = b.commands \o more
    BY <1>4, <1>5, <1>6 DEF UiBlock
  <1>8. pushed = [stack EXCEPT ![n] = c]
    BY <1>1, <1>3, <1>5 DEF Ui!Push
  <1>9. /\ pushed \in Seq(UiBlock) /\ Len(pushed) = n /\ pushed[n] = c
        /\ \A i \in 1 .. n - 1 : pushed[i] = stack[i]
    BY <1>1, <1>2, <1>7, <1>8
  <1>10. pushed # <<>>
    BY <1>2, <1>9
  <1>11. Said(pushed)[n - 1] = Said(stack)[n - 1]
    <2>1. n - 1 <= Len(pushed) /\ n - 1 <= Len(stack)
      BY <1>1, <1>2, <1>9
    <2>2. \A k \in 0 .. n - 1 : Said(pushed)[k] = Said(stack)[k]
      BY <1>2, <1>9, <2>1, SaidAlike
    <2> QED
      BY <1>2, <2>2
  <1>12. PICK below : below = Said(stack)[n - 1]
    OBVIOUS
  <1>13. below \in Seq(Ui!Command)
    BY <1>1, <1>2, <1>12, SaidIsSeq
  <1>14. PICK begin : begin = <<Ui!Begin(b.kind, b.id)>>
    OBVIOUS
  <1>15. begin \in Seq(Ui!Command)
    BY <1>4, <1>14, BeginIsCommand
  <1>16. Said(stack)[n] = below \o begin \o b.commands
    BY <1>1, <1>2, <1>3, <1>12, <1>14, SaidIs
  <1>17. Said(pushed)[n] = below \o begin \o (b.commands \o more)
    BY <1>2, <1>7, <1>9, <1>11, <1>12, <1>14, SaidIs
  <1>18. PICK front : front = below \o begin
    OBVIOUS
  <1>19. front \in Seq(Ui!Command)
    BY <1>13, <1>15, <1>18
  <1>20. (front \o b.commands) \o more = front \o (b.commands \o more)
    <2>1. PICK said : said = b.commands
      OBVIOUS
    <2>2. said \in Seq(Ui!Command)
      BY <1>4, <2>1
    <2>3. PICK S : S = Ui!Command
      OBVIOUS
    <2>4. front \in Seq(S) /\ said \in Seq(S) /\ more \in Seq(S)
      BY <1>19, <2>2, <2>3
    <2>5. Joins(front, said, more)
      BY <2>4, SeqJoins
    <2> QED
      BY <2>1, <2>5 DEF Joins
  <1>21. Said(stack)[n] \o more = Said(pushed)[n]
    BY <1>16, <1>17, <1>18, <1>20
  <1> QED
    BY <1>1, <1>9, <1>10, <1>21 DEF SaidInAll

LEMMA BeginSays ==
    ASSUME NEW stack \in Seq(UiBlock), NEW kind \in Ui!BlockKinds, NEW id \in Ids,
           NEW begun, begun = Append(stack, [kind |-> kind, id |-> id, commands |-> <<>>])
    PROVE  /\ begun \in Seq(UiBlock) /\ begun # <<>>
           /\ SaidInAll(begun) = Append(SaidInAll(stack), Ui!Begin(kind, id))
  <1>1. PICK n : n = Len(stack)
    OBVIOUS
  <1>2. n \in Nat /\ DOMAIN stack = 1 .. n
    BY <1>1
  <1>3. PICK b : b = [kind |-> kind, id |-> id, commands |-> <<>>]
    OBVIOUS
  <1>4. <<>> \in Seq(Ui!Command)
    OBVIOUS
  <1>5. b \in UiBlock /\ b.kind = kind /\ b.id = id /\ b.commands = <<>>
    BY <1>3, <1>4 DEF UiBlock
  <1>6. begun = Append(stack, b)
    BY <1>3
  <1>7. /\ begun \in Seq(UiBlock) /\ Len(begun) = n + 1 /\ begun[n + 1] = b
        /\ \A i \in 1 .. n : begun[i] = stack[i]
    BY <1>1, <1>2, <1>5, <1>6
  <1>8. begun # <<>> /\ n + 1 \in 1 .. Len(begun) /\ (n + 1) - 1 = n
    BY <1>2, <1>7
  <1>9. Said(begun)[n] = Said(stack)[n]
    <2>1. n <= Len(begun) /\ n <= Len(stack)
      BY <1>1, <1>2, <1>7
    <2>2. \A k \in 0 .. n : Said(begun)[k] = Said(stack)[k]
      BY <1>2, <1>7, <2>1, SaidAlike
    <2> QED
      BY <1>2, <2>2
  <1>10. PICK below : below = Said(stack)[n]
    OBVIOUS
  <1>11. below \in Seq(Ui!Command)
    BY <1>1, <1>2, <1>10, SaidIsSeq
  <1>12. PICK begin : begin = Ui!Begin(kind, id)
    OBVIOUS
  <1>13. begin \in Ui!Command /\ <<begin>> \in Seq(Ui!Command)
    BY <1>12 DEF Ui!Begin, Ui!Command
  <1>14. Said(begun)[n + 1] = below \o <<begin>> \o <<>>
    <2>1. PICK m : m = n + 1
      OBVIOUS
    <2>2. m \in 1 .. Len(begun) /\ m - 1 = n /\ begun[m] = b
      BY <1>7, <1>8, <2>1
    <2>3. Said(begun)[m] = Said(begun)[m - 1]
             \o <<Ui!Begin(begun[m].kind, begun[m].id)>> \o begun[m].commands
      BY <1>7, <2>2, SaidIs
    <2>4. Said(begun)[m] = below \o <<begin>> \o <<>>
      BY <1>5, <1>9, <1>10, <1>12, <2>2, <2>3
    <2> QED
      BY <2>1, <2>4
  <1>15. below \o <<begin>> \in Seq(Ui!Command) /\ below \o <<begin>> = Append(below, begin)
    BY <1>11, <1>13
  <1>16. Said(begun)[n + 1] = Append(below, begin)
    BY <1>14, <1>15, ConcatEmptySeq
  <1> QED
    BY <1>1, <1>7, <1>8, <1>10, <1>12, <1>16 DEF SaidInAll

\* A block that has ended, after what is said outside it.
LEMMA EndSays ==
    ASSUME NEW front \in Seq(Ui!Command), NEW b \in UiBlock
    PROVE  /\ Ui!Block(b) \in Seq(Ui!Command)
           /\ front \o Ui!Block(b)
                = Append(front \o <<Ui!Begin(b.kind, b.id)>> \o b.commands, Ui!End(b.id))
  <1>1. PICK begin : begin = <<Ui!Begin(b.kind, b.id)>>
    OBVIOUS
  <1>2. PICK end : end = Ui!End(b.id)
    OBVIOUS
  <1>3. PICK said : said = b.commands
    OBVIOUS
  <1>4. begin \in Seq(Ui!Command) /\ <<end>> \in Seq(Ui!Command) /\ said \in Seq(Ui!Command)
    BY <1>1, <1>2, <1>3, BeginIsCommand
  <1>5. end \in Ui!Command
    BY <1>2 DEF UiBlock, Ui!End, Ui!Command
  <1>6. Ui!Block(b) = (begin \o said) \o <<end>>
    BY <1>1, <1>2, <1>3 DEF Ui!Block
  <1>7. PICK inner : inner = begin \o said
    OBVIOUS
  <1>8. inner \in Seq(Ui!Command)
    BY <1>4, <1>7
  <1>9. front \o (inner \o <<end>>) = (front \o inner) \o <<end>>
    <2>1. PICK S : S = Ui!Command
      OBVIOUS
    <2>2. front \in Seq(S) /\ inner \in Seq(S) /\ <<end>> \in Seq(S)
      BY <1>4, <1>8, <2>1
    <2>3. Joins(front, inner, <<end>>)
      BY <2>2, SeqJoins
    <2> QED
      BY <2>3 DEF Joins
  <1>10. front \o inner = (front \o begin) \o said
    <2>1. PICK S : S = Ui!Command
      OBVIOUS
    <2>2. front \in Seq(S) /\ begin \in Seq(S) /\ said \in Seq(S)
      BY <1>4, <2>1
    <2>3. Joins(front, begin, said)
      BY <2>2, SeqJoins
    <2> QED
      BY <1>7, <2>3 DEF Joins
  <1>11. PICK all : all = front \o inner
    OBVIOUS
  <1>12. all \in Seq(Ui!Command)
    BY <1>8, <1>11
  <1>13. all \o <<end>> = Append(all, end)
    BY <1>5, <1>12
  <1>14. inner \o <<end>> \in Seq(Ui!Command)
    BY <1>4, <1>8
  <1>15. front \o Ui!Block(b) = Append((front \o begin) \o said, end)
    BY <1>6, <1>7, <1>9, <1>10, <1>11, <1>13
  <1> QED
    BY <1>1, <1>2, <1>3, <1>6, <1>7, <1>14, <1>15

UiInv ==
    /\ ui_ui_stack \in Seq(UiBlock)
    /\ ui_issued \in Seq(Ui!Command) /\ ui_replayed \in Seq(Ui!Command)
    /\ ui_issued = IF ui_ui_stack # <<>> THEN SaidInAll(ui_ui_stack) ELSE ui_replayed

LEMMA UiInit == ASSUME Ui!Init PROVE UiInv
  <1>1. /\ ui_ui_stack = <<>> /\ ui_issued = <<>> /\ ui_replayed = <<>>
        /\ <<>> \in Seq(UiBlock) /\ <<>> \in Seq(Ui!Command)
    BY DEF Ui!Init
  <1> QED
    BY <1>1 DEF UiInv

LEMMA WidgetKeeps ==
    ASSUME UiInv, NEW kind \in Widgets, NEW id \in Ids, NEW touched,
           Ui!widget(kind, id, touched)
    PROVE  UiInv'
  <1>1. UNCHANGED ui_replayed
    BY DEF Ui!widget
  <1>2. CASE ui_ui_stack = <<>>
    <2>1. UNCHANGED <<ui_ui_stack, ui_issued>>
      BY <1>2 DEF Ui!widget, Ui!buffering, Ui!Immediate
    <2> QED
      BY <1>1, <2>1 DEF UiInv
  <1>3. CASE ui_ui_stack # <<>>
    <2>1. PICK command : command = [op |-> kind, id |-> id]
      OBVIOUS
    <2>2. /\ ui_ui_stack' = Ui!Push(ui_ui_stack, <<command>>)
          /\ ui_issued' = Append(ui_issued, command)
      BY <1>3, <2>1 DEF Ui!widget, Ui!buffering, Ui!Buffered
    <2>3. command \in Ui!Command /\ <<command>> \in Seq(Ui!Command)
      BY <2>1, NativeAssumption DEF Ui!Command, Ui!UiAssumption
    <2>4. ui_ui_stack \in Seq(UiBlock)
      BY DEF UiInv
    <2>5. PICK pushed : pushed = ui_ui_stack'
      OBVIOUS
    <2>6. /\ pushed \in Seq(UiBlock) /\ pushed # <<>>
          /\ SaidInAll(pushed) = SaidInAll(ui_ui_stack) \o <<command>>
      BY <1>3, <2>2, <2>3, <2>4, <2>5, PushSays
    <2>7. ui_issued \in Seq(Ui!Command) /\ ui_issued = SaidInAll(ui_ui_stack)
      BY <1>3 DEF UiInv
    <2>8. ui_issued \o <<command>> = Append(ui_issued, command)
      BY <2>3, <2>7
    <2>9. ui_issued' = SaidInAll(pushed) /\ ui_issued' \in Seq(Ui!Command)
      BY <2>2, <2>3, <2>6, <2>7, <2>8
    <2> QED
      BY <1>1, <2>5, <2>6, <2>9 DEF UiInv
  <1> QED
    BY <1>2, <1>3

LEMMA BlockBeginKeeps ==
    ASSUME UiInv, NEW kind \in Ui!BlockKinds, NEW id \in Ids, Ui!block_begin(kind, id)
    PROVE  UiInv'
  <1>1. PICK begun : begun = ui_ui_stack'
    OBVIOUS
  <1>2. /\ begun = Append(ui_ui_stack, [kind |-> kind, id |-> id, commands |-> <<>>])
        /\ UNCHANGED ui_replayed
        /\ ui_issued' = Append(IF ui_ui_stack # <<>> THEN ui_issued ELSE <<>>, Ui!Begin(kind, id))
    BY <1>1 DEF Ui!block_begin, Ui!buffering
  <1>3. ui_ui_stack \in Seq(UiBlock)
    BY DEF UiInv
  <1>4. /\ begun \in Seq(UiBlock) /\ begun # <<>>
        /\ SaidInAll(begun) = Append(SaidInAll(ui_ui_stack), Ui!Begin(kind, id))
    BY <1>2, <1>3, BeginSays
  <1>5. SaidInAll(ui_ui_stack) = IF ui_ui_stack # <<>> THEN ui_issued ELSE <<>>
    <2>1. CASE ui_ui_stack # <<>>
      BY <2>1 DEF UiInv
    <2>2. CASE ui_ui_stack = <<>>
      <3>1. Len(ui_ui_stack) = 0
        BY <2>2
      <3> QED
        BY <1>3, <2>2, <3>1, SaidIs DEF SaidInAll
    <2> QED
      BY <2>1, <2>2
  <1>6. ui_issued' = SaidInAll(begun)
    BY <1>2, <1>4, <1>5
  <1>7. SaidInAll(begun) \in Seq(Ui!Command)
    <2>1. Len(begun) \in 0 .. Len(begun)
      BY <1>4
    <2> QED
      BY <1>4, <2>1, SaidIsSeq DEF SaidInAll
  <1> QED
    BY <1>1, <1>2, <1>4, <1>6, <1>7 DEF UiInv

LEMMA FinishKeeps ==
    ASSUME UiInv, NEW kind, NEW touches, Ui!finish_block(kind, touches)
    PROVE  UiInv'
  <1>1. PICK outer : outer = SubSeq(ui_ui_stack, 1, Len(ui_ui_stack) - 1)
    OBVIOUS
  <1>2. PICK b : b = ui_ui_stack[Len(ui_ui_stack)]
    OBVIOUS
  <1>3. ui_ui_stack # <<>> /\ ui_issued' = Append(ui_issued, Ui!End(b.id))
    BY <1>2 DEF Ui!finish_block, Ui!buffering, Ui!Innermost
  <1>4. IF outer # <<>>
        THEN ui_ui_stack' = Ui!Push(outer, Ui!Block(b)) /\ UNCHANGED ui_replayed
        ELSE ui_ui_stack' = <<>> /\ ui_replayed' = Ui!Block(b)
    BY <1>1, <1>2 DEF Ui!finish_block, Ui!Innermost, Ui!Outer
  <1>5. ui_ui_stack \in Seq(UiBlock) /\ ui_issued = SaidInAll(ui_ui_stack)
    BY <1>3 DEF UiInv
  <1>6. /\ outer \in Seq(UiBlock) /\ b \in UiBlock
        /\ SaidInAll(outer) \in Seq(Ui!Command)
        /\ SaidInAll(ui_ui_stack) = SaidInAll(outer) \o <<Ui!Begin(b.kind, b.id)>> \o b.commands
    BY <1>1, <1>2, <1>3, <1>5, SaidByTheInnermost
  <1>7. /\ Ui!Block(b) \in Seq(Ui!Command)
        /\ SaidInAll(outer) \o Ui!Block(b)
             = Append(SaidInAll(outer) \o <<Ui!Begin(b.kind, b.id)>> \o b.commands, Ui!End(b.id))
    BY <1>6, EndSays
  <1>8. ui_issued' = SaidInAll(outer) \o Ui!Block(b)
    BY <1>3, <1>5, <1>6, <1>7
  <1>9. ui_issued' \in Seq(Ui!Command)
    BY <1>6, <1>7, <1>8, ConcatProperties
  <1>10. CASE outer # <<>>
    <2>1. PICK pushed : pushed = ui_ui_stack'
      OBVIOUS
    <2>2. pushed = Ui!Push(outer, Ui!Block(b)) /\ UNCHANGED ui_replayed
      BY <1>4, <1>10, <2>1
    <2>3. /\ pushed \in Seq(UiBlock) /\ pushed # <<>>
          /\ SaidInAll(pushed) = SaidInAll(outer) \o Ui!Block(b)
      BY <1>6, <1>7, <1>10, <2>2, PushSays
    <2> QED
      BY <1>8, <1>9, <2>1, <2>2, <2>3 DEF UiInv
  <1>11. CASE outer = <<>>
    <2>1. ui_ui_stack' = <<>> /\ ui_replayed' = Ui!Block(b)
      BY <1>4, <1>11
    <2>2. Len(outer) = 0
      BY <1>11
    <2>3. SaidInAll(outer) = <<>>
      BY <1>6, <2>2, SaidIs DEF SaidInAll
    <2>4. ui_issued' = ui_replayed'
      BY <1>7, <1>8, <2>1, <2>3, ConcatEmptySeq
    <2>5. <<>> \in Seq(UiBlock)
      OBVIOUS
    <2> QED
      BY <1>9, <2>1, <2>4, <2>5 DEF UiInv
  <1> QED
    BY <1>10, <1>11

LEMMA UiStep == ASSUME UiInv, [Ui!Next]_ui_vars PROVE UiInv'
  <1>1. CASE UNCHANGED ui_vars
    BY <1>1 DEF ui_vars, UiInv
  <1>2. CASE Ui!init
    <2>1. /\ ui_ui_stack' = <<>> /\ ui_issued' = <<>> /\ ui_replayed' = <<>>
          /\ <<>> \in Seq(UiBlock) /\ <<>> \in Seq(Ui!Command)
      BY <1>2 DEF Ui!init, Ui!Cleared
    <2> QED
      BY <2>1 DEF UiInv
  <1>3. ASSUME \/ Ui!invoke_callback
               \/ \E kind \in (Ui!Valued \cap Widgets) \ {"combo_box"}, id \in Ids,
                     touched \in BOOLEAN : Ui!set_value(kind, id, touched)
        PROVE  UiInv'
    BY <1>3 DEF Ui!invoke_callback, Ui!set_value, UiInv
  <1> QED
    BY <1>1, <1>2, <1>3, WidgetKeeps, BlockBeginKeeps, FinishKeeps DEF Ui!Next

LEMMA FlatIsSaid == Ui!Flat = Said(ui_ui_stack)
  BY DEF Ui!Flat, Said, AreCommands

\* Every widget stays in its place and in its block, for any ids, widgets and
\* nesting of blocks (buffer_ui_command, finish_block).
THEOREM WidgetsStayInTheirBlocks == Spec => []WidgetsKeepTheirBlock
  <1>1. Init => (focus = "ui" => UiInv)
    BY FocusStart, UiInit
  <1>2. (focus = "ui" => UiInv) /\ [Next]_vars => (focus = "ui" => UiInv)'
    BY FocusStep, UiStep
  <1>3. (focus = "ui" => UiInv) => WidgetsKeepTheirBlock
    BY FlatIsSaid DEF WidgetsKeepTheirBlock, Ui!WidgetsKeepTheirBlock, Ui!buffering,
       UiInv, SaidInAll
  <1> QED
    BY <1>1, <1>2, <1>3, PTL DEF Spec

-----------------------------------------------------------------------------
(* The platformer: the player of a step, and a phase of it.                *)

Riders ==
    [x : Int, y : Int, vx : Int, vy : Int, feet : Int, ground : BOOLEAN,
     on : Physics!Standing \cup {None}]
\* A player on the ground knows the wall under it, and where that is.
Steady ==
    {p \in Riders : p.ground => p.on \in Physics!Standing /\ p.on.at = body_wall[p.on.wall]}
Phases == {"push", "walls", "slopes", "platforms"}

LEMMA PhysicsConstants ==
    /\ Obstacles \in Seq(Physics!WallIds)
    /\ OneWay \subseteq Physics!WallIds /\ Slopes \subseteq Physics!WallIds \ OneWay
    /\ WallPlaces \subseteq Physics!Place /\ Starts \subseteq Physics!Place
    /\ PlayerSpeeds \subseteq Int /\ Gravity \in Int
    /\ HalfWidth \in Nat /\ HalfHeight \in Nat
    /\ WallHalfWidth \in Nat /\ WallHalfHeight \in Nat /\ GROUND_SNAP \in Nat
    /\ None \notin Physics!Place /\ None \notin Physics!Standing
  BY NativeAssumption DEF Physics!PhysicsAssumption

LEMMA WallIsThere ==
    ASSUME Physics!PhysicsInv, NEW w \in Physics!WallIds, body_wall[w] # None
    PROVE  /\ body_wall[w] \in Physics!Place
           /\ body_wall[w].x \in Int /\ body_wall[w].y \in Int /\ Physics!Top(w) \in Int
           /\ [wall |-> w, at |-> body_wall[w]] \in Physics!Standing
  <1>1. body_wall[w] \in Physics!Place
    BY DEF Physics!PhysicsInv
  <1>2. body_wall[w].x \in Int /\ body_wall[w].y \in Int
    BY <1>1 DEF Physics!Place
  <1> QED
    BY <1>1, <1>2, PhysicsConstants DEF Physics!Top, Physics!Standing

LEMMA RiderFields ==
    ASSUME NEW p \in Riders
    PROVE  /\ p = [x |-> p.x, y |-> p.y, vx |-> p.vx, vy |-> p.vy, feet |-> p.feet,
                   ground |-> p.ground, on |-> p.on]
           /\ p.x \in Int /\ p.y \in Int /\ p.vx \in Int /\ p.vy \in Int /\ p.feet \in Int
  BY DEF Riders

LEMMA RiderLifted ==
    ASSUME NEW p \in Riders, NEW there \in Int
    PROVE  /\ [p EXCEPT !.y = there, !.vy = 0] \in Riders
           /\ [p EXCEPT !.vx = 0, !.x = there] \in Riders
  <1>1. PICK q : q = [p EXCEPT !.y = there]
    OBVIOUS
  <1>2. q \in Riders /\ [p EXCEPT !.y = there, !.vy = 0] = [q EXCEPT !.vy = 0]
    BY <1>1 DEF Riders
  <1>3. PICK r : r = [p EXCEPT !.vx = 0]
    OBVIOUS
  <1>4. r \in Riders /\ [p EXCEPT !.vx = 0, !.x = there] = [r EXCEPT !.x = there]
    BY <1>3 DEF Riders
  <1>5. [q EXCEPT !.vy = 0] \in Riders
    BY <1>2 DEF Riders
  <1>6. [r EXCEPT !.x = there] \in Riders
    BY <1>4 DEF Riders
  <1> QED
    BY <1>2, <1>4, <1>5, <1>6

Rested(p, surface, here) ==
    [x |-> p.x, y |-> surface + HalfHeight, vx |-> p.vx, vy |-> 0, feet |-> p.feet,
     ground |-> TRUE, on |-> here]

LEMMA LandRests ==
    ASSUME NEW p \in Riders, NEW surface \in Int, NEW w,
           NEW here \in Physics!Standing, here = [wall |-> w, at |-> body_wall[w]]
    PROVE  /\ Physics!Land(p, w, surface) \in Riders
           /\ Physics!Land(p, w, surface) = Rested(p, surface, here)
  <1>1. PICK y \in Int : y = surface + HalfHeight
    BY PhysicsConstants
  <1>2. PICK q : q = [p EXCEPT !.y = y, !.vy = 0]
    OBVIOUS
  <1>3. PICK r : r = [q EXCEPT !.ground = TRUE]
    OBVIOUS
  <1>4. PICK t : t = [r EXCEPT !.on = here]
    OBVIOUS
  <1>5. t = Physics!Land(p, w, surface)
    BY <1>1, <1>2, <1>3, <1>4 DEF Physics!Land
  <1>6. q \in Riders
    BY <1>2, RiderLifted
  <1>7. r \in Riders
    BY <1>3, <1>6 DEF Riders
  <1>8. t \in Riders
    BY <1>4, <1>7 DEF Riders
  <1>9. /\ q.x = p.x /\ q.y = y /\ q.vx = p.vx /\ q.vy = 0 /\ q.feet = p.feet
    BY <1>2 DEF Riders
  <1>10. /\ t.x = q.x /\ t.y = q.y /\ t.vx = q.vx /\ t.vy = q.vy /\ t.feet = q.feet
         /\ t.ground = TRUE /\ t.on = here
    BY <1>3, <1>4, <1>6 DEF Riders
  <1>11. t = [x |-> p.x, y |-> y, vx |-> p.vx, vy |-> 0, feet |-> p.feet, ground |-> TRUE, on |-> here]
    BY <1>8, <1>9, <1>10, RiderFields
  <1> QED
    BY <1>1, <1>5, <1>8, <1>11 DEF Rested

LEMMA LandIsSteady ==
    ASSUME Physics!PhysicsInv, NEW p \in Riders, NEW w \in Physics!WallIds,
           body_wall[w] # None, NEW surface \in Int
    PROVE  /\ Physics!Land(p, w, surface) \in Steady
           /\ Physics!Land(p, w, surface) =
                Rested(p, surface, [wall |-> w, at |-> body_wall[w]])
  <1>1. PICK here : here = [wall |-> w, at |-> body_wall[w]]
    OBVIOUS
  <1>2. here \in Physics!Standing /\ here.wall = w /\ here.at = body_wall[w]
    BY <1>1, WallIsThere
  <1>3. /\ Physics!Land(p, w, surface) \in Riders
        /\ Physics!Land(p, w, surface) = Rested(p, surface, here)
    BY <1>1, <1>2, LandRests
  <1>4. Physics!Land(p, w, surface).on = here
    BY <1>3 DEF Rested
  <1> QED
    BY <1>1, <1>2, <1>3, <1>4 DEF Steady

LEMMA SlopeSurfaceIsOnTheWall ==
    ASSUME Physics!PhysicsInv, NEW w \in Physics!WallIds, body_wall[w] # None, NEW at \in Int
    PROVE  /\ Physics!SlopeSurface(w, at) \in Int
           /\ body_wall[w].y - WallHalfHeight <= Physics!SlopeSurface(w, at)
           /\ Physics!SlopeSurface(w, at) <= Physics!Top(w)
  <1>1. PICK along : along = at - (body_wall[w].x - WallHalfWidth)
    OBVIOUS
  <1>2. PICK rise : rise = CASE along < 0 -> 0
                             [] along > 2 * WallHalfWidth -> 2 * WallHalfWidth
                             [] OTHER -> along
    OBVIOUS
  <1>3. along \in Int
    BY <1>1, WallIsThere, PhysicsConstants
  <1>4. rise \in Nat
    BY <1>2, <1>3, PhysicsConstants
  <1>5. Physics!SlopeSurface(w, at) =
          IF rise > 2 * WallHalfHeight THEN Physics!Top(w) ELSE body_wall[w].y - WallHalfHeight + rise
    BY <1>1, <1>2 DEF Physics!SlopeSurface
  <1>6. body_wall[w].y \in Int /\ Physics!Top(w) = body_wall[w].y + WallHalfHeight
    BY WallIsThere DEF Physics!Top
  <1>7. CASE rise > 2 * WallHalfHeight
    BY <1>5, <1>6, <1>7, PhysicsConstants
  <1>8. CASE ~(rise > 2 * WallHalfHeight)
    BY <1>4, <1>5, <1>6, <1>8, PhysicsConstants
  <1> QED
    BY <1>7, <1>8

LEMMA MeetIsSteady ==
    ASSUME Physics!PhysicsInv, NEW phase \in Phases, NEW p \in Steady,
           NEW w \in Physics!WallIds, body_wall[w] # None
    PROVE  Physics!Meet(phase, p, w) \in Steady
  <1>1. /\ p \in Riders /\ p.x \in Int /\ p.y \in Int /\ p.vx \in Int
        /\ p.ground => p.on \in Physics!Standing /\ p.on.at = body_wall[p.on.wall]
    BY DEF Steady, Riders
  <1>2. CASE phase = "push"
    <2>1. CASE ~Physics!Overlaps(p, w)
      BY <1>2, <2>1 DEF Physics!Meet, Physics!PushOut
    <2>2. CASE Physics!Overlaps(p, w)
      <3>1. PICK there : there = CASE p.vx > 0 -> body_wall[w].x - WallHalfWidth - HalfWidth
                                   [] p.vx < 0 -> body_wall[w].x + WallHalfWidth + HalfWidth
                                   [] p.vx = 0 -> p.x
        OBVIOUS
      <3>2. there \in Int
        <4>1. body_wall[w].x \in Int
          BY WallIsThere
        <4>2. /\ body_wall[w].x - WallHalfWidth - HalfWidth \in Int
              /\ body_wall[w].x + WallHalfWidth + HalfWidth \in Int
          BY <4>1, PhysicsConstants
        <4> QED
          BY <1>1, <3>1, <4>2
      <3>3. Physics!Meet(phase, p, w) = [p EXCEPT !.vx = 0, !.x = there]
        BY <1>2, <2>2, <3>1 DEF Physics!Meet, Physics!PushOut
      <3> QED
        <4>1. PICK q : q = [p EXCEPT !.vx = 0, !.x = there]
          OBVIOUS
        <4>2. q \in Riders /\ q.ground = p.ground /\ q.on = p.on
          BY <1>1, <3>2, <4>1, RiderLifted DEF Riders
        <4> QED
          BY <1>1, <3>3, <4>1, <4>2 DEF Steady
    <2> QED
      BY <2>1, <2>2
  <1>3. CASE phase = "walls"
    <2>1. PICK under : under = body_wall[w].y - WallHalfHeight - HalfHeight
      OBVIOUS
    <2>2. under \in Int
      BY <2>1, WallIsThere, PhysicsConstants
    <2>3. [p EXCEPT !.y = under, !.vy = 0] \in Steady
      <3>1. PICK q : q = [p EXCEPT !.y = under, !.vy = 0]
        OBVIOUS
      <3>2. q \in Riders /\ q.ground = p.ground /\ q.on = p.on
        BY <1>1, <2>2, <3>1, RiderLifted DEF Riders
      <3> QED
        BY <1>1, <3>1, <3>2 DEF Steady
    <2>4. Physics!Land(p, w, Physics!Top(w)) \in Steady
      BY <1>1, WallIsThere, LandIsSteady
    <2> QED
      BY <1>3, <2>1, <2>3, <2>4 DEF Physics!Meet, Physics!LandOnWall
  <1>4. CASE phase = "slopes"
    <2>1. Physics!Land(p, w, Physics!SlopeSurface(w, p.x)) \in Steady
      BY <1>1, SlopeSurfaceIsOnTheWall, LandIsSteady
    <2> QED
      BY <1>4, <2>1 DEF Physics!Meet, Physics!LandOnSlope
  <1>5. CASE phase = "platforms"
    <2>1. Physics!Land(p, w, Physics!Top(w)) \in Steady
      BY <1>1, WallIsThere, LandIsSteady
    <2> QED
      BY <1>5, <2>1 DEF Physics!Meet, Physics!LandOnPlatform
  <1> QED
    BY <1>2, <1>3, <1>4, <1>5 DEF Phases

\* What Through goes through.
AreAfter(f, phase, p) ==
    f = [n \in Nat |->
           IF n = 0 THEN p
           ELSE IF Physics!HasBox(phase, n) THEN Physics!Meet(phase, f[n - 1], Obstacles[n])
           ELSE f[n - 1]]

Passes(f, phase, p) ==
    /\ f \in [Nat -> Steady] /\ f[0] = p
    /\ \A n \in Nat :
          f[n + 1] = IF Physics!HasBox(phase, n + 1) THEN Physics!Meet(phase, f[n], Obstacles[n + 1])
                     ELSE f[n]
    /\ Physics!Through(phase, p) = f[Len(Obstacles)]

LEMMA BoxIsThere ==
    ASSUME NEW phase, NEW n, Physics!HasBox(phase, n)
    PROVE  Obstacles[n] \in Physics!WallIds /\ body_wall[Obstacles[n]] # None
  BY PhysicsConstants DEF Physics!HasBox

LEMMA PhasePasses ==
    ASSUME Physics!PhysicsInv, NEW phase \in Phases, NEW p \in Steady
    PROVE  \E f : Passes(f, phase, p)
  <1>1. PICK S : S = Steady
    OBVIOUS
  <1>2. PICK G : G = [m \in Nat \X S |->
                        IF Physics!HasBox(phase, m[1]) THEN Physics!Meet(phase, m[2], Obstacles[m[1]])
                        ELSE m[2]]
    OBVIOUS
  <1>3. ASSUME NEW n \in Nat, NEW q \in S
        PROVE  (IF Physics!HasBox(phase, n) THEN Physics!Meet(phase, q, Obstacles[n]) ELSE q) \in S
    BY <1>1, BoxIsThere, MeetIsSteady
  <1>4. /\ G \in [Nat \X S -> S]
        /\ \A n \in Nat, q \in S :
              G[<<n, q>>] = IF Physics!HasBox(phase, n) THEN Physics!Meet(phase, q, Obstacles[n]) ELSE q
    BY <1>2, <1>3
  <1>5. PICK f : Repeats(f, S, p, G)
    BY <1>1, <1>4, RecursionExists
  <1>6. /\ f \in [Nat -> S] /\ f[0] = p
        /\ \A n \in Nat : f[n + 1] = G[<<n + 1, f[n]>>]
    BY <1>5 DEF Repeats
  <1>7. ASSUME NEW n \in Nat
        PROVE  f[n] = IF n = 0 THEN p
                      ELSE IF Physics!HasBox(phase, n) THEN Physics!Meet(phase, f[n - 1], Obstacles[n])
                      ELSE f[n - 1]
    <2>1. CASE n = 0
      BY <1>6, <2>1
    <2>2. CASE n # 0
      <3>1. n - 1 \in Nat /\ (n - 1) + 1 = n
        BY <2>2
      <3>2. f[n] = G[<<n, f[n - 1]>>] /\ f[n - 1] \in S
        BY <1>6, <3>1
      <3> QED
        BY <1>4, <2>2, <3>2
    <2> QED
      BY <2>1, <2>2
  <1>8. f = [n \in Nat |-> f[n]]
    BY <1>6
  <1>9. AreAfter(f, phase, p)
    BY <1>7, <1>8 DEF AreAfter
  <1>10. PICK g : g = CHOOSE h : AreAfter(h, phase, p)
    OBVIOUS
  <1>11. AreAfter(g, phase, p)
    BY <1>9, <1>10
  <1>12. Physics!Through(phase, p) = g[Len(Obstacles)]
    BY <1>10 DEF Physics!Through, AreAfter
  <1>13. g[0] = p
    BY <1>11 DEF AreAfter
  <1>14. ASSUME NEW n \in Nat
         PROVE  g[n + 1] = IF Physics!HasBox(phase, n + 1)
                           THEN Physics!Meet(phase, g[n], Obstacles[n + 1]) ELSE g[n]
    <2>1. n + 1 \in Nat /\ n + 1 # 0 /\ (n + 1) - 1 = n
      OBVIOUS
    <2> QED
      BY <1>11, <2>1 DEF AreAfter
  <1>15. \A n \in Nat : g[n] \in Steady
    <2>1. PICK T : T = {n \in Nat : g[n] \in Steady}
      OBVIOUS
    <2>2. 0 \in T
      BY <1>13, <2>1
    <2>3. ASSUME NEW n \in Nat, n \in T PROVE n + 1 \in T
      <3>1. g[n] \in S /\ n + 1 \in Nat
        BY <1>1, <2>1, <2>3
      <3> QED
        BY <1>1, <1>14, <2>1, <3>1, BoxIsThere, MeetIsSteady
    <2>4. \A n \in Nat : n \in T
      BY <2>2, <2>3, Induction
    <2> QED
      BY <2>1, <2>4
  <1>16. g \in [Nat -> Steady]
    <2>1. g = [n \in Nat |-> g[n]]
      BY <1>11 DEF AreAfter
    <2> QED
      BY <1>15, <2>1
  <1> QED
    BY <1>12, <1>13, <1>14, <1>16 DEF Passes

-----------------------------------------------------------------------------
(* The platformer: a step keeps the invariant.                             *)

LEMMA PhaseIsSteady ==
    ASSUME Physics!PhysicsInv, NEW phase \in Phases, NEW p \in Steady
    PROVE  Physics!Through(phase, p) \in Steady
  <1>1. PICK f : Passes(f, phase, p)
    BY PhasePasses
  <1>2. Len(Obstacles) \in Nat
    BY PhysicsConstants
  <1> QED
    BY <1>1, <1>2 DEF Passes

\* The player of a step, where the carry has left it.
Carrying(a, b) ==
    [x |-> a, y |-> b, vx |-> body_vx, vy |-> body_vy, feet |-> b - HalfHeight,
     ground |-> FALSE, on |-> None]

LEMMA StepCarries ==
    ASSUME Physics!PhysicsInv
    PROVE  \E a, b \in Int :
              /\ Physics!Stepped = Physics!Fallen(Physics!Walked(Carrying(a, b)))
              /\ body_on_ground /\ body_wall[body_standing_on.wall] # None =>
                   /\ a = body_x + body_wall[body_standing_on.wall].x - body_standing_on.at.x
                   /\ b = body_y + body_wall[body_standing_on.wall].y - body_standing_on.at.y
  <1>1. PICK start : start = [x |-> body_x, y |-> body_y, vx |-> body_vx, vy |-> body_vy, feet |-> 0,
                              ground |-> FALSE, on |-> None]
    OBVIOUS
  <1>2. PICK carried : carried = Physics!Carried(start)
    OBVIOUS
  <1>3. PICK c : c = [carried EXCEPT !.feet = carried.y - HalfHeight]
    OBVIOUS
  <1>4. Physics!Stepped = Physics!Fallen(Physics!Walked(c))
    BY <1>1, <1>2, <1>3 DEF Physics!Stepped
  <1>5. body_x \in Int /\ body_y \in Int
    BY DEF Physics!PhysicsInv
  <1>6. CASE body_on_ground /\ body_standing_on # None /\ body_wall[body_standing_on.wall] # None
    <2>1. PICK w : w = body_standing_on.wall
      OBVIOUS
    <2>2. body_standing_on \in Physics!Standing
      BY <1>6 DEF Physics!PhysicsInv
    <2>3. w \in Physics!WallIds /\ body_standing_on.at.x \in Int /\ body_standing_on.at.y \in Int
      BY <2>1, <2>2 DEF Physics!Standing, Physics!Place
    <2>4. body_wall[w].x \in Int /\ body_wall[w].y \in Int
      BY <1>6, <2>1, <2>3, WallIsThere
    <2>5. PICK a : a = body_x + body_wall[w].x - body_standing_on.at.x
      OBVIOUS
    <2>6. PICK b : b = body_y + body_wall[w].y - body_standing_on.at.y
      OBVIOUS
    <2>7. a \in Int /\ b \in Int
      BY <1>5, <2>3, <2>4, <2>5, <2>6
    <2>8. carried = [x |-> a, y |-> b, vx |-> body_vx, vy |-> body_vy, feet |-> 0,
                     ground |-> FALSE, on |-> None]
      BY <1>1, <1>2, <1>6, <2>1, <2>5, <2>6 DEF Physics!Carried
    <2>9. c = Carrying(a, b)
      BY <1>3, <2>8 DEF Carrying
    <2> QED
      BY <1>4, <2>1, <2>5, <2>6, <2>7, <2>9
  <1>7. CASE ~(body_on_ground /\ body_standing_on # None /\ body_wall[body_standing_on.wall] # None)
    <2>1. carried = start
      BY <1>2, <1>7 DEF Physics!Carried
    <2>2. c = Carrying(body_x, body_y)
      BY <1>1, <1>3, <2>1 DEF Carrying
    <2>3. ~(body_on_ground /\ body_wall[body_standing_on.wall] # None)
      BY <1>7, PhysicsConstants DEF Physics!PhysicsInv
    <2> QED
      BY <1>4, <1>5, <2>2, <2>3
  <1> QED
    BY <1>6, <1>7

LEMMA StepIsSteady == ASSUME Physics!PhysicsInv PROVE Physics!Stepped \in Steady
  <1>1. PICK a \in Int, b \in Int :
           Physics!Stepped = Physics!Fallen(Physics!Walked(Carrying(a, b)))
    BY StepCarries
  <1>2. PICK c : c = Carrying(a, b)
    OBVIOUS
  <1>3. c \in Steady /\ c.vx \in Int
    <2>1. b - HalfHeight \in Int /\ body_vx \in Int /\ body_vy \in Int
      BY PhysicsConstants DEF Physics!PhysicsInv
    <2> QED
      BY <1>2, <2>1 DEF Carrying, Steady, Riders
  <1>4. PICK w : w = Physics!Walked(c)
    OBVIOUS
  <1>5. w \in Steady
    <2>1. PICK q : q = [c EXCEPT !.x = @ + c.vx]
      OBVIOUS
    <2>2. q \in Riders /\ ~q.ground
      <3>1. c \in Riders /\ ~c.ground /\ c.x \in Int
        BY <1>2, <1>3 DEF Steady, Riders, Carrying
      <3>2. PICK there : there = c.x + c.vx
        OBVIOUS
      <3>3. there \in Int /\ q = [c EXCEPT !.x = there]
        BY <1>3, <2>1, <3>1, <3>2
      <3> QED
        BY <3>1, <3>3 DEF Riders
    <2>3. q \in Steady /\ "push" \in Phases
      BY <2>2 DEF Steady, Phases
    <2>4. w = Physics!Through("push", q)
      BY <1>4, <2>1 DEF Physics!Walked
    <2> QED
      BY <2>3, <2>4, PhaseIsSteady
  <1>6. PICK falls : falls = [w EXCEPT !.vy = @ - Gravity, !.y = @ + w.vy - Gravity]
    OBVIOUS
  <1>7. falls \in Steady
    <2>1. w \in Riders
      BY <1>5 DEF Steady
    <2>2. w.y \in Int /\ w.vy \in Int
      BY <2>1, RiderFields
    <2>3. PICK speed : speed = w.vy - Gravity
      OBVIOUS
    <2>4. PICK there : there = w.y + w.vy - Gravity
      OBVIOUS
    <2>5. speed \in Int /\ there \in Int
      BY <2>2, <2>3, <2>4, PhysicsConstants
    <2>6. PICK q : q = [w EXCEPT !.vy = speed]
      OBVIOUS
    <2>7. q \in Riders /\ q.y = w.y /\ q.ground = w.ground /\ q.on = w.on
      BY <2>1, <2>5, <2>6 DEF Riders
    <2>8. falls = [q EXCEPT !.y = there]
      BY <1>6, <2>1, <2>3, <2>4, <2>6 DEF Riders
    <2>9. falls \in Riders /\ falls.ground = q.ground /\ falls.on = q.on
      BY <2>5, <2>7, <2>8 DEF Riders
    <2> QED
      BY <1>5, <2>7, <2>9 DEF Steady
  <1>8. Physics!Fallen(w) = Physics!Through("platforms", Physics!Through("slopes", Physics!Through("walls", falls)))
    BY <1>6 DEF Physics!Fallen
  <1>9. {"walls", "slopes", "platforms"} \subseteq Phases
    BY DEF Phases
  <1>10. Physics!Through("walls", falls) \in Steady
    BY <1>7, <1>9, PhaseIsSteady
  <1>11. Physics!Through("slopes", Physics!Through("walls", falls)) \in Steady
    BY <1>9, <1>10, PhaseIsSteady
  <1> QED
    BY <1>1, <1>2, <1>4, <1>8, <1>9, <1>11, PhaseIsSteady

LEMMA PhysicsInit == ASSUME Physics!Init PROVE Physics!PhysicsInv
  <1>1. body_x \in Int /\ body_y \in Int
    BY PhysicsConstants DEF Physics!Init, Physics!Place
  <1> QED
    BY <1>1, PhysicsConstants DEF Physics!Init, Physics!PhysicsInv

LEMMA PhysicsStep ==
    ASSUME Physics!PhysicsInv, [Physics!Next]_body_vars
    PROVE  Physics!PhysicsInv'
  <1>1. CASE UNCHANGED body_vars
    BY <1>1 DEF body_vars, Physics!PhysicsInv
  <1>2. ASSUME NEW w \in Physics!WallIds, NEW place \in WallPlaces \cup {None},
               Physics!move_wall(w, place)
        PROVE  Physics!PhysicsInv'
    BY <1>2, PhysicsConstants DEF Physics!move_wall, Physics!PhysicsInv, Physics!player
  <1>3. ASSUME NEW dx \in PlayerSpeeds, NEW dy \in PlayerSpeeds, Physics!set_velocity(dx, dy)
        PROVE  Physics!PhysicsInv'
    BY <1>3, PhysicsConstants DEF Physics!set_velocity, Physics!PhysicsInv
  <1>4. ASSUME NEW place \in Starts, Physics!set_player_pos(place)
        PROVE  Physics!PhysicsInv'
    <2>1. place.x \in Int /\ place.y \in Int
      BY PhysicsConstants DEF Physics!Place
    <2> QED
      BY <1>4, <2>1 DEF Physics!set_player_pos, Physics!PhysicsInv
  <1>5. ASSUME NEW speed \in PlayerSpeeds, Physics!jump_player(speed)
        PROVE  Physics!PhysicsInv'
    BY <1>5, PhysicsConstants DEF Physics!jump_player, Physics!PhysicsInv
  <1>6. ASSUME Physics!update_physics PROVE Physics!PhysicsInv'
    <2>1. PICK p : p = Physics!Stepped
      OBVIOUS
    <2>2. p \in Steady
      BY <2>1, StepIsSteady
    <2>3. p.x \in Int /\ p.y \in Int /\ p.vx \in Int /\ p.vy \in Int
      BY <2>2 DEF Steady, Riders
    <2>4. /\ body_x' = p.x /\ body_y' = p.y /\ body_vx' = p.vx /\ body_vy' = p.vy
          /\ body_on_ground' = p.ground /\ body_standing_on' = p.on
          /\ body_ridden' = IF p.ground THEN body_wall[p.on.wall] ELSE None
          /\ UNCHANGED body_wall
      BY <1>6, <2>1 DEF Physics!update_physics
    <2>5. p.ground => p.on \in Physics!Standing /\ p.on.at = body_wall[p.on.wall]
      BY <2>2 DEF Steady
    <2> QED
      BY <2>3, <2>4, <2>5 DEF Physics!PhysicsInv
  <1> QED
    BY <1>1, <1>2, <1>3, <1>4, <1>5, <1>6 DEF Physics!Next

-----------------------------------------------------------------------------
(* The platformer: a rider stays on its platform.                          *)

\* A phase that does nothing to a player, wall by wall.
LEMMA PhaseKeeps ==
    ASSUME Physics!PhysicsInv, NEW phase \in Phases, NEW p \in Steady,
           \A n : Physics!HasBox(phase, n) => Physics!Meet(phase, p, Obstacles[n]) = p
    PROVE  Physics!Through(phase, p) = p
  <1>1. PICK f : Passes(f, phase, p)
    BY PhasePasses
  <1>2. PICK T : T = {n \in Nat : f[n] = p}
    OBVIOUS
  <1>3. 0 \in T
    BY <1>1, <1>2 DEF Passes
  <1>4. ASSUME NEW n \in Nat, n \in T PROVE n + 1 \in T
    BY <1>1, <1>2, <1>4 DEF Passes
  <1>5. \A n \in Nat : n \in T
    BY <1>3, <1>4, Induction
  <1>6. Len(Obstacles) \in Nat
    BY PhysicsConstants
  <1> QED
    BY <1>1, <1>2, <1>5, <1>6 DEF Passes

\* A phase in which a player p comes to rest on w, as r.
Catches(phase, p, r, w) ==
    \A n : Physics!HasBox(phase, n) =>
      /\ Physics!Meet(phase, r, Obstacles[n]) = r
      /\ Physics!Meet(phase, p, Obstacles[n]) = IF Obstacles[n] = w THEN r ELSE p

LEMMA PhaseCatches ==
    ASSUME Physics!PhysicsInv, NEW phase \in Phases, NEW p \in Steady, NEW r, NEW w,
           Catches(phase, p, r, w), NEW m, Physics!HasBox(phase, m), Obstacles[m] = w
    PROVE  Physics!Through(phase, p) = r
  <1>1. PICK f : Passes(f, phase, p)
    BY PhasePasses
  <1>2. Len(Obstacles) \in Nat /\ DOMAIN Obstacles = 1 .. Len(Obstacles)
    BY PhysicsConstants
  <1>3. m \in 1 .. Len(Obstacles)
    BY <1>2 DEF Physics!HasBox
  <1>4. PICK T : T = {n \in Nat : f[n] = r \/ (f[n] = p /\ n < m)}
    OBVIOUS
  <1>5. 0 \in T
    BY <1>1, <1>3, <1>4 DEF Passes
  <1>6. ASSUME NEW n \in Nat, n \in T PROVE n + 1 \in T
    <2>1. f[n + 1] = IF Physics!HasBox(phase, n + 1) THEN Physics!Meet(phase, f[n], Obstacles[n + 1])
                     ELSE f[n]
      BY <1>1 DEF Passes
    <2>2. CASE f[n] = r
      BY <1>4, <2>1, <2>2 DEF Catches
    <2>3. CASE f[n] = p /\ n < m
      <3>1. CASE n + 1 = m
        <4>1. f[n + 1] = r
          BY <2>1, <2>3, <3>1 DEF Catches
        <4> QED
          BY <1>4, <4>1
      <3>2. CASE n + 1 # m
        <4>1. n + 1 < m
          BY <1>3, <2>3, <3>2
        <4>2. f[n + 1] = r \/ f[n + 1] = p
          BY <2>1, <2>3 DEF Catches
        <4> QED
          BY <1>4, <4>1, <4>2
      <3> QED
        BY <3>1, <3>2
    <2> QED
      BY <1>4, <1>6, <2>2, <2>3
  <1>7. \A n \in Nat : n \in T
    BY <1>5, <1>6, Induction
  <1>8. f[Len(Obstacles)] = r
    BY <1>2, <1>3, <1>4, <1>7
  <1> QED
    BY <1>1, <1>8 DEF Passes

\* The player is at a, and at b or one fall below it; it meets no wall there.
Near(p, a, b) ==
    p.x = a /\ (p.y = b \/ p.y = b - Gravity) /\ p.feet = b - HalfHeight
Clear(v, a, b) ==
    /\ ~Physics!Overlaps([x |-> a, y |-> b], v)
    /\ ~Physics!Overlaps([x |-> a, y |-> b - Gravity], v)

LEMMA ClearWalls ==
    ASSUME Physics!PhysicsInv, Physics!ShortSteps, NEW v \in Physics!WallIds, body_wall[v] # None,
           NEW a \in Int, NEW b \in Int, Clear(v, a, b), NEW p, Near(p, a, b),
           NEW phase \in Phases
    PROVE  Physics!Meet(phase, p, v) = p
  <1>1. ~Physics!Overlaps(p, v)
    BY DEF Near, Clear, Physics!Overlaps, Physics!Beside
  <1>2. phase \in {"push", "walls", "platforms"} => Physics!Meet(phase, p, v) = p
    BY <1>1 DEF Physics!Meet, Physics!PushOut, Physics!LandOnWall, Physics!LandOnPlatform
  <1>3. CASE phase = "slopes"
    <2>1. PICK surface : surface = Physics!SlopeSurface(v, p.x)
      OBVIOUS
    <2>2. PICK c : c = body_wall[v].y
      OBVIOUS
    <2>3. /\ surface \in Int /\ c \in Int
          /\ c - WallHalfHeight <= surface /\ surface <= c + WallHalfHeight
      BY <2>1, <2>2, SlopeSurfaceIsOnTheWall, WallIsThere DEF Near, Physics!Top
    <2>4. CASE ~Physics!Beside(p, v)
      BY <1>3, <2>4 DEF Physics!Meet, Physics!LandOnSlope
    <2>5. CASE Physics!Beside(p, v)
      <3>1. /\ ~(Physics!Abs(b - c) <= HalfHeight + WallHalfHeight)
            /\ ~(Physics!Abs(b - Gravity - c) <= HalfHeight + WallHalfHeight)
        BY <2>2, <2>5 DEF Near, Clear, Physics!Overlaps, Physics!Beside
      <3>2. /\ b - c > HalfHeight + WallHalfHeight \/ c - b > HalfHeight + WallHalfHeight
            /\ \/ b - Gravity - c > HalfHeight + WallHalfHeight
               \/ c - (b - Gravity) > HalfHeight + WallHalfHeight
        <4>1. HalfHeight + WallHalfHeight \in Nat /\ b - c \in Int /\ b - Gravity - c \in Int
          BY <2>3, PhysicsConstants
        <4>2. \A n \in Int, m \in Nat : ~(Physics!Abs(n) <= m) => n > m \/ -n > m
          BY DEF Physics!Abs
        <4>3. (b - c > HalfHeight + WallHalfHeight \/ -(b - c) > HalfHeight + WallHalfHeight)
          BY <3>1, <4>1, <4>2
        <4>4. \/ b - Gravity - c > HalfHeight + WallHalfHeight
              \/ -(b - Gravity - c) > HalfHeight + WallHalfHeight
          BY <3>1, <4>1, <4>2
        <4> QED
          BY <2>3, <4>3, <4>4, PhysicsConstants
      <3>3. Gravity \in 0 .. HalfHeight + WallHalfHeight /\ GROUND_SNAP <= 2 * HalfHeight
        BY DEF Physics!ShortSteps
      <3>4. p.y - HalfHeight > surface \/ ~(p.feet >= surface - GROUND_SNAP)
        <4>1. CASE c - b > HalfHeight + WallHalfHeight
          <5>1. ~(b - HalfHeight >= surface - GROUND_SNAP)
            BY <2>3, <3>3, <4>1, PhysicsConstants
          <5> QED
            BY <5>1 DEF Near
        <4>2. CASE b - c > HalfHeight + WallHalfHeight
          <5>1. b - Gravity - c > HalfHeight + WallHalfHeight
            BY <2>3, <3>2, <3>3, <4>2, PhysicsConstants
          <5>2. b - HalfHeight > surface /\ (b - Gravity) - HalfHeight > surface
            BY <2>3, <4>2, <5>1, PhysicsConstants
          <5> QED
            BY <5>2 DEF Near
        <4> QED
          BY <3>2, <4>1, <4>2
      <3>5. p.y \in Int /\ HalfHeight \in Int
        BY PhysicsConstants DEF Near
      <3>6. ~(p.y - HalfHeight <= surface /\ p.feet >= surface - GROUND_SNAP)
        BY <2>3, <3>4, <3>5
      <3> QED
        BY <1>3, <2>1, <3>6 DEF Physics!Meet, Physics!LandOnSlope
    <2> QED
      BY <2>4, <2>5
  <1> QED
    BY <1>2, <1>3 DEF Phases

\* The player on its platform: carried, falling, and landed.
Taken(a, b, vy, ground, on) ==
    [x |-> a, y |-> b, vx |-> 0, vy |-> vy, feet |-> b - HalfHeight, ground |-> ground, on |-> on]
Falling(a, b) ==
    [x |-> a, y |-> b - Gravity, vx |-> 0, vy |-> -Gravity, feet |-> b - HalfHeight,
     ground |-> FALSE, on |-> None]
Here(w) == [wall |-> w, at |-> body_wall[w]]

\* The platform w is under the player.
Under(w, a, b) ==
    /\ b = body_wall[w].y + WallHalfHeight + HalfHeight
    /\ Physics!Abs(a - body_wall[w].x) <= HalfWidth + WallHalfWidth

LEMMA OwnWall ==
    ASSUME Physics!PhysicsInv, Physics!ShortSteps, NEW w \in Physics!WallIds, body_wall[w] # None,
           NEW a \in Int, NEW b \in Int, Under(w, a, b)
    PROVE  /\ Physics!PushOut(Taken(a, b, 0, FALSE, None), w) = Taken(a, b, 0, FALSE, None)
           /\ Physics!LandOnWall(Falling(a, b), w) = Taken(a, b, 0, TRUE, Here(w))
           /\ Physics!LandOnWall(Taken(a, b, 0, TRUE, Here(w)), w) = Taken(a, b, 0, TRUE, Here(w))
           /\ Physics!LandOnPlatform(Falling(a, b), w) = Taken(a, b, 0, TRUE, Here(w))
           /\ Physics!LandOnPlatform(Taken(a, b, 0, TRUE, Here(w)), w) = Taken(a, b, 0, TRUE, Here(w))
  <1>1. PICK c : c = body_wall[w].y
    OBVIOUS
  <1>2. c \in Int /\ Physics!Top(w) = c + WallHalfHeight /\ b = c + WallHalfHeight + HalfHeight
    BY <1>1, WallIsThere DEF Under, Physics!Top
  <1>3. /\ Physics!Abs(b - c) <= HalfHeight + WallHalfHeight
        /\ Physics!Abs(b - Gravity - c) <= HalfHeight + WallHalfHeight
    <2>1. \A n \in Int, m \in Nat : n <= m /\ 0 <= n => Physics!Abs(n) <= m
      BY DEF Physics!Abs
    <2>2. /\ HalfHeight + WallHalfHeight \in Nat /\ b - c \in Int /\ b - Gravity - c \in Int
          /\ b - c <= HalfHeight + WallHalfHeight /\ 0 <= b - c
          /\ b - Gravity - c <= HalfHeight + WallHalfHeight /\ 0 <= b - Gravity - c
      BY <1>2, PhysicsConstants DEF Physics!ShortSteps
    <2> QED
      BY <2>1, <2>2
  <1>4. PICK r : r = Taken(a, b, 0, TRUE, Here(w))
    OBVIOUS
  <1>5. PICK f : f = Falling(a, b)
    OBVIOUS
  <1>6. PICK t : t = Taken(a, b, 0, FALSE, None)
    OBVIOUS
  <1>7. /\ t.x = a /\ t.y = b /\ t.vx = 0
        /\ r.x = a /\ r.y = b /\ r.vx = 0 /\ r.vy = 0 /\ r.feet = b - HalfHeight
        /\ f.x = a /\ f.y = b - Gravity /\ f.vx = 0 /\ f.vy = -Gravity /\ f.feet = b - HalfHeight
    BY <1>4, <1>5, <1>6 DEF Taken, Falling
  <1>8. Physics!Overlaps(t, w) /\ Physics!Overlaps(r, w) /\ Physics!Overlaps(f, w)
    BY <1>1, <1>3, <1>7 DEF Physics!Overlaps, Physics!Beside, Under
  <1>9. r \in Riders /\ f \in Riders
    <2>1. b - HalfHeight \in Int /\ b - Gravity \in Int /\ -Gravity \in Int /\ 0 \in Int
      BY PhysicsConstants
    <2>2. Here(w) \in Physics!Standing
      BY WallIsThere DEF Here
    <2> QED
      BY <1>4, <1>5, <2>1, <2>2 DEF Taken, Falling, Riders
  <1>10. Physics!Top(w) \in Int /\ Physics!Top(w) + HalfHeight = b
    BY <1>2, PhysicsConstants
  <1>11. Physics!Land(r, w, Physics!Top(w)) = r /\ Physics!Land(f, w, Physics!Top(w)) = r
    <2>1. /\ Physics!Land(r, w, Physics!Top(w)) = Rested(r, Physics!Top(w), Here(w))
          /\ Physics!Land(f, w, Physics!Top(w)) = Rested(f, Physics!Top(w), Here(w))
      BY <1>9, <1>10, LandIsSteady DEF Here
    <2>2. /\ Rested(r, Physics!Top(w), Here(w)) = r
          /\ Rested(f, Physics!Top(w), Here(w)) = r
      BY <1>4, <1>7, <1>10 DEF Rested, Taken
    <2> QED
      BY <2>1, <2>2
  <1>12. /\ r.vy <= 0 /\ f.vy <= 0 /\ r.y >= c /\ f.y >= c
         /\ r.feet >= Physics!Top(w) - GROUND_SNAP /\ f.feet >= Physics!Top(w) - GROUND_SNAP
    BY <1>2, <1>7, PhysicsConstants DEF Physics!ShortSteps
  <1>13. Physics!LandOnWall(r, w) = r /\ Physics!LandOnWall(f, w) = r
    <2>1. Physics!LandOnWall(r, w) = Physics!Land(r, w, Physics!Top(w))
      BY <1>1, <1>2, <1>7, <1>8, <1>12 DEF Physics!LandOnWall
    <2>2. Physics!LandOnWall(f, w) = Physics!Land(f, w, Physics!Top(w))
      BY <1>1, <1>2, <1>7, <1>8, <1>12, PhysicsConstants DEF Physics!LandOnWall, Physics!ShortSteps
    <2> QED
      BY <1>11, <2>1, <2>2
  <1>14. Physics!LandOnPlatform(r, w) = r /\ Physics!LandOnPlatform(f, w) = r
    BY <1>8, <1>11, <1>12 DEF Physics!LandOnPlatform
  <1>15. Physics!PushOut(t, w) = t
    <2>1. Physics!PushOut(t, w) = [t EXCEPT !.vx = 0, !.x = t.x]
      <3>1. Physics!PushOut(t, w) =
              [t EXCEPT !.vx = 0,
                        !.x = CASE t.vx > 0 -> body_wall[w].x - WallHalfWidth - HalfWidth
                                [] t.vx < 0 -> body_wall[w].x + WallHalfWidth + HalfWidth
                                [] t.vx = 0 -> t.x]
        BY <1>6, <1>8 DEF Physics!PushOut, Taken
      <3>2. (CASE t.vx > 0 -> body_wall[w].x - WallHalfWidth - HalfWidth
               [] t.vx < 0 -> body_wall[w].x + WallHalfWidth + HalfWidth
               [] t.vx = 0 -> t.x) = t.x
        BY <1>7
      <3> QED
        BY <3>1, <3>2
    <2> QED
      BY <1>6, <2>1 DEF Taken
  <1> QED
    BY <1>4, <1>5, <1>6, <1>13, <1>14, <1>15

\* Without a velocity the walk goes nowhere and the fall is one of gravity.
LEMMA TakenMoves ==
    ASSUME NEW a \in Int, NEW b \in Int, NEW c, c = Taken(a, b, 0, FALSE, None)
    PROVE  /\ [c EXCEPT !.x = @ + c.vx] = c
           /\ [c EXCEPT !.vy = @ - Gravity, !.y = @ + c.vy - Gravity] = Falling(a, b)
  <1>1. c.x = a /\ c.vx = 0 /\ c.x + c.vx = a
    BY DEF Taken
  <1>2. c.vy = 0 /\ c.y = b /\ c.vy - Gravity = -Gravity /\ c.y + c.vy - Gravity = b - Gravity
    BY PhysicsConstants DEF Taken
  <1>3. [c EXCEPT !.x = @ + c.vx] = [c EXCEPT !.x = a]
    BY <1>1
  <1>4. [c EXCEPT !.x = a] = c
    <2>1. PICK q : q = [c EXCEPT !.x = a]
      OBVIOUS
    <2>2. c \in Riders
      <3>1. b - HalfHeight \in Int /\ 0 \in Int
        BY PhysicsConstants
      <3> QED
        BY <3>1 DEF Taken, Riders
    <2>3. /\ q \in Riders /\ q.x = c.x /\ q.y = c.y /\ q.vx = c.vx /\ q.vy = c.vy
          /\ q.feet = c.feet /\ q.ground = c.ground /\ q.on = c.on
      BY <1>1, <2>1, <2>2 DEF Riders
    <2> QED
      BY <2>1, <2>2, <2>3, RiderFields
  <1>5. [c EXCEPT !.vy = @ - Gravity, !.y = @ + c.vy - Gravity]
          = [c EXCEPT !.vy = -Gravity, !.y = b - Gravity]
    BY <1>2
  <1>6. [c EXCEPT !.vy = -Gravity, !.y = b - Gravity] = Falling(a, b)
    <2>1. PICK n \in Int : n = -Gravity
      BY PhysicsConstants
    <2>2. PICK y \in Int : y = b - Gravity
      BY PhysicsConstants
    <2>3. PICK q : q = [c EXCEPT !.vy = n]
      OBVIOUS
    <2>4. c \in Riders
      <3>1. b - HalfHeight \in Int /\ 0 \in Int
        BY PhysicsConstants
      <3> QED
        BY <3>1 DEF Taken, Riders
    <2>5. /\ q \in Riders /\ q.x = c.x /\ q.y = c.y /\ q.vx = c.vx /\ q.vy = n
          /\ q.feet = c.feet /\ q.ground = c.ground /\ q.on = c.on
      BY <2>3, <2>4 DEF Riders
    <2>6. PICK r : r = [q EXCEPT !.y = y]
      OBVIOUS
    <2>7. /\ r \in Riders /\ r.x = q.x /\ r.y = y /\ r.vx = q.vx /\ r.vy = q.vy
          /\ r.feet = q.feet /\ r.ground = q.ground /\ r.on = q.on
      BY <2>5, <2>6 DEF Riders
    <2>8. r = [x |-> r.x, y |-> r.y, vx |-> r.vx, vy |-> r.vy, feet |-> r.feet,
               ground |-> r.ground, on |-> r.on]
      BY <2>7, RiderFields
    <2>9. c.x = a /\ c.vx = 0 /\ c.feet = b - HalfHeight /\ c.ground = FALSE /\ c.on = None
      BY DEF Taken
    <2>10. r = Falling(a, b)
      BY <2>1, <2>2, <2>5, <2>7, <2>8, <2>9 DEF Falling
    <2>11. r = [c EXCEPT !.vy = n, !.y = y]
      BY <2>3, <2>6
    <2> QED
      BY <2>1, <2>2, <2>10, <2>11
  <1> QED
    BY <1>3, <1>4, <1>5, <1>6

\* The step of a player that rests on w and meets nothing else.
LEMMA RiderIsTaken ==
    ASSUME Physics!PhysicsInv, Physics!ShortSteps, NEW w \in Physics!WallIds,
           Physics!Rests(w), Physics!Alone(w)
    PROVE  \E a, b \in Int :
              /\ Physics!Stepped = Taken(a, b, 0, TRUE, Here(w))
              /\ a = body_x + body_wall[w].x - body_ridden.x
              /\ b = Physics!Top(w) + HalfHeight
  <1>1. PICK a \in Int, b \in Int :
              /\ Physics!Stepped = Physics!Fallen(Physics!Walked(Carrying(a, b)))
              /\ body_on_ground /\ body_wall[body_standing_on.wall] # None =>
                   /\ a = body_x + body_wall[body_standing_on.wall].x - body_standing_on.at.x
                   /\ b = body_y + body_wall[body_standing_on.wall].y - body_standing_on.at.y
    BY StepCarries
  <1>2. /\ body_on_ground /\ body_wall[w] # None /\ body_vx = 0 /\ body_vy = 0
        /\ body_standing_on.wall = w /\ body_ridden = body_standing_on.at /\ w \notin Slopes
        /\ body_y - HalfHeight = body_ridden.y + WallHalfHeight
        /\ Physics!Abs(body_x - body_ridden.x) <= HalfWidth + WallHalfWidth
    BY DEF Physics!Rests, Physics!PhysicsInv
  <1>3. /\ a = body_x + body_wall[w].x - body_ridden.x
        /\ b = body_y + body_wall[w].y - body_ridden.y
    BY <1>1, <1>2
  <1>4. /\ body_x \in Int /\ body_y \in Int /\ body_ridden.x \in Int /\ body_ridden.y \in Int
        /\ body_wall[w].x \in Int /\ body_wall[w].y \in Int
        /\ Physics!Top(w) = body_wall[w].y + WallHalfHeight
    BY <1>2, WallIsThere DEF Physics!PhysicsInv, Physics!Standing, Physics!Place, Physics!Top
  <1>5. b = Physics!Top(w) + HalfHeight /\ Under(w, a, b)
    <2>1. a - body_wall[w].x = body_x - body_ridden.x
      BY <1>3, <1>4
    <2>2. b = body_wall[w].y + WallHalfHeight + HalfHeight
      <3>1. \A y1, y2, y3 \in Int, h1, h2 \in Nat :
               y1 - h1 = y2 + h2 => y1 + y3 - y2 = y3 + h2 + h1
        OBVIOUS
      <3>2. body_y - HalfHeight = body_ridden.y + WallHalfHeight
        BY <1>2
      <3>3. HalfHeight \in Nat /\ WallHalfHeight \in Nat
        BY PhysicsConstants
      <3> QED
        BY <1>3, <1>4, <3>1, <3>2, <3>3
    <2> QED
      BY <1>2, <1>4, <2>1, <2>2 DEF Under
  <1>6. ASSUME NEW v \in Physics!WallIds, v # w, body_wall[v] # None PROVE Clear(v, a, b)
    <2>1. \A dy \in {0, Gravity} : ~Physics!Overlaps([x |-> a, y |-> b - dy], v)
      <3>1. \A dy \in {0, Gravity} :
               ~Physics!Overlaps([x |-> body_x + body_wall[w].x - body_ridden.x,
                                  y |-> body_y + body_wall[w].y - body_ridden.y - dy], v)
        BY <1>6 DEF Physics!Alone
      <3>2. ASSUME NEW dy \in {0, Gravity}
            PROVE  [x |-> a, y |-> b - dy] =
                      [x |-> body_x + body_wall[w].x - body_ridden.x,
                       y |-> body_y + body_wall[w].y - body_ridden.y - dy]
        <4>1. b - dy = body_y + body_wall[w].y - body_ridden.y - dy
          BY <1>3, <1>4, PhysicsConstants
        <4> QED
          BY <1>3, <4>1
      <3> QED
        BY <3>1, <3>2
    <2>2. b - 0 = b
      OBVIOUS
    <2> QED
      BY <2>1, <2>2 DEF Clear
  <1>7. PICK c : c = Taken(a, b, 0, FALSE, None)
    OBVIOUS
  <1>8. PICK f : f = Falling(a, b)
    OBVIOUS
  <1>9. PICK r : r = Taken(a, b, 0, TRUE, Here(w))
    OBVIOUS
  <1>10. Near(c, a, b) /\ Near(f, a, b) /\ Near(r, a, b)
    BY <1>7, <1>8, <1>9 DEF Near, Taken, Falling
  <1>11. c \in Steady /\ f \in Steady /\ r \in Steady
    <2>1. b - HalfHeight \in Int /\ b - Gravity \in Int /\ -Gravity \in Int /\ 0 \in Int
      BY PhysicsConstants
    <2>2. Here(w) \in Physics!Standing /\ Here(w).wall = w /\ Here(w).at = body_wall[w]
      BY <1>2, WallIsThere DEF Here
    <2>3. c \in Riders /\ ~c.ground
      BY <1>7, <2>1 DEF Taken, Riders
    <2>4. f \in Riders /\ ~f.ground
      BY <1>8, <2>1 DEF Falling, Riders
    <2>5. r \in Riders /\ r.on = Here(w)
      BY <1>9, <2>1, <2>2 DEF Taken, Riders
    <2> QED
      BY <2>2, <2>3, <2>4, <2>5 DEF Steady
  <1>12. /\ Physics!PushOut(c, w) = c
         /\ Physics!LandOnWall(f, w) = r /\ Physics!LandOnWall(r, w) = r
         /\ Physics!LandOnPlatform(f, w) = r /\ Physics!LandOnPlatform(r, w) = r
    BY <1>2, <1>5, <1>7, <1>8, <1>9, OwnWall
  <1>13. ASSUME NEW phase \in Phases, NEW n, Physics!HasBox(phase, n), Obstacles[n] # w
         PROVE  /\ Physics!Meet(phase, c, Obstacles[n]) = c
                /\ Physics!Meet(phase, f, Obstacles[n]) = f
                /\ Physics!Meet(phase, r, Obstacles[n]) = r
    <2>1. /\ Obstacles[n] \in Physics!WallIds /\ body_wall[Obstacles[n]] # None
          /\ Clear(Obstacles[n], a, b)
      BY <1>6, <1>13, BoxIsThere
    <2> QED
      BY <1>10, <2>1, ClearWalls
  <1>14. /\ \A p : Physics!Meet("push", p, w) = Physics!PushOut(p, w)
         /\ \A p : Physics!Meet("walls", p, w) = Physics!LandOnWall(p, w)
         /\ \A p : Physics!Meet("platforms", p, w) = Physics!LandOnPlatform(p, w)
    BY DEF Physics!Meet
  <1>15. Phases = {"push", "walls", "slopes", "platforms"}
    BY DEF Phases
  <1>16. Physics!Walked(Carrying(a, b)) = c
    <2>1. Carrying(a, b) = c
      BY <1>2, <1>7 DEF Carrying, Taken
    <2>2. [c EXCEPT !.x = @ + c.vx] = c
      BY <1>7, TakenMoves
    <2>3. ASSUME NEW n, Physics!HasBox("push", n) PROVE Physics!Meet("push", c, Obstacles[n]) = c
      BY <1>12, <1>13, <1>14, <1>15, <2>3
    <2>4. Physics!Through("push", c) = c
      BY <1>11, <1>15, <2>3, PhaseKeeps
    <2> QED
      BY <2>1, <2>2, <2>4 DEF Physics!Walked
  <1>17. Physics!Fallen(c) =
           Physics!Through("platforms", Physics!Through("slopes", Physics!Through("walls", f)))
    <2>1. [c EXCEPT !.vy = @ - Gravity, !.y = @ + c.vy - Gravity] = f
      BY <1>7, <1>8, TakenMoves
    <2> QED
      BY <2>1 DEF Physics!Fallen
  <1>18. ASSUME NEW n, Physics!HasBox("slopes", n) PROVE Obstacles[n] # w
    BY <1>2, <1>18 DEF Physics!HasBox, Physics!WallsOf
  <1>19. Physics!Through("slopes", f) = f /\ Physics!Through("slopes", r) = r
    <2>1. \A n : Physics!HasBox("slopes", n) =>
             /\ Physics!Meet("slopes", f, Obstacles[n]) = f
             /\ Physics!Meet("slopes", r, Obstacles[n]) = r
      BY <1>13, <1>15, <1>18
    <2> QED
      BY <1>11, <1>15, <2>1, PhaseKeeps
  <1>20. /\ Catches("walls", f, r, w) /\ Catches("platforms", f, r, w)
    BY <1>12, <1>13, <1>14, <1>15 DEF Catches
  <1>21. PICK m \in DOMAIN Obstacles : Obstacles[m] = w
    BY DEF Physics!WallIds
  <1>22. CASE w \in OneWay
    <2>1. ASSUME NEW n, Physics!HasBox("walls", n) PROVE Obstacles[n] # w
      BY <1>22, <2>1 DEF Physics!HasBox, Physics!WallsOf, Physics!Solid
    <2>2. Physics!Through("walls", f) = f
      BY <1>11, <1>13, <1>15, <2>1, PhaseKeeps
    <2>3. Physics!HasBox("platforms", m)
      BY <1>2, <1>21, <1>22 DEF Physics!HasBox, Physics!WallsOf
    <2>4. Physics!Through("platforms", f) = r
      BY <1>11, <1>15, <1>20, <1>21, <2>3, PhaseCatches
    <2> QED
      BY <1>1, <1>3, <1>5, <1>9, <1>16, <1>17, <1>19, <2>2, <2>4
  <1>23. CASE w \notin OneWay
    <2>1. ASSUME NEW n, Physics!HasBox("platforms", n) PROVE Obstacles[n] # w
      BY <1>23, <2>1 DEF Physics!HasBox, Physics!WallsOf
    <2>2. Physics!Through("platforms", r) = r
      BY <1>11, <1>13, <1>15, <2>1, PhaseKeeps
    <2>3. Physics!HasBox("walls", m)
      BY <1>2, <1>21, <1>23 DEF Physics!HasBox, Physics!WallsOf, Physics!Solid
    <2>4. Physics!Through("walls", f) = r
      BY <1>11, <1>15, <1>20, <1>21, <2>3, PhaseCatches
    <2> QED
      BY <1>1, <1>3, <1>5, <1>9, <1>16, <1>17, <1>19, <2>2, <2>4
  <1> QED
    BY <1>22, <1>23

LEMMA RidersAreCarried == ASSUME Physics!PhysicsInv PROVE Physics!RiderIsCarried
  <1>1. ASSUME NEW w \in Physics!WallIds, Physics!ShortSteps, Physics!Rests(w), Physics!Alone(w),
               Physics!update_physics
        PROVE  /\ body_on_ground' /\ body_standing_on'.wall = w
               /\ body_x' - body_wall[w].x = body_x - body_ridden.x
               /\ body_y' - HalfHeight = Physics!Top(w)
    <2>1. PICK a \in Int, b \in Int :
              /\ Physics!Stepped = Taken(a, b, 0, TRUE, Here(w))
              /\ a = body_x + body_wall[w].x - body_ridden.x
              /\ b = Physics!Top(w) + HalfHeight
      BY <1>1, RiderIsTaken
    <2>2. /\ body_on_ground' = TRUE /\ body_standing_on' = Here(w)
          /\ body_x' = a /\ body_y' = b
      BY <1>1, <2>1 DEF Physics!update_physics, Taken
    <2>3. /\ body_wall[w].x \in Int /\ body_ridden.x \in Int /\ body_x \in Int
          /\ Physics!Top(w) \in Int
      BY <1>1, WallIsThere
         DEF Physics!Rests, Physics!PhysicsInv, Physics!Standing, Physics!Place
    <2> QED
      BY <2>1, <2>2, <2>3, PhysicsConstants, SMTT(30) DEF Here
  <1> QED
    BY <1>1 DEF Physics!RiderIsCarried

\* However a program moves the walls, the player and its velocity between the steps,
\* a player at rest on a flat wall ends a step of the physics on that wall, where it
\* stood, for any walls, places, extents and gravity that one step does not carry
\* through a wall (update_physics).
THEOREM RidersStay == Spec => RidersStayOnTheirPlatform
  <1>1. Init => (focus = "physics" => Physics!PhysicsInv)
    BY FocusStart, PhysicsInit
  <1>2. (focus = "physics" => Physics!PhysicsInv) /\ [Next]_vars
            => (focus = "physics" => Physics!PhysicsInv)'
    BY FocusStep, PhysicsStep
  <1>3. ASSUME (focus = "physics" => Physics!PhysicsInv), [Next]_vars
        PROVE  [focus = "physics" => Physics!RiderIsCarried]_vars
    BY <1>3, RidersAreCarried
  <1> QED
    BY <1>1, <1>2, <1>3, PTL DEF Spec, RidersStayOnTheirPlatform

-----------------------------------------------------------------------------
(* Sprites: the elements of a sequence that are in a set.                  *)

LEMMA SpritesConstants ==
    /\ SpritePlaces \cup Halves \cup Velocities \cup {WindowHalf} \subseteq Sprites!Point
    /\ Scales \subseteq Nat \ {0} /\ Zooms \subseteq Int /\ SpriteScenes \subseteq Seq(Nat)
    /\ MaxSprites \in Nat
    /\ None \notin Sprites!Sprite /\ None \notin Sprites!Camera
  BY NativeAssumption DEF Sprites!SpritesAssumption

\* What Chosen goes through.
AreChosen(f, s, set) ==
    f = [n \in Nat |->
           IF n = 0 THEN <<>>
           ELSE IF n \in DOMAIN s /\ s[n] \in set THEN Append(f[n - 1], s[n])
           ELSE f[n - 1]]

Chooses(f, s, set, S) ==
    /\ f \in [Nat -> Seq(S)] /\ f[0] = <<>>
    /\ \A n \in Nat :
          f[n + 1] = IF n + 1 \in DOMAIN s /\ s[n + 1] \in set THEN Append(f[n], s[n + 1]) ELSE f[n]
    /\ Sprites!Chosen(s, set) = f[Len(s)]

LEMMA ChosenChooses ==
    ASSUME NEW S, NEW s \in Seq(S), NEW set
    PROVE  \E f : Chooses(f, s, set, S)
  <1>1. PICK Q : Q = Seq(S)
    OBVIOUS
  <1>2. PICK G : G = [m \in Nat \X Q |->
                        IF m[1] \in DOMAIN s /\ s[m[1]] \in set THEN Append(m[2], s[m[1]]) ELSE m[2]]
    OBVIOUS
  <1>3. ASSUME NEW n \in Nat, NEW q \in Q
        PROVE  (IF n \in DOMAIN s /\ s[n] \in set THEN Append(q, s[n]) ELSE q) \in Q
    <2>1. n \in DOMAIN s => s[n] \in S
      OBVIOUS
    <2>2. \A e \in S : Append(q, e) \in Q
      BY <1>1
    <2> QED
      BY <2>1, <2>2
  <1>4. /\ G \in [Nat \X Q -> Q]
        /\ \A n \in Nat, q \in Q :
              G[<<n, q>>] = IF n \in DOMAIN s /\ s[n] \in set THEN Append(q, s[n]) ELSE q
    BY <1>2, <1>3
  <1>5. <<>> \in Q
    BY <1>1
  <1>6. PICK f : Repeats(f, Q, <<>>, G)
    BY <1>4, <1>5, RecursionExists
  <1>7. /\ f \in [Nat -> Q] /\ f[0] = <<>>
        /\ \A n \in Nat : f[n + 1] = G[<<n + 1, f[n]>>]
    BY <1>6 DEF Repeats
  <1>8. ASSUME NEW n \in Nat
        PROVE  f[n] = IF n = 0 THEN <<>>
                      ELSE IF n \in DOMAIN s /\ s[n] \in set THEN Append(f[n - 1], s[n])
                      ELSE f[n - 1]
    <2>1. CASE n = 0
      BY <1>7, <2>1
    <2>2. CASE n # 0
      <3>1. n - 1 \in Nat /\ (n - 1) + 1 = n
        BY <2>2
      <3>2. f[n] = G[<<n, f[n - 1]>>] /\ f[n - 1] \in Q
        BY <1>7, <3>1
      <3> QED
        BY <1>4, <2>2, <3>2
    <2> QED
      BY <2>1, <2>2
  <1>9. f = [n \in Nat |-> f[n]]
    BY <1>7
  <1>10. AreChosen(f, s, set)
    BY <1>8, <1>9 DEF AreChosen
  <1>11. PICK g : g = CHOOSE h : AreChosen(h, s, set)
    OBVIOUS
  <1>12. AreChosen(g, s, set)
    BY <1>10, <1>11
  <1>13. Sprites!Chosen(s, set) = g[Len(s)]
    BY <1>11 DEF Sprites!Chosen, AreChosen
  <1>14. g[0] = <<>>
    BY <1>12 DEF AreChosen
  <1>15. ASSUME NEW n \in Nat
         PROVE  g[n + 1] = IF n + 1 \in DOMAIN s /\ s[n + 1] \in set
                           THEN Append(g[n], s[n + 1]) ELSE g[n]
    <2>1. n + 1 \in Nat /\ n + 1 # 0 /\ (n + 1) - 1 = n
      OBVIOUS
    <2> QED
      BY <1>12, <2>1 DEF AreChosen
  <1>16. \A n \in Nat : g[n] \in Q
    <2>1. PICK T : T = {n \in Nat : g[n] \in Q}
      OBVIOUS
    <2>2. 0 \in T
      BY <1>5, <1>14, <2>1
    <2>3. ASSUME NEW n \in Nat, n \in T PROVE n + 1 \in T
      <3>1. g[n] \in Q /\ n + 1 \in Nat
        BY <2>1, <2>3
      <3> QED
        BY <1>3, <1>15, <2>1, <3>1
    <2>4. \A n \in Nat : n \in T
      BY <2>2, <2>3, Induction
    <2> QED
      BY <2>1, <2>4
  <1>17. g \in [Nat -> Seq(S)]
    <2>1. g = [n \in Nat |-> g[n]]
      BY <1>12 DEF AreChosen
    <2> QED
      BY <1>1, <1>16, <2>1
  <1> QED
    BY <1>13, <1>14, <1>15, <1>17 DEF Chooses

Different(s) == \A k, m \in DOMAIN s : s[k] = s[m] => k = m

\* q holds elements of the first n of s, and each once if s does.
From(q, s, n, set) ==
    /\ \A k \in DOMAIN q : \E m \in DOMAIN s : m <= n /\ s[m] = q[k]
    /\ Different(s) => Different(q)
    /\ q # <<>> <=> \E m \in DOMAIN s : m <= n /\ s[m] \in set

LEMMA ChosenIsFrom ==
    ASSUME NEW S, NEW s \in Seq(S), NEW set
    PROVE  /\ Sprites!Chosen(s, set) \in Seq(S)
           /\ From(Sprites!Chosen(s, set), s, Len(s), set)
  <1>1. PICK f : Chooses(f, s, set, S)
    BY ChosenChooses
  <1>2. PICK T : T = {n \in Nat : From(f[n], s, n, set)}
    OBVIOUS
  <1>3. Len(s) \in Nat /\ DOMAIN s = 1 .. Len(s)
    OBVIOUS
  <1>4. 0 \in T
    <2>1. f[0] = <<>> /\ DOMAIN <<>> = {}
      BY <1>1 DEF Chooses
    <2>2. From(f[0], s, 0, set)
      BY <1>3, <2>1 DEF From, Different
    <2> QED
      BY <1>2, <2>2
  <1>5. ASSUME NEW n \in Nat, n \in T PROVE n + 1 \in T
    <2>1. From(f[n], s, n, set) /\ f[n] \in Seq(S) /\ n + 1 \in Nat
      BY <1>1, <1>2, <1>5 DEF Chooses
    <2>2. ASSUME NEW m \in DOMAIN s PROVE (m <= n + 1) <=> (m <= n \/ m = n + 1)
      <3>1. m \in Int /\ n \in Int
        BY <1>3
      <3>2. \A a, b \in Int : (a <= b + 1) <=> (a <= b \/ a = b + 1)
        OBVIOUS
      <3> QED
        BY <3>1, <3>2
    <2>3. CASE n + 1 \in DOMAIN s /\ s[n + 1] \in set
      <3>1. f[n + 1] = Append(f[n], s[n + 1]) /\ s[n + 1] \in S
        <4>1. f[n + 1] = Append(f[n], s[n + 1])
          BY <1>1, <2>3 DEF Chooses
        <4>2. s[n + 1] \in S
          BY <1>3, <2>3
        <4> QED
          BY <4>1, <4>2
      <3>2. PICK q : q = f[n + 1]
        OBVIOUS
      <3>3. /\ Len(f[n]) \in Nat /\ DOMAIN f[n] = 1 .. Len(f[n])
            /\ DOMAIN q = 1 .. Len(f[n]) + 1
            /\ \A k \in 1 .. Len(f[n]) : q[k] = f[n][k]
            /\ q[Len(f[n]) + 1] = s[n + 1] /\ q # <<>>
        BY <2>1, <3>1, <3>2
      <3>4. \A k \in DOMAIN q : k \in DOMAIN f[n] \/ k = Len(f[n]) + 1
        BY <3>3
      <3>5. ASSUME NEW k \in DOMAIN q PROVE \E m \in DOMAIN s : m <= n + 1 /\ s[m] = q[k]
        BY <2>1, <2>2, <2>3, <3>3, <3>4 DEF From
      <3>6. ASSUME Different(s), NEW k \in DOMAIN f[n] PROVE f[n][k] # s[n + 1]
        <4>1. PICK m \in DOMAIN s : m <= n /\ s[m] = f[n][k]
          BY <2>1, <3>6 DEF From
        <4>2. m # n + 1
          BY <1>3, <4>1
        <4> QED
          BY <2>3, <3>6, <4>1, <4>2 DEF Different
      <3>7. ASSUME Different(s) PROVE Different(q)
        <4>1. Different(f[n])
          BY <2>1, <3>7 DEF From
        <4> QED
          BY <3>3, <3>4, <3>6, <3>7, <4>1 DEF Different
      <3>8. \E m \in DOMAIN s : m <= n + 1 /\ s[m] \in set
        BY <2>2, <2>3
      <3>9. From(q, s, n + 1, set)
        BY <3>3, <3>5, <3>7, <3>8 DEF From
      <3> QED
        BY <1>2, <3>2, <3>9
    <2>4. CASE ~(n + 1 \in DOMAIN s /\ s[n + 1] \in set)
      <3>1. f[n + 1] = f[n]
        BY <1>1, <2>4 DEF Chooses
      <3>2. From(f[n], s, n + 1, set)
        BY <2>1, <2>2, <2>4 DEF From
      <3> QED
        BY <1>2, <3>1, <3>2
    <2> QED
      BY <2>3, <2>4
  <1>6. \A n \in Nat : n \in T
    BY <1>4, <1>5, Induction
  <1> QED
    BY <1>1, <1>2, <1>3, <1>6 DEF Chooses

-----------------------------------------------------------------------------
(* Sprites that are moved one after the other.                             *)

LEMMA SpriteFields ==
    ASSUME NEW p \in Sprites!Point, NEW h \in Sprites!Point, NEW c \in Nat \ {0}, NEW a \in Int,
           NEW v \in Sprites!Point, NEW w \in Int, NEW b \in BOOLEAN, NEW t \in BOOLEAN
    PROVE  [at |-> p, half |-> h, scale |-> c, angle |-> a, velocity |-> v,
            angular_velocity |-> w, visible |-> b, textured |-> t] \in Sprites!Sprite
  BY DEF Sprites!Sprite

LEMMA SpriteHas ==
    ASSUME NEW s \in Sprites!Sprite
    PROVE  /\ s.at \in Sprites!Point /\ s.half \in Sprites!Point /\ s.scale \in Nat \ {0}
           /\ s.angle \in Int /\ s.velocity \in Sprites!Point /\ s.angular_velocity \in Int
           /\ s.visible \in BOOLEAN /\ s.textured \in BOOLEAN
           /\ s.at.x \in Int /\ s.at.y \in Int /\ s.half.x \in Int /\ s.half.y \in Int
           /\ s.velocity.x \in Int /\ s.velocity.y \in Int
  BY DEF Sprites!Sprite, Sprites!Point

\* A sprite of which one attribute is another.
LEMMA SpriteChanged ==
    ASSUME NEW s \in Sprites!Sprite
    PROVE  /\ \A e \in Sprites!Point : [s EXCEPT !.at = e] \in Sprites!Sprite
           /\ \A e \in Int : [s EXCEPT !.angle = e] \in Sprites!Sprite
           /\ \A e \in Nat \ {0} : [s EXCEPT !.scale = e] \in Sprites!Sprite
           /\ \A e \in Sprites!Point : [s EXCEPT !.velocity = e] \in Sprites!Sprite
           /\ \A e \in Int : [s EXCEPT !.angular_velocity = e] \in Sprites!Sprite
           /\ \A e \in BOOLEAN : [s EXCEPT !.visible = e] \in Sprites!Sprite
           /\ [s EXCEPT !.textured = TRUE] \in Sprites!Sprite
  <1>1. ASSUME NEW e \in Sprites!Point PROVE [s EXCEPT !.at = e] \in Sprites!Sprite
    BY DEF Sprites!Sprite
  <1>2. ASSUME NEW e \in Int PROVE [s EXCEPT !.angle = e] \in Sprites!Sprite
    BY DEF Sprites!Sprite
  <1>3. ASSUME NEW e \in Nat \ {0} PROVE [s EXCEPT !.scale = e] \in Sprites!Sprite
    BY DEF Sprites!Sprite
  <1>4. ASSUME NEW e \in Sprites!Point PROVE [s EXCEPT !.velocity = e] \in Sprites!Sprite
    BY DEF Sprites!Sprite
  <1>5. ASSUME NEW e \in Int PROVE [s EXCEPT !.angular_velocity = e] \in Sprites!Sprite
    BY DEF Sprites!Sprite
  <1>6. ASSUME NEW e \in BOOLEAN PROVE [s EXCEPT !.visible = e] \in Sprites!Sprite
    BY DEF Sprites!Sprite
  <1>7. [s EXCEPT !.textured = TRUE] \in Sprites!Sprite
    BY DEF Sprites!Sprite
  <1> QED
    BY <1>1, <1>2, <1>3, <1>4, <1>5, <1>6, <1>7

LEMMA MovedIsSprite ==
    ASSUME NEW s \in Sprites!Sprite
    PROVE  Sprites!Moved(s) \in Sprites!Sprite
  <1>1. PICK p : p = Sprites!At(s.at.x + s.velocity.x, s.at.y + s.velocity.y)
    OBVIOUS
  <1>2. p \in Sprites!Point
    BY <1>1, SpriteHas DEF Sprites!At, Sprites!Point
  <1>3. PICK a : a = (s.angle + s.angular_velocity) % 4
    OBVIOUS
  <1>4. a \in Int
    BY <1>3, SpriteHas
  <1>5. PICK q : q = [s EXCEPT !.at = p]
    OBVIOUS
  <1>6. q \in Sprites!Sprite /\ [q EXCEPT !.angle = a] \in Sprites!Sprite
    BY <1>2, <1>4, <1>5, SpriteChanged
  <1>7. Sprites!Moved(s) = [s EXCEPT !.at = p, !.angle = a]
    BY <1>1, <1>3 DEF Sprites!Moved
  <1> QED
    BY <1>5, <1>6, <1>7

\* Registries with the sprites of the registry that are not gone.
Registries ==
    {r \in Seq(Sprites!Sprite \cup {None}) :
       /\ Len(r) = Len(sprite_sprites)
       /\ \A i \in DOMAIN sprite_sprites : r[i] = None <=> sprite_sprites[i] = None}

LEMMA RegistryMoves ==
    ASSUME Sprites!SpritesInv, NEW r \in Registries, NEW i, Sprites!Live(i)
    PROVE  /\ [r EXCEPT ![i] = Sprites!Moved(@)] \in Registries
           /\ [r EXCEPT ![i] = Sprites!Moved(@)][i] = Sprites!Moved(r[i])
           /\ \A j \in DOMAIN sprite_sprites :
                 j # i => [r EXCEPT ![i] = Sprites!Moved(@)][j] = r[j]
  <1>1. /\ Len(sprite_sprites) \in Nat /\ DOMAIN sprite_sprites = 1 .. Len(sprite_sprites)
        /\ i \in DOMAIN sprite_sprites /\ sprite_sprites[i] # None
    BY DEF Sprites!Live, Sprites!SpritesInv
  <1>2. /\ r \in Seq(Sprites!Sprite \cup {None}) /\ DOMAIN r = DOMAIN sprite_sprites
        /\ r[i] # None /\ Len(r) = Len(sprite_sprites)
    <2>1. r \in Seq(Sprites!Sprite \cup {None}) /\ Len(r) = Len(sprite_sprites)
      BY DEF Registries
    <2>2. DOMAIN r = 1 .. Len(r)
      BY <2>1
    <2> QED
      BY <1>1, <2>1, <2>2 DEF Registries
  <1>3. r[i] \in Sprites!Sprite
    BY <1>1, <1>2
  <1>4. Sprites!Moved(r[i]) \in Sprites!Sprite /\ Sprites!Moved(r[i]) # None
    BY <1>3, MovedIsSprite, SpritesConstants
  <1>5. PICK m : m = Sprites!Moved(r[i])
    OBVIOUS
  <1>6. PICK q : q = [r EXCEPT ![i] = m]
    OBVIOUS
  <1>7. /\ q \in Seq(Sprites!Sprite \cup {None}) /\ Len(q) = Len(r)
        /\ q[i] = m /\ \A j \in DOMAIN r : j # i => q[j] = r[j]
    BY <1>1, <1>2, <1>4, <1>5, <1>6
  <1>8. q \in Registries
    BY <1>1, <1>2, <1>4, <1>5, <1>7 DEF Registries
  <1>9. q = [r EXCEPT ![i] = Sprites!Moved(@)]
    BY <1>5, <1>6
  <1> QED
    BY <1>2, <1>5, <1>7, <1>8, <1>9

\* What MovedAll goes through.
AreMoved(f, members) ==
    f = [n \in Nat |->
           IF n = 0 THEN sprite_sprites
           ELSE IF n \in DOMAIN members /\ Sprites!Live(members[n])
                THEN [f[n - 1] EXCEPT ![members[n]] = Sprites!Moved(@)]
           ELSE f[n - 1]]

Moves(f, members) ==
    /\ f \in [Nat -> Registries] /\ f[0] = sprite_sprites
    /\ \A n \in Nat :
          f[n + 1] = IF n + 1 \in DOMAIN members /\ Sprites!Live(members[n + 1])
                     THEN [f[n] EXCEPT ![members[n + 1]] = Sprites!Moved(@)] ELSE f[n]
    /\ Sprites!MovedAll(members) = f[Len(members)]

LEMMA MovedAllMoves ==
    ASSUME Sprites!SpritesInv, NEW members
    PROVE  \E f : Moves(f, members)
  <1>1. PICK G : G = [m \in Nat \X Registries |->
                        IF m[1] \in DOMAIN members /\ Sprites!Live(members[m[1]])
                        THEN [m[2] EXCEPT ![members[m[1]]] = Sprites!Moved(@)] ELSE m[2]]
    OBVIOUS
  <1>2. ASSUME NEW n \in Nat, NEW q \in Registries
        PROVE  (IF n \in DOMAIN members /\ Sprites!Live(members[n])
                THEN [q EXCEPT ![members[n]] = Sprites!Moved(@)] ELSE q) \in Registries
    BY RegistryMoves
  <1>3. /\ G \in [Nat \X Registries -> Registries]
        /\ \A n \in Nat, q \in Registries :
              G[<<n, q>>] = IF n \in DOMAIN members /\ Sprites!Live(members[n])
                            THEN [q EXCEPT ![members[n]] = Sprites!Moved(@)] ELSE q
    BY <1>1, <1>2
  <1>4. sprite_sprites \in Registries
    BY DEF Registries, Sprites!SpritesInv
  <1>5. PICK f : Repeats(f, Registries, sprite_sprites, G)
    BY <1>3, <1>4, RecursionExists
  <1>6. /\ f \in [Nat -> Registries] /\ f[0] = sprite_sprites
        /\ \A n \in Nat : f[n + 1] = G[<<n + 1, f[n]>>]
    BY <1>5 DEF Repeats
  <1>7. ASSUME NEW n \in Nat
        PROVE  f[n] = IF n = 0 THEN sprite_sprites
                      ELSE IF n \in DOMAIN members /\ Sprites!Live(members[n])
                           THEN [f[n - 1] EXCEPT ![members[n]] = Sprites!Moved(@)]
                      ELSE f[n - 1]
    <2>1. CASE n = 0
      BY <1>6, <2>1
    <2>2. CASE n # 0
      <3>1. n - 1 \in Nat /\ (n - 1) + 1 = n
        BY <2>2
      <3>2. f[n] = G[<<n, f[n - 1]>>] /\ f[n - 1] \in Registries
        BY <1>6, <3>1
      <3> QED
        BY <1>3, <2>2, <3>2
    <2> QED
      BY <2>1, <2>2
  <1>8. f = [n \in Nat |-> f[n]]
    BY <1>6
  <1>9. AreMoved(f, members)
    BY <1>7, <1>8 DEF AreMoved
  <1>10. PICK g : g = CHOOSE h : AreMoved(h, members)
    OBVIOUS
  <1>11. AreMoved(g, members)
    BY <1>9, <1>10
  <1>12. Sprites!MovedAll(members) = g[Len(members)]
    BY <1>10 DEF Sprites!MovedAll, AreMoved
  <1>13. g[0] = sprite_sprites
    BY <1>11 DEF AreMoved
  <1>14. ASSUME NEW n \in Nat
         PROVE  g[n + 1] = IF n + 1 \in DOMAIN members /\ Sprites!Live(members[n + 1])
                           THEN [g[n] EXCEPT ![members[n + 1]] = Sprites!Moved(@)] ELSE g[n]
    <2>1. n + 1 \in Nat /\ n + 1 # 0 /\ (n + 1) - 1 = n
      OBVIOUS
    <2> QED
      BY <1>11, <2>1 DEF AreMoved
  <1>15. \A n \in Nat : g[n] \in Registries
    <2>1. PICK T : T = {n \in Nat : g[n] \in Registries}
      OBVIOUS
    <2>2. 0 \in T
      BY <1>4, <1>13, <2>1
    <2>3. ASSUME NEW n \in Nat, n \in T PROVE n + 1 \in T
      <3>1. g[n] \in Registries /\ n + 1 \in Nat
        BY <2>1, <2>3
      <3> QED
        BY <1>2, <1>14, <2>1, <3>1
    <2>4. \A n \in Nat : n \in T
      BY <2>2, <2>3, Induction
    <2> QED
      BY <2>1, <2>4
  <1>16. g \in [Nat -> Registries]
    <2>1. g = [n \in Nat |-> g[n]]
      BY <1>11 DEF AreMoved
    <2> QED
      BY <1>15, <2>1
  <1> QED
    BY <1>12, <1>13, <1>14, <1>16 DEF Moves

\* The sprite i after the first n of the members moved.
After(members, n, i) ==
    IF Sprites!Live(i) /\ \E k \in DOMAIN members : k <= n /\ members[k] = i
    THEN Sprites!Moved(sprite_sprites[i]) ELSE sprite_sprites[i]

LEMMA EachMovesOnce ==
    ASSUME Sprites!SpritesInv, NEW S, NEW members \in Seq(S), Different(members)
    PROVE  \A i \in DOMAIN sprite_sprites :
              Sprites!MovedAll(members)[i] = After(members, Len(members), i)
  <1>1. PICK f : Moves(f, members)
    BY MovedAllMoves
  <1>2. PICK T : T = {n \in Nat : \A i \in DOMAIN sprite_sprites : f[n][i] = After(members, n, i)}
    OBVIOUS
  <1>3. Len(members) \in Nat /\ DOMAIN members = 1 .. Len(members)
    OBVIOUS
  <1>4. 0 \in T
    <2>1. f[0] = sprite_sprites
      BY <1>1 DEF Moves
    <2>2. \A k \in DOMAIN members : ~(k <= 0)
      BY <1>3
    <2> QED
      BY <1>2, <2>1, <2>2 DEF After
  <1>5. ASSUME NEW n \in Nat, n \in T PROVE n + 1 \in T
    <2>1. n + 1 \in Nat /\ f[n] \in Registries
      BY <1>1 DEF Moves
    <2>2. ASSUME NEW m \in DOMAIN members PROVE (m <= n + 1) <=> (m <= n \/ m = n + 1)
      <3>1. m \in Int /\ n \in Int
        BY <1>3
      <3>2. \A a, b \in Int : (a <= b + 1) <=> (a <= b \/ a = b + 1)
        OBVIOUS
      <3> QED
        BY <3>1, <3>2
    <2>3. ASSUME NEW i \in DOMAIN sprite_sprites PROVE f[n][i] = After(members, n, i)
      BY <1>2, <1>5
    <2>4. CASE n + 1 \in DOMAIN members /\ Sprites!Live(members[n + 1])
      <3>1. PICK j : j = members[n + 1]
        OBVIOUS
      <3>2. PICK q : q = [f[n] EXCEPT ![j] = Sprites!Moved(@)]
        OBVIOUS
      <3>3. f[n + 1] = q
        BY <1>1, <2>4, <3>1, <3>2 DEF Moves
      <3>4. /\ q[j] = Sprites!Moved(f[n][j])
            /\ \A i \in DOMAIN sprite_sprites : i # j => q[i] = f[n][i]
        <4>1. Sprites!Live(j)
          BY <2>4, <3>1
        <4>2. PICK r \in Registries : r = f[n]
          BY <2>1
        <4>3. q = [r EXCEPT ![j] = Sprites!Moved(@)]
          BY <3>2, <4>2
        <4>4. /\ [r EXCEPT ![j] = Sprites!Moved(@)][j] = Sprites!Moved(r[j])
              /\ \A i \in DOMAIN sprite_sprites :
                    i # j => [r EXCEPT ![j] = Sprites!Moved(@)][i] = r[i]
          BY <4>1, RegistryMoves
        <4> QED
          BY <4>2, <4>3, <4>4
      <3>5. \A k \in DOMAIN members : k <= n => members[k] # j
        <4>1. \A k \in DOMAIN members : k <= n => k # n + 1
          BY <1>3
        <4> QED
          BY <2>4, <3>1, <4>1 DEF Different
      <3>6. j \in DOMAIN sprite_sprites /\ Sprites!Live(j)
        BY <2>4, <3>1 DEF Sprites!Live
      <3>7. After(members, n, j) = sprite_sprites[j]
        BY <3>5 DEF After
      <3>8. After(members, n + 1, j) = Sprites!Moved(sprite_sprites[j])
        <4>1. n + 1 <= n + 1
          OBVIOUS
        <4> QED
          BY <2>4, <3>1, <3>6, <4>1 DEF After
      <3>9. q[j] = After(members, n + 1, j)
        BY <2>3, <3>4, <3>6, <3>7, <3>8
      <3>10. ASSUME NEW i \in DOMAIN sprite_sprites, i # j
             PROVE  After(members, n + 1, i) = After(members, n, i)
        BY <2>2, <3>1, <3>10 DEF After
      <3>11. \A i \in DOMAIN sprite_sprites : q[i] = After(members, n + 1, i)
        BY <2>3, <3>4, <3>9, <3>10
      <3> QED
        BY <1>2, <2>1, <3>3, <3>11
    <2>5. CASE ~(n + 1 \in DOMAIN members /\ Sprites!Live(members[n + 1]))
      <3>1. f[n + 1] = f[n]
        BY <1>1, <2>5 DEF Moves
      <3>2. ASSUME NEW i \in DOMAIN sprite_sprites
            PROVE  After(members, n + 1, i) = After(members, n, i)
        BY <2>2, <2>5 DEF After
      <3> QED
        BY <1>2, <2>1, <2>3, <3>1, <3>2
    <2> QED
      BY <2>4, <2>5
  <1>6. \A n \in Nat : n \in T
    BY <1>4, <1>5, Induction
  <1> QED
    BY <1>1, <1>2, <1>3, <1>6 DEF Moves

LEMMA MovedAllIsRegistry ==
    ASSUME Sprites!SpritesInv, NEW S, NEW members \in Seq(S)
    PROVE  Sprites!MovedAll(members) \in Registries
  <1>1. PICK f : Moves(f, members)
    BY MovedAllMoves
  <1>2. Len(members) \in Nat
    OBVIOUS
  <1> QED
    BY <1>1, <1>2 DEF Moves

\* What Members goes through.
AreJoined(f, scene) ==
    f = [n \in Nat |->
           IF n = 0 THEN <<>>
           ELSE IF n \in DOMAIN scene /\ scene[n] \in DOMAIN sprite_lists
                THEN f[n - 1] \o sprite_lists[scene[n]]
           ELSE f[n - 1]]

LEMMA MembersAreIndices ==
    ASSUME Sprites!SpritesInv, NEW scene \in SpriteScenes
    PROVE  Sprites!Members(scene) \in Seq(Sprites!Indices)
  <1>1. PICK Q : Q = Seq(Sprites!Indices)
    OBVIOUS
  <1>2. PICK G : G = [m \in Nat \X Q |->
                        IF m[1] \in DOMAIN scene /\ scene[m[1]] \in DOMAIN sprite_lists
                        THEN m[2] \o sprite_lists[scene[m[1]]] ELSE m[2]]
    OBVIOUS
  <1>3. ASSUME NEW n \in Nat, NEW q \in Q
        PROVE  (IF n \in DOMAIN scene /\ scene[n] \in DOMAIN sprite_lists
                THEN q \o sprite_lists[scene[n]] ELSE q) \in Q
    <2>1. \A l \in DOMAIN sprite_lists : sprite_lists[l] \in Q
      BY <1>1 DEF Sprites!SpritesInv
    <2>2. \A t \in Q : q \o t \in Q
      BY <1>1, ConcatProperties
    <2> QED
      BY <2>1, <2>2
  <1>4. /\ G \in [Nat \X Q -> Q]
        /\ \A n \in Nat, q \in Q :
              G[<<n, q>>] = IF n \in DOMAIN scene /\ scene[n] \in DOMAIN sprite_lists
                            THEN q \o sprite_lists[scene[n]] ELSE q
    BY <1>2, <1>3
  <1>5. <<>> \in Q
    BY <1>1
  <1>6. PICK f : Repeats(f, Q, <<>>, G)
    BY <1>4, <1>5, RecursionExists
  <1>7. /\ f \in [Nat -> Q] /\ f[0] = <<>>
        /\ \A n \in Nat : f[n + 1] = G[<<n + 1, f[n]>>]
    BY <1>6 DEF Repeats
  <1>8. ASSUME NEW n \in Nat
        PROVE  f[n] = IF n = 0 THEN <<>>
                      ELSE IF n \in DOMAIN scene /\ scene[n] \in DOMAIN sprite_lists
                           THEN f[n - 1] \o sprite_lists[scene[n]]
                      ELSE f[n - 1]
    <2>1. CASE n = 0
      BY <1>7, <2>1
    <2>2. CASE n # 0
      <3>1. n - 1 \in Nat /\ (n - 1) + 1 = n
        BY <2>2
      <3>2. f[n] = G[<<n, f[n - 1]>>] /\ f[n - 1] \in Q
        BY <1>7, <3>1
      <3> QED
        BY <1>4, <2>2, <3>2
    <2> QED
      BY <2>1, <2>2
  <1>9. f = [n \in Nat |-> f[n]]
    BY <1>7
  <1>10. AreJoined(f, scene)
    BY <1>8, <1>9 DEF AreJoined
  <1>11. PICK g : g = CHOOSE h : AreJoined(h, scene)
    OBVIOUS
  <1>12. AreJoined(g, scene)
    BY <1>10, <1>11
  <1>13. Sprites!Members(scene) = g[Len(scene)]
    BY <1>11 DEF Sprites!Members, AreJoined
  <1>14. PICK T : T = {n \in Nat : g[n] \in Q}
    OBVIOUS
  <1>15. 0 \in T
    <2>1. g[0] = <<>>
      BY <1>12 DEF AreJoined
    <2> QED
      BY <1>5, <1>14, <2>1
  <1>16. ASSUME NEW n \in Nat, n \in T PROVE n + 1 \in T
    <2>1. n + 1 \in Nat /\ n + 1 # 0 /\ (n + 1) - 1 = n /\ g[n] \in Q
      BY <1>14, <1>16
    <2>2. g[n + 1] = IF n + 1 \in DOMAIN scene /\ scene[n + 1] \in DOMAIN sprite_lists
                     THEN g[n] \o sprite_lists[scene[n + 1]] ELSE g[n]
      BY <1>12, <2>1 DEF AreJoined
    <2> QED
      BY <1>3, <1>14, <2>1, <2>2
  <1>17. \A n \in Nat : n \in T
    BY <1>15, <1>16, Induction
  <1>18. Len(scene) \in Nat
    <2>1. scene \in Seq(Nat)
      BY SpritesConstants
    <2> QED
      BY <2>1
  <1> QED
    BY <1>1, <1>13, <1>14, <1>17, <1>18

-----------------------------------------------------------------------------
(* Sprites, their lists and their cameras stay what they are.              *)

LEMMA SpritesInit == ASSUME Sprites!Init PROVE Sprites!SpritesInv
  <1>1. /\ sprite_sprites = <<>> /\ sprite_lists = <<>> /\ sprite_camera = None
    BY DEF Sprites!Init
  <1>2. DOMAIN sprite_lists = {}
    BY <1>1
  <1> QED
    BY <1>1, <1>2 DEF Sprites!SpritesInv

SpriteListsInv ==
    /\ sprite_lists \in Seq(Seq(Sprites!Indices))
    /\ \A l \in DOMAIN sprite_lists : Different(sprite_lists[l])

LEMMA SpritesInvIs ==
    Sprites!SpritesInv <=>
       /\ sprite_sprites \in Seq(Sprites!Sprite \cup {None})
       /\ SpriteListsInv
       /\ sprite_camera \in Sprites!Camera \cup {None}
  BY DEF Sprites!SpritesInv, SpriteListsInv, Different

LEMMA SolidIsSprite ==
    ASSUME NEW place \in SpritePlaces, NEW half \in Halves
    PROVE  Sprites!Solid(place, half) \in Sprites!Sprite
  <1>1. place \in Sprites!Point /\ half \in Sprites!Point
    BY SpritesConstants
  <1>2. Sprites!At(0, 0) \in Sprites!Point
    BY DEF Sprites!At, Sprites!Point
  <1>3. 1 \in Nat \ {0} /\ 0 \in Int /\ TRUE \in BOOLEAN /\ FALSE \in BOOLEAN
    OBVIOUS
  <1> QED
    BY <1>1, <1>2, <1>3, SpriteFields DEF Sprites!Solid

LEMMA SpriteMade ==
    ASSUME Sprites!SpritesInv, NEW place \in SpritePlaces, NEW half \in Halves,
           \/ Sprites!make_solid_sprite(place, half)
           \/ \E scale \in Scales : Sprites!load_sprite(place, half, scale)
    PROVE  Sprites!SpritesInv'
  <1>1. PICK p : p = Sprites!Solid(place, half)
    OBVIOUS
  <1>2. p \in Sprites!Sprite
    BY <1>1, SolidIsSprite
  <1>3. \E s \in Sprites!Sprite : sprite_sprites' = Append(sprite_sprites, s)
    <2>1. CASE Sprites!make_solid_sprite(place, half)
      BY <1>1, <1>2, <2>1 DEF Sprites!make_solid_sprite
    <2>2. CASE \E scale \in Scales : Sprites!load_sprite(place, half, scale)
      <3>1. PICK scale \in Scales : Sprites!load_sprite(place, half, scale)
        BY <2>2
      <3>2. PICK q : q = [p EXCEPT !.scale = scale]
        OBVIOUS
      <3>3. scale \in Nat \ {0}
        BY SpritesConstants
      <3>4. q \in Sprites!Sprite /\ [q EXCEPT !.textured = TRUE] \in Sprites!Sprite
        BY <1>2, <3>2, <3>3, SpriteChanged
      <3>5. [p EXCEPT !.scale = scale, !.textured = TRUE] = [q EXCEPT !.textured = TRUE]
        BY <3>2
      <3> QED
        BY <1>1, <3>1, <3>4, <3>5 DEF Sprites!load_sprite
    <2> QED
      BY <2>1, <2>2
  <1>4. PICK s \in Sprites!Sprite : sprite_sprites' = Append(sprite_sprites, s)
    BY <1>3
  <1>5. PICK S : S = Sprites!Sprite \cup {None}
    OBVIOUS
  <1>6. sprite_sprites \in Seq(S) /\ s \in S
    BY <1>5 DEF Sprites!SpritesInv
  <1>7. sprite_sprites' \in Seq(S)
    BY <1>4, <1>6
  <1>8. sprite_lists' = sprite_lists /\ sprite_camera' = sprite_camera
    BY DEF Sprites!make_solid_sprite, Sprites!load_sprite
  <1> QED
    BY <1>5, <1>7, <1>8 DEF Sprites!SpritesInv

\* A registry of which one sprite is another.
LEMMA SpriteReplaced ==
    ASSUME Sprites!SpritesInv, NEW i \in DOMAIN sprite_sprites,
           NEW s \in Sprites!Sprite \cup {None}
    PROVE  [sprite_sprites EXCEPT ![i] = s] \in Seq(Sprites!Sprite \cup {None})
  <1>1. PICK S : S = Sprites!Sprite \cup {None}
    OBVIOUS
  <1>2. sprite_sprites \in Seq(S) /\ s \in S
    BY <1>1 DEF Sprites!SpritesInv
  <1> QED
    BY <1>1, <1>2

LEMMA SpriteIsThere ==
    ASSUME Sprites!SpritesInv, NEW i, Sprites!Live(i)
    PROVE  i \in DOMAIN sprite_sprites /\ sprite_sprites[i] \in Sprites!Sprite
  <1>1. PICK S : S = Sprites!Sprite \cup {None}
    OBVIOUS
  <1>2. sprite_sprites \in Seq(S) /\ i \in DOMAIN sprite_sprites /\ sprite_sprites[i] # None
    BY <1>1 DEF Sprites!SpritesInv, Sprites!Live
  <1>3. sprite_sprites[i] \in S
    BY <1>2
  <1> QED
    BY <1>1, <1>2, <1>3

LEMMA SpriteAttribute ==
    ASSUME Sprites!SpritesInv, NEW i, NEW s \in Sprites!Sprite, Sprites!Changed(i, s)
    PROVE  Sprites!SpritesInv'
  <1>1. i \in DOMAIN sprite_sprites
    BY DEF Sprites!Changed, Sprites!Live
  <1>2. sprite_sprites' \in Seq(Sprites!Sprite \cup {None})
    BY <1>1, SpriteReplaced DEF Sprites!Changed
  <1>3. sprite_lists' = sprite_lists /\ sprite_camera' = sprite_camera
    BY DEF Sprites!Changed
  <1> QED
    BY <1>2, <1>3 DEF Sprites!SpritesInv

LEMMA SpriteSet ==
    ASSUME Sprites!SpritesInv, NEW i,
           \/ Sprites!stop_sprite(i)
           \/ \E place \in SpritePlaces : Sprites!set_sprite_pos(i, place)
           \/ \E v \in Velocities : Sprites!set_sprite_velocity(i, v)
           \/ \E q \in {1} : Sprites!set_sprite_angle(i, q) \/ Sprites!set_sprite_angular_velocity(i, q)
           \/ \E scale \in Scales : Sprites!set_sprite_scale(i, scale)
           \/ Sprites!set_sprite_visible(i, FALSE)
    PROVE  Sprites!SpritesInv'
  <1>1. Sprites!Live(i)
    BY DEF Sprites!stop_sprite, Sprites!set_sprite_pos, Sprites!set_sprite_velocity,
           Sprites!set_sprite_angle, Sprites!set_sprite_angular_velocity,
           Sprites!set_sprite_scale, Sprites!set_sprite_visible
  <1>2. PICK s \in Sprites!Sprite : s = sprite_sprites[i]
    BY <1>1, SpriteIsThere
  <1>3. /\ Sprites!At(0, 0) \in Sprites!Point
        /\ SpritePlaces \subseteq Sprites!Point /\ Velocities \subseteq Sprites!Point
        /\ Scales \subseteq Nat \ {0}
    BY SpritesConstants DEF Sprites!At, Sprites!Point
  <1>4. \E e \in Sprites!Sprite : Sprites!Changed(i, e)
    <2>1. CASE Sprites!stop_sprite(i)
      BY <1>2, <1>3, <2>1, SpriteChanged DEF Sprites!stop_sprite, Sprites!set_sprite_velocity
    <2>2. CASE \E place \in SpritePlaces : Sprites!set_sprite_pos(i, place)
      BY <1>2, <1>3, <2>2, SpriteChanged DEF Sprites!set_sprite_pos
    <2>3. CASE \E v \in Velocities : Sprites!set_sprite_velocity(i, v)
      BY <1>2, <1>3, <2>3, SpriteChanged DEF Sprites!set_sprite_velocity
    <2>4. CASE Sprites!set_sprite_angle(i, 1)
      <3>1. Sprites!Changed(i, [s EXCEPT !.angle = 1])
        BY <1>2, <2>4 DEF Sprites!set_sprite_angle
      <3>2. 1 \in Int
        OBVIOUS
      <3> QED
        BY <3>1, <3>2, SpriteChanged
    <2>5. CASE Sprites!set_sprite_angular_velocity(i, 1)
      <3>1. Sprites!Changed(i, [s EXCEPT !.angular_velocity = 1])
        BY <1>2, <2>5 DEF Sprites!set_sprite_angular_velocity
      <3>2. 1 \in Int
        OBVIOUS
      <3> QED
        BY <3>1, <3>2, SpriteChanged
    <2>6. CASE \E scale \in Scales : Sprites!set_sprite_scale(i, scale)
      BY <1>2, <1>3, <2>6, SpriteChanged DEF Sprites!set_sprite_scale
    <2>7. CASE Sprites!set_sprite_visible(i, FALSE)
      <3>1. Sprites!Changed(i, [s EXCEPT !.visible = FALSE])
        BY <1>2, <2>7 DEF Sprites!set_sprite_visible
      <3> QED
        BY <3>1, SpriteChanged
    <2> QED
      BY <2>1, <2>2, <2>3, <2>4, <2>5, <2>6, <2>7
  <1> QED
    BY <1>4, SpriteAttribute

\* The elements of one of the lists that are in a set, each once.
LEMMA ListChosen ==
    ASSUME SpriteListsInv, NEW l \in DOMAIN sprite_lists, NEW set
    PROVE  /\ Sprites!Chosen(sprite_lists[l], set) \in Seq(Sprites!Indices)
           /\ Different(Sprites!Chosen(sprite_lists[l], set))
  <1>1. sprite_lists[l] \in Seq(Sprites!Indices) /\ Different(sprite_lists[l])
    BY DEF SpriteListsInv
  <1>2. PICK s \in Seq(Sprites!Indices) : s = sprite_lists[l]
    BY <1>1
  <1>3. Sprites!Chosen(s, set) \in Seq(Sprites!Indices)
    BY ChosenIsFrom
  <1>4. From(Sprites!Chosen(s, set), s, Len(s), set)
    BY ChosenIsFrom
  <1>5. Different(Sprites!Chosen(s, set))
    BY <1>1, <1>2, <1>4 DEF From
  <1> QED
    BY <1>2, <1>3, <1>5

LEMMA SpriteDestroyed ==
    ASSUME Sprites!SpritesInv, NEW i, Sprites!destroy_sprite(i)
    PROVE  Sprites!SpritesInv'
  <1>1. i \in DOMAIN sprite_sprites /\ sprite_camera' = sprite_camera
    BY DEF Sprites!destroy_sprite
  <1>2. sprite_sprites' \in Seq(Sprites!Sprite \cup {None})
    BY <1>1, SpriteReplaced DEF Sprites!destroy_sprite
  <1>3. PICK set : set = Sprites!Indices \ {i}
    OBVIOUS
  <1>4. sprite_lists' = [l \in DOMAIN sprite_lists |-> Sprites!Chosen(sprite_lists[l], set)]
    BY <1>3 DEF Sprites!destroy_sprite
  <1>5. SpriteListsInv
    BY SpritesInvIs
  <1>6. Len(sprite_lists) \in Nat /\ DOMAIN sprite_lists = 1 .. Len(sprite_lists)
    BY DEF Sprites!SpritesInv
  <1>7. sprite_lists' \in [1 .. Len(sprite_lists) -> Seq(Sprites!Indices)]
    BY <1>4, <1>5, <1>6, ListChosen
  <1>8. sprite_lists' \in Seq(Seq(Sprites!Indices))
    BY <1>6, <1>7
  <1>9. \A l \in DOMAIN sprite_lists' : Different(sprite_lists'[l])
    BY <1>4, <1>5, ListChosen
  <1> QED
    BY <1>1, <1>2, <1>8, <1>9 DEF Sprites!SpritesInv, Different

\* One of the lists is another.
LEMMA ListReplaced ==
    ASSUME Sprites!SpritesInv, NEW l \in DOMAIN sprite_lists,
           NEW t \in Seq(Sprites!Indices), Different(t),
           sprite_lists' = [sprite_lists EXCEPT ![l] = t],
           sprite_sprites' = sprite_sprites, sprite_camera' = sprite_camera
    PROVE  Sprites!SpritesInv'
  <1>1. PICK S : S = Seq(Sprites!Indices)
    OBVIOUS
  <1>2. sprite_lists \in Seq(S) /\ t \in S /\ SpriteListsInv
    BY <1>1, SpritesInvIs DEF Sprites!SpritesInv
  <1>3. sprite_lists' \in Seq(S) /\ DOMAIN sprite_lists' = DOMAIN sprite_lists
    BY <1>2
  <1>4. \A m \in DOMAIN sprite_lists' : sprite_lists'[m] = IF m = l THEN t ELSE sprite_lists[m]
    BY <1>2, <1>3
  <1>5. \A m \in DOMAIN sprite_lists' : Different(sprite_lists'[m])
    BY <1>2, <1>3, <1>4 DEF SpriteListsInv
  <1> QED
    BY <1>1, <1>3, <1>5 DEF Sprites!SpritesInv, Different

LEMMA ListChanged ==
    ASSUME Sprites!SpritesInv, NEW l, NEW i \in Sprites!Indices,
           Sprites!add_to_list(l, i) \/ Sprites!remove_sprite_from_list(l, i)
    PROVE  Sprites!SpritesInv'
  <1>1. /\ l \in DOMAIN sprite_lists
        /\ sprite_sprites' = sprite_sprites /\ sprite_camera' = sprite_camera
    BY DEF Sprites!add_to_list, Sprites!remove_sprite_from_list
  <1>2. SpriteListsInv
    BY SpritesInvIs
  <1>3. PICK s \in Seq(Sprites!Indices) : s = sprite_lists[l]
    BY <1>1, <1>2 DEF SpriteListsInv
  <1>4. Different(s)
    BY <1>1, <1>2, <1>3 DEF SpriteListsInv
  <1>5. CASE Sprites!add_to_list(l, i)
    <2>1. PICK t : t = Append(s, i)
      OBVIOUS
    <2>2. sprite_lists' = [sprite_lists EXCEPT ![l] = t]
      BY <1>3, <1>5, <2>1 DEF Sprites!add_to_list
    <2>3. /\ t \in Seq(Sprites!Indices) /\ Len(s) \in Nat /\ DOMAIN s = 1 .. Len(s)
          /\ DOMAIN t = 1 .. Len(s) + 1
          /\ \A k \in 1 .. Len(s) : t[k] = s[k]
          /\ t[Len(s) + 1] = i
      BY <2>1
    <2>4. \A k \in DOMAIN s : s[k] # i
      BY <1>3, <1>5 DEF Sprites!add_to_list
    <2>5. \A k \in DOMAIN t : k \in DOMAIN s \/ k = Len(s) + 1
      BY <2>3
    <2>6. Different(t)
      BY <1>4, <2>3, <2>4, <2>5 DEF Different
    <2> QED
      BY <1>1, <2>2, <2>3, <2>6, ListReplaced
  <1>6. CASE Sprites!remove_sprite_from_list(l, i)
    <2>1. PICK t : t = Sprites!Chosen(s, Sprites!Indices \ {i})
      OBVIOUS
    <2>2. sprite_lists' = [sprite_lists EXCEPT ![l] = t]
      BY <1>3, <1>6, <2>1 DEF Sprites!remove_sprite_from_list
    <2>3. t \in Seq(Sprites!Indices) /\ Different(t)
      BY <1>1, <1>2, <1>3, <2>1, ListChosen
    <2> QED
      BY <1>1, <2>2, <2>3, ListReplaced
  <1> QED
    BY <1>5, <1>6

LEMMA ListMade ==
    ASSUME Sprites!SpritesInv, Sprites!make_sprite_list
    PROVE  Sprites!SpritesInv'
  <1>1. PICK S : S = Seq(Sprites!Indices)
    OBVIOUS
  <1>2. PICK e : e = <<>>
    OBVIOUS
  <1>3. e \in S /\ DOMAIN e = {}
    BY <1>1, <1>2
  <1>4. sprite_lists \in Seq(S) /\ SpriteListsInv
    BY <1>1, SpritesInvIs DEF Sprites!SpritesInv
  <1>5. /\ sprite_lists' = Append(sprite_lists, e)
        /\ sprite_sprites' = sprite_sprites /\ sprite_camera' = sprite_camera
    BY <1>2 DEF Sprites!make_sprite_list
  <1>6. /\ sprite_lists' \in Seq(S)
        /\ Len(sprite_lists) \in Nat /\ DOMAIN sprite_lists = 1 .. Len(sprite_lists)
        /\ DOMAIN sprite_lists' = 1 .. Len(sprite_lists) + 1
        /\ \A l \in 1 .. Len(sprite_lists) : sprite_lists'[l] = sprite_lists[l]
        /\ sprite_lists'[Len(sprite_lists) + 1] = e
    BY <1>3, <1>4, <1>5
  <1>7. Different(e)
    BY <1>3 DEF Different
  <1>8. \A l \in DOMAIN sprite_lists' : l \in DOMAIN sprite_lists \/ l = Len(sprite_lists) + 1
    BY <1>6
  <1>9. \A l \in DOMAIN sprite_lists' : Different(sprite_lists'[l])
    BY <1>4, <1>6, <1>7, <1>8 DEF SpriteListsInv
  <1> QED
    BY <1>1, <1>5, <1>6, <1>9 DEF Sprites!SpritesInv, Different

LEMMA SpritesUpdated ==
    ASSUME Sprites!SpritesInv, NEW name, NEW members \in Seq(Sprites!Indices),
           Sprites!Update(name, members)
    PROVE  Sprites!SpritesInv'
  <1>1. /\ sprite_sprites' = Sprites!MovedAll(members)
        /\ sprite_lists' = sprite_lists /\ sprite_camera' = sprite_camera
    BY DEF Sprites!Update
  <1>2. Sprites!MovedAll(members) \in Registries
    BY MovedAllIsRegistry
  <1> QED
    BY <1>1, <1>2 DEF Sprites!SpritesInv, Registries

LEMMA SpritesDrawn ==
    ASSUME Sprites!SpritesInv, NEW name, NEW members, Sprites!Draw(name, members)
    PROVE  Sprites!SpritesInv'
  <1>1. /\ sprite_sprites' = sprite_sprites
        /\ sprite_lists' = sprite_lists /\ sprite_camera' = sprite_camera
    BY DEF Sprites!Draw
  <1> QED
    BY <1>1 DEF Sprites!SpritesInv

LEMMA CameraLooks ==
    ASSUME Sprites!SpritesInv,
           \/ Sprites!use_camera \/ Sprites!reset_camera
           \/ \E place \in SpritePlaces : Sprites!set_camera_pos(place)
           \/ \E zoom \in Zooms : Sprites!zoom_camera(zoom)
    PROVE  Sprites!SpritesInv'
  <1>1. sprite_lists' = sprite_lists /\ sprite_sprites' = sprite_sprites
    BY DEF Sprites!use_camera, Sprites!reset_camera, Sprites!set_camera_pos,
           Sprites!zoom_camera, Sprites!Look
  <1>2. sprite_camera' \in Sprites!Camera \cup {None}
    <2>1. CASE Sprites!use_camera
      BY <2>1 DEF Sprites!use_camera, Sprites!Look, Sprites!Camera, Sprites!At, Sprites!Point
    <2>2. CASE Sprites!reset_camera
      BY <2>2 DEF Sprites!reset_camera, Sprites!Look
    <2>3. CASE \E place \in SpritePlaces : Sprites!set_camera_pos(place)
      <3>1. PICK place \in SpritePlaces : Sprites!set_camera_pos(place)
        BY <2>3
      <3>2. place \in Sprites!Point /\ sprite_camera \in Sprites!Camera
        BY <3>1, SpritesConstants DEF Sprites!set_camera_pos, Sprites!SpritesInv
      <3>3. [sprite_camera EXCEPT !.at = place] \in Sprites!Camera
        BY <3>2 DEF Sprites!Camera
      <3> QED
        BY <3>1, <3>3 DEF Sprites!set_camera_pos, Sprites!Look
    <2>4. CASE \E zoom \in Zooms : Sprites!zoom_camera(zoom)
      <3>1. PICK zoom \in Zooms : Sprites!zoom_camera(zoom)
        BY <2>4
      <3>2. PICK z : z = IF zoom > 0 THEN zoom ELSE 1
        OBVIOUS
      <3>3. zoom \in Int
        BY SpritesConstants
      <3>4. z \in Nat \ {0}
        BY <3>2, <3>3
      <3>5. sprite_camera \in Sprites!Camera
        BY <3>1 DEF Sprites!zoom_camera, Sprites!SpritesInv
      <3>6. [sprite_camera EXCEPT !.zoom = z] \in Sprites!Camera
        BY <3>4, <3>5 DEF Sprites!Camera
      <3> QED
        BY <3>1, <3>2, <3>6 DEF Sprites!zoom_camera, Sprites!Look
    <2> QED
      BY <2>1, <2>2, <2>3, <2>4
  <1> QED
    BY <1>1, <1>2 DEF Sprites!SpritesInv

\* The sprites that an update or a drawing is about.
LEMMA MembersAre ==
    ASSUME Sprites!SpritesInv
    PROVE  /\ \A i \in Sprites!Indices : <<i>> \in Seq(Sprites!Indices) /\ Different(<<i>>)
           /\ \A l \in DOMAIN sprite_lists :
                 sprite_lists[l] \in Seq(Sprites!Indices) /\ Different(sprite_lists[l])
  <1>1. ASSUME NEW i \in Sprites!Indices
        PROVE  <<i>> \in Seq(Sprites!Indices) /\ Different(<<i>>)
    BY DEF Different
  <1> QED
    BY <1>1, SpritesInvIs DEF SpriteListsInv

LEMMA SpritesStep ==
    ASSUME Sprites!SpritesInv, [Sprites!Next]_sprite_vars
    PROVE  Sprites!SpritesInv'
  <1>1. CASE UNCHANGED sprite_vars
    BY <1>1 DEF sprite_vars, Sprites!SpritesInv
  <1>2. ASSUME NEW place \in SpritePlaces, NEW half \in Halves,
               \/ Sprites!make_solid_sprite(place, half)
               \/ \E scale \in Scales : Sprites!load_sprite(place, half, scale)
        PROVE  Sprites!SpritesInv'
    BY <1>2, SpriteMade
  <1>3. ASSUME NEW i \in Sprites!Indices, Sprites!destroy_sprite(i) PROVE Sprites!SpritesInv'
    BY <1>3, SpriteDestroyed
  <1>4. ASSUME NEW i \in Sprites!Indices,
               \/ Sprites!stop_sprite(i)
               \/ \E place \in SpritePlaces : Sprites!set_sprite_pos(i, place)
               \/ \E v \in Velocities : Sprites!set_sprite_velocity(i, v)
               \/ \E q \in {1} : Sprites!set_sprite_angle(i, q) \/ Sprites!set_sprite_angular_velocity(i, q)
               \/ \E scale \in Scales : Sprites!set_sprite_scale(i, scale)
               \/ Sprites!set_sprite_visible(i, FALSE)
        PROVE  Sprites!SpritesInv'
    BY <1>4, SpriteSet
  <1>5. ASSUME NEW i \in Sprites!Indices, Sprites!update_sprite(i) PROVE Sprites!SpritesInv'
    BY <1>5, MembersAre, SpritesUpdated DEF Sprites!update_sprite
  <1>6. ASSUME NEW i \in Sprites!Indices, Sprites!draw_sprite(i) PROVE Sprites!SpritesInv'
    BY <1>6, SpritesDrawn DEF Sprites!draw_sprite
  <1>7. CASE Sprites!make_sprite_list
    BY <1>7, ListMade
  <1>8. ASSUME NEW l, NEW i \in Sprites!Indices,
               Sprites!add_to_list(l, i) \/ Sprites!remove_sprite_from_list(l, i)
        PROVE  Sprites!SpritesInv'
    BY <1>8, ListChanged
  <1>9. ASSUME NEW l, Sprites!update_sprite_list(l) PROVE Sprites!SpritesInv'
    BY <1>9, MembersAre, SpritesUpdated DEF Sprites!update_sprite_list
  <1>10. ASSUME NEW l, Sprites!draw_sprite_list(l) PROVE Sprites!SpritesInv'
    BY <1>10, SpritesDrawn DEF Sprites!draw_sprite_list
  <1>11. ASSUME NEW scene \in SpriteScenes, Sprites!update_scene(scene) PROVE Sprites!SpritesInv'
    BY <1>11, MembersAreIndices, SpritesUpdated DEF Sprites!update_scene
  <1>12. ASSUME NEW scene \in SpriteScenes, Sprites!draw_scene(scene) PROVE Sprites!SpritesInv'
    BY <1>12, SpritesDrawn DEF Sprites!draw_scene
  <1>13. CASE \/ Sprites!use_camera \/ Sprites!reset_camera
              \/ \E place \in SpritePlaces : Sprites!set_camera_pos(place)
              \/ \E zoom \in Zooms : Sprites!zoom_camera(zoom)
    BY <1>13, CameraLooks
  <1> QED
    BY <1>1, <1>2, <1>3, <1>4, <1>5, <1>6, <1>7, <1>8, <1>9, <1>10, <1>11, <1>12, <1>13
       DEF Sprites!Next

-----------------------------------------------------------------------------
(* Sprites act as they are seen.                                           *)

\* Seen from o at w, enlarged by z, u and v are where a and b are.
Enlarges(u, v, a, b, o, w, z) == Sprites!Distance(u, v) = Sprites!Distance(a, b) * z

\* A lens enlarges and moves: what it shows is as far apart as it enlarges.
LEMMA Lens ==
    ASSUME NEW a \in Int, NEW b \in Int, NEW o \in Int, NEW w \in Int, NEW z \in Nat \ {0},
           NEW u \in Int, NEW v \in Int, u = (a - o) * z + w, v = (b - o) * z + w
    PROVE  Enlarges(u, v, a, b, o, w, z)
  <1>1. v - u = (b - a) * z /\ u - v = (a - b) * z
    OBVIOUS
  <1>2. CASE a < b
    <2>1. (b - a) * z > 0
      BY <1>2
    <2>2. u < v
      BY <1>1, <2>1
    <2> QED
      BY <1>1, <1>2, <2>2 DEF Sprites!Distance, Enlarges
  <1>3. CASE ~(a < b)
    <2>1. (a - b) * z >= 0
      BY <1>3
    <2>2. ~(u < v)
      BY <1>1, <2>1
    <2> QED
      BY <1>1, <1>3, <2>2 DEF Sprites!Distance, Enlarges
  <1> QED
    BY <1>2, <1>3

\* The screen is upside down.
LEMMA Mirror ==
    ASSUME NEW u \in Int, NEW v \in Int, NEW h \in Int
    PROVE  Sprites!Distance(2 * h - u, 2 * h - v) = Sprites!Distance(u, v)
  BY DEF Sprites!Distance

LEMMA Enlarged ==
    ASSUME NEW d \in Int, NEW e \in Int, NEW f \in Int, NEW z \in Nat \ {0}
    PROVE  (d * z <= e * z + f * z) <=> (d <= e + f)
  <1>1. e * z + f * z = (e + f) * z
    OBVIOUS
  <1>2. PICK n \in Int : n = e + f
    OBVIOUS
  <1>3. (d * z <= n * z) <=> (d <= n)
    <2>1. CASE d <= n
      <3>1. (n - d) * z >= 0
        BY <2>1
      <3>2. n * z - d * z = (n - d) * z
        OBVIOUS
      <3> QED
        BY <2>1, <3>1, <3>2
    <2>2. CASE ~(d <= n)
      <3>1. (d - n) * z > 0
        BY <2>2
      <3>2. d * z - n * z = (d - n) * z
        OBVIOUS
      <3> QED
        BY <2>2, <3>1, <3>2
    <2> QED
      BY <2>1, <2>2
  <1> QED
    BY <1>1, <1>2, <1>3

\* The camera's zoom and its place, one and the origin without a camera.
LensIs(z, p) ==
    /\ z \in Nat \ {0} /\ p \in Sprites!Point
    /\ Sprites!screen_scale = z
    /\ \/ /\ sprite_camera = None /\ z = 1 /\ p = Sprites!At(0, 0)
       \/ sprite_camera # None /\ p = sprite_camera.at /\ z = sprite_camera.zoom

LEMMA CameraIsLens == ASSUME Sprites!SpritesInv PROVE \E z, p : LensIs(z, p)
  <1>1. CASE sprite_camera = None
    <2>1. Sprites!At(0, 0) \in Sprites!Point /\ 1 \in Nat \ {0}
      BY DEF Sprites!At, Sprites!Point
    <2> QED
      BY <1>1, <2>1 DEF LensIs, Sprites!screen_scale
  <1>2. CASE sprite_camera # None
    <2>1. sprite_camera \in Sprites!Camera
      BY <1>2 DEF Sprites!SpritesInv
    <2> QED
      BY <1>2, <2>1 DEF LensIs, Sprites!screen_scale, Sprites!Camera
  <1> QED
    BY <1>1, <1>2

\* On the screen two points are as far apart as the camera enlarges.
LEMMA ScreenDistance ==
    ASSUME NEW z, NEW p, LensIs(z, p), NEW a \in Sprites!Point, NEW b \in Sprites!Point
    PROVE  /\ Sprites!Distance(Sprites!screen_pos(a).x, Sprites!screen_pos(b).x)
                 = Sprites!Distance(a.x, b.x) * z
           /\ Sprites!Distance(Sprites!screen_pos(a).y, Sprites!screen_pos(b).y)
                 = Sprites!Distance(a.y, b.y) * z
  <1>1. /\ a.x \in Int /\ a.y \in Int /\ b.x \in Int /\ b.y \in Int
        /\ p.x \in Int /\ p.y \in Int /\ z \in Nat \ {0}
        /\ WindowHalf.x \in Int /\ WindowHalf.y \in Int
    BY SpritesConstants DEF LensIs, Sprites!Point
  <1>2. PICK ax \in Int, ay \in Int, bx \in Int, by \in Int, px \in Int, py \in Int,
              wx \in Int, wy \in Int, zoom \in Nat \ {0} :
           /\ ax = a.x /\ ay = a.y /\ bx = b.x /\ by = b.y /\ px = p.x /\ py = p.y
           /\ wx = WindowHalf.x /\ wy = WindowHalf.y /\ zoom = z
    BY <1>1
  <1>3. CASE sprite_camera = None
    <2>1. /\ Sprites!screen_pos(a) = [x |-> ax, y |-> 2 * wy - ay]
          /\ Sprites!screen_pos(b) = [x |-> bx, y |-> 2 * wy - by]
      BY <1>2, <1>3 DEF Sprites!screen_pos, Sprites!At
    <2>2. z = 1
      BY <1>3 DEF LensIs
    <2>3. Sprites!Distance(2 * wy - ay, 2 * wy - by) = Sprites!Distance(ay, by)
      BY Mirror
    <2>4. /\ Sprites!Distance(ax, bx) * 1 = Sprites!Distance(ax, bx)
          /\ Sprites!Distance(ay, by) * 1 = Sprites!Distance(ay, by)
      BY DEF Sprites!Distance
    <2> QED
      BY <1>2, <2>1, <2>2, <2>3, <2>4
  <1>4. CASE sprite_camera # None
    <2>1. PICK u \in Int : u = (ay - py) * zoom + wy
      OBVIOUS
    <2>2. PICK v \in Int : v = (by - py) * zoom + wy
      OBVIOUS
    <2>3. PICK s \in Int : s = (ax - px) * zoom + wx
      OBVIOUS
    <2>4. PICK t \in Int : t = (bx - px) * zoom + wx
      OBVIOUS
    <2>5. /\ Sprites!screen_pos(a) = [x |-> s, y |-> 2 * wy - u]
          /\ Sprites!screen_pos(b) = [x |-> t, y |-> 2 * wy - v]
      BY <1>2, <1>4, <2>1, <2>2, <2>3, <2>4 DEF Sprites!screen_pos, Sprites!At, LensIs
    <2>6. Enlarges(u, v, ay, by, py, wy, zoom) /\ Enlarges(s, t, ax, bx, px, wx, zoom)
      BY <2>1, <2>2, <2>3, <2>4, Lens
    <2>7. Sprites!Distance(2 * wy - u, 2 * wy - v) = Sprites!Distance(u, v)
      BY Mirror
    <2> QED
      BY <1>2, <2>5, <2>6, <2>7 DEF Enlarges
  <1> QED
    BY <1>3, <1>4

\* The picture of a sprite is its box, enlarged.
LEMMA PictureIsBox ==
    ASSUME Sprites!SpritesInv, NEW z, NEW p, LensIs(z, p), NEW i, Sprites!TurnsAsItsBox(i),
           NEW s \in Sprites!Sprite, s = sprite_sprites[i]
    PROVE  /\ Sprites!OnScreen(s).at = Sprites!screen_pos(s.at)
           /\ Sprites!Box(s).x \in Int /\ Sprites!Box(s).y \in Int
           /\ Sprites!OnScreen(s).extents =
                 [x |-> Sprites!Box(s).x * z, y |-> Sprites!Box(s).y * z]
  <1>1. s.half.x \in Int /\ s.half.y \in Int /\ s.scale \in Nat \ {0} /\ s.angle \in Int
    BY SpriteHas
  <1>2. z \in Nat \ {0} /\ Sprites!screen_scale = z
    BY DEF LensIs
  <1>3. PICK h : h = Sprites!Scaled(s.half, s.scale)
    OBVIOUS
  <1>4. PICK g : g = Sprites!Scaled(s.half, s.scale * z)
    OBVIOUS
  <1>5. /\ h = [x |-> s.half.x * s.scale, y |-> s.half.y * s.scale]
        /\ g = [x |-> s.half.x * (s.scale * z), y |-> s.half.y * (s.scale * z)]
    BY <1>3, <1>4 DEF Sprites!Scaled, Sprites!At
  <1>6. \A u \in Int, c, d \in Nat \ {0} : u * (c * d) = (u * c) * d /\ u * c \in Int
    OBVIOUS
  <1>7. /\ h.x \in Int /\ h.y \in Int
        /\ g.x = h.x * z /\ g.y = h.y * z
    BY <1>1, <1>2, <1>5, <1>6
  <1>8. Sprites!Box(s) = Sprites!Extents(h, s.angle)
    BY <1>3 DEF Sprites!Box
  <1>9. CASE s.angle % 2 = 1
    <2>1. s.textured
      BY <1>1, <1>9 DEF Sprites!TurnsAsItsBox
    <2>2. Sprites!Box(s) = [x |-> h.y, y |-> h.x]
      BY <1>8, <1>9 DEF Sprites!Extents, Sprites!At
    <2>3. Sprites!OnScreen(s).extents = [x |-> g.y, y |-> g.x]
      BY <1>2, <1>4, <1>9, <2>1 DEF Sprites!OnScreen, Sprites!Extents, Sprites!At
    <2>4. Sprites!OnScreen(s).at = Sprites!screen_pos(s.at)
      BY DEF Sprites!OnScreen
    <2> QED
      BY <1>7, <2>2, <2>3, <2>4
  <1>10. CASE s.angle % 2 # 1
    <2>1. Sprites!Box(s) = h
      BY <1>8, <1>10 DEF Sprites!Extents
    <2>2. Sprites!OnScreen(s).extents = g
      BY <1>2, <1>4, <1>10 DEF Sprites!OnScreen, Sprites!Extents
    <2>3. Sprites!OnScreen(s).at = Sprites!screen_pos(s.at)
      BY DEF Sprites!OnScreen
    <2>4. g = [x |-> h.x * z, y |-> h.y * z]
      BY <1>5, <1>7
    <2> QED
      BY <1>7, <2>1, <2>2, <2>3, <2>4
  <1> QED
    BY <1>9, <1>10

LEMMA DrawnAsTheyCollide == ASSUME Sprites!SpritesInv PROVE Sprites!CollisionsAreSeen
  <1>1. ASSUME NEW i \in DOMAIN sprite_sprites, NEW j \in DOMAIN sprite_sprites,
               Sprites!TurnsAsItsBox(i), Sprites!TurnsAsItsBox(j),
               NEW a, a = Sprites!OnScreen(sprite_sprites[i]),
               NEW b, b = Sprites!OnScreen(sprite_sprites[j])
        PROVE  Sprites!sprite_collides(i, j) = Sprites!Touch(a.at, a.extents, b.at, b.extents)
    <2>1. Sprites!Live(i) /\ Sprites!Live(j)
      BY <1>1 DEF Sprites!TurnsAsItsBox
    <2>2. PICK s \in Sprites!Sprite : s = sprite_sprites[i]
      BY <2>1, SpriteIsThere
    <2>3. PICK t \in Sprites!Sprite : t = sprite_sprites[j]
      BY <2>1, SpriteIsThere
    <2>4. PICK z, p : LensIs(z, p)
      BY CameraIsLens
    <2>5. /\ a.at = Sprites!screen_pos(s.at) /\ Sprites!Box(s).x \in Int /\ Sprites!Box(s).y \in Int
          /\ a.extents = [x |-> Sprites!Box(s).x * z, y |-> Sprites!Box(s).y * z]
      BY <1>1, <2>2, <2>4, PictureIsBox
    <2>6. /\ b.at = Sprites!screen_pos(t.at) /\ Sprites!Box(t).x \in Int /\ Sprites!Box(t).y \in Int
          /\ b.extents = [x |-> Sprites!Box(t).x * z, y |-> Sprites!Box(t).y * z]
      BY <1>1, <2>3, <2>4, PictureIsBox
    <2>7. s.at \in Sprites!Point /\ t.at \in Sprites!Point /\ z \in Nat \ {0}
      BY <2>4, SpriteHas DEF LensIs
    <2>8. /\ Sprites!Distance(a.at.x, b.at.x) = Sprites!Distance(s.at.x, t.at.x) * z
          /\ Sprites!Distance(a.at.y, b.at.y) = Sprites!Distance(s.at.y, t.at.y) * z
      BY <2>4, <2>5, <2>6, <2>7, ScreenDistance
    <2>9. /\ Sprites!Distance(s.at.x, t.at.x) \in Int
          /\ Sprites!Distance(s.at.y, t.at.y) \in Int
      <3>1. /\ s.at.x \in Int /\ s.at.y \in Int /\ t.at.x \in Int /\ t.at.y \in Int
        BY SpriteHas
      <3> QED
        BY <3>1 DEF Sprites!Distance
    <2>10. /\ (Sprites!Distance(a.at.x, b.at.x) <= a.extents.x + b.extents.x)
                <=> (Sprites!Distance(s.at.x, t.at.x) <= Sprites!Box(s).x + Sprites!Box(t).x)
           /\ (Sprites!Distance(a.at.y, b.at.y) <= a.extents.y + b.extents.y)
                <=> (Sprites!Distance(s.at.y, t.at.y) <= Sprites!Box(s).y + Sprites!Box(t).y)
      <3>1. /\ a.extents.x = Sprites!Box(s).x * z /\ a.extents.y = Sprites!Box(s).y * z
            /\ b.extents.x = Sprites!Box(t).x * z /\ b.extents.y = Sprites!Box(t).y * z
        BY <2>5, <2>6
      <3> QED
        BY <2>5, <2>6, <2>7, <2>8, <2>9, <3>1, Enlarged
    <2>11. Sprites!Touch(a.at, a.extents, b.at, b.extents)
              <=> Sprites!Touch(s.at, Sprites!Box(s), t.at, Sprites!Box(t))
      BY <2>10 DEF Sprites!Touch
    <2>12. Sprites!sprite_collides(i, j) <=> Sprites!Touch(s.at, Sprites!Box(s), t.at, Sprites!Box(t))
      BY <2>1, <2>2, <2>3 DEF Sprites!sprite_collides, Sprites!collides
    <2> QED
      BY <2>11, <2>12 DEF Sprites!sprite_collides, Sprites!Touch
  <1> QED
    BY <1>1 DEF Sprites!CollisionsAreSeen

LEMMA CollidingIsMutual == ASSUME Sprites!SpritesInv PROVE Sprites!CollisionsAreMutual
  <1>1. ASSUME NEW i \in DOMAIN sprite_sprites, NEW j \in DOMAIN sprite_sprites,
               Sprites!Live(i), Sprites!Live(j)
        PROVE  Sprites!collides(sprite_sprites[i], sprite_sprites[j])
                  <=> Sprites!collides(sprite_sprites[j], sprite_sprites[i])
    <2>1. PICK s \in Sprites!Sprite : s = sprite_sprites[i]
      BY <1>1, SpriteIsThere
    <2>2. PICK t \in Sprites!Sprite : t = sprite_sprites[j]
      BY <1>1, SpriteIsThere
    <2>3. \A u, v \in Int : Sprites!Distance(u, v) = Sprites!Distance(v, u)
      BY DEF Sprites!Distance
    <2>4. /\ s.at.x \in Int /\ s.at.y \in Int /\ t.at.x \in Int /\ t.at.y \in Int
      BY SpriteHas
    <2>5. \A e \in Sprites!Sprite : Sprites!Box(e).x \in Int /\ Sprites!Box(e).y \in Int
      <3>1. ASSUME NEW e \in Sprites!Sprite PROVE Sprites!Box(e).x \in Int /\ Sprites!Box(e).y \in Int
        <4>1. e.half.x \in Int /\ e.half.y \in Int /\ e.scale \in Int
          BY SpriteHas
        <4>2. e.half.x * e.scale \in Int /\ e.half.y * e.scale \in Int
          BY <4>1
        <4> QED
          BY <4>2 DEF Sprites!Box, Sprites!Extents, Sprites!Scaled, Sprites!At
      <3> QED
        BY <3>1
    <2>6. Sprites!Touch(s.at, Sprites!Box(s), t.at, Sprites!Box(t))
             <=> Sprites!Touch(t.at, Sprites!Box(t), s.at, Sprites!Box(s))
      <3>1. \A u, v \in Int : u + v = v + u
        OBVIOUS
      <3>2. /\ Sprites!Box(s).x + Sprites!Box(t).x = Sprites!Box(t).x + Sprites!Box(s).x
            /\ Sprites!Box(s).y + Sprites!Box(t).y = Sprites!Box(t).y + Sprites!Box(s).y
        BY <2>5, <3>1
      <3> QED
        BY <2>3, <2>4, <3>2 DEF Sprites!Touch
    <2> QED
      BY <2>1, <2>2, <2>6 DEF Sprites!collides
  <1>2. ASSUME NEW i \in DOMAIN sprite_sprites, NEW j \in DOMAIN sprite_sprites
        PROVE  Sprites!sprite_collides(i, j) <=> Sprites!sprite_collides(j, i)
    BY <1>1 DEF Sprites!sprite_collides
  <1> QED
    BY <1>2 DEF Sprites!CollisionsAreMutual, Sprites!sprite_collides

LEMMA ListsCollideAsTheirSprites == ASSUME Sprites!SpritesInv PROVE Sprites!ListsCollide
  <1>1. ASSUME NEW l \in DOMAIN sprite_lists, NEW i \in DOMAIN sprite_sprites
        PROVE  Sprites!collides_with_list(i, l) <=> Sprites!colliding(i, l) # <<>>
    <2>1. PICK s \in Seq(Sprites!Indices) : s = sprite_lists[l]
      BY MembersAre
    <2>2. PICK set : set = {j \in Sprites!Indices : Sprites!sprite_collides(i, j)}
      OBVIOUS
    <2>3. Sprites!colliding(i, l) = Sprites!Chosen(s, set)
      BY <2>1, <2>2 DEF Sprites!colliding
    <2>4. From(Sprites!Chosen(s, set), s, Len(s), set)
      BY ChosenIsFrom
    <2>5. Sprites!Chosen(s, set) # <<>> <=> \E m \in DOMAIN s : m <= Len(s) /\ s[m] \in set
      BY <2>4 DEF From
    <2>6. \A m \in DOMAIN s : m <= Len(s) /\ s[m] \in Sprites!Indices
      OBVIOUS
    <2>7. Sprites!collides_with_list(i, l) <=> \E m \in DOMAIN s : s[m] \in set
      BY <2>1, <2>2, <2>6 DEF Sprites!collides_with_list
    <2> QED
      BY <2>3, <2>5, <2>6, <2>7
  <1> QED
    BY <1>1 DEF Sprites!ListsCollide, Sprites!collides_with_list

LEMMA UpdatesMove ==
    ASSUME Sprites!SpritesInv, [Sprites!Next]_sprite_vars,
           sprite_call'.name = "update", sprite_frame' # sprite_frame
    PROVE  Sprites!NamedSpritesMove
  <1>1. \E members \in Seq(Sprites!Indices) : Different(members) /\ Sprites!Update("update", members)
    <2>1. sprite_frame' # sprite_frame => ~UNCHANGED sprite_vars
      BY DEF sprite_vars
    <2>2. Sprites!Next
      BY <2>1
    <2>3. ASSUME NEW i \in Sprites!Indices, Sprites!update_sprite(i)
          PROVE  \E members \in Seq(Sprites!Indices) :
                    Different(members) /\ Sprites!Update("update", members)
      <3>1. <<i>> \in Seq(Sprites!Indices) /\ Different(<<i>>)
        BY MembersAre
      <3> QED
        BY <2>3, <3>1 DEF Sprites!update_sprite
    <2>4. ASSUME NEW l, Sprites!update_sprite_list(l)
          PROVE  \E members \in Seq(Sprites!Indices) :
                    Different(members) /\ Sprites!Update("update", members)
      BY <2>4, MembersAre DEF Sprites!update_sprite_list
    <2>5. ASSUME NEW scene PROVE ~Sprites!update_scene(scene)
      BY <2>5 DEF Sprites!update_scene, Sprites!Update, Sprites!Called
    <2>6. ASSUME NEW name, NEW members PROVE ~Sprites!Draw(name, members)
      BY <2>6 DEF Sprites!Draw
    <2>7. ASSUME NEW i, NEW s PROVE ~Sprites!Changed(i, s)
      BY <2>7 DEF Sprites!Changed
    <2>8. ASSUME NEW c PROVE ~Sprites!Look(c)
      BY <2>8 DEF Sprites!Look
    <2>9. ASSUME NEW i, NEW e, NEW f, NEW g
          PROVE  /\ ~Sprites!destroy_sprite(i) /\ ~Sprites!make_sprite_list
                 /\ ~Sprites!add_to_list(e, i) /\ ~Sprites!remove_sprite_from_list(e, i)
                 /\ ~Sprites!make_solid_sprite(e, f) /\ ~Sprites!load_sprite(e, f, g)
      BY DEF Sprites!destroy_sprite, Sprites!make_sprite_list, Sprites!add_to_list,
             Sprites!remove_sprite_from_list, Sprites!make_solid_sprite, Sprites!load_sprite
    <2>10. ASSUME NEW i, NEW e
           PROVE  /\ ~Sprites!draw_sprite(i) /\ ~Sprites!draw_sprite_list(i) /\ ~Sprites!draw_scene(i)
                  /\ ~Sprites!stop_sprite(i) /\ ~Sprites!set_sprite_pos(i, e)
                  /\ ~Sprites!set_sprite_velocity(i, e) /\ ~Sprites!set_sprite_angle(i, e)
                  /\ ~Sprites!set_sprite_angular_velocity(i, e) /\ ~Sprites!set_sprite_scale(i, e)
                  /\ ~Sprites!set_sprite_visible(i, e)
                  /\ ~Sprites!use_camera /\ ~Sprites!reset_camera
                  /\ ~Sprites!set_camera_pos(e) /\ ~Sprites!zoom_camera(e)
      BY <2>6, <2>7, <2>8
         DEF Sprites!draw_sprite, Sprites!draw_sprite_list, Sprites!draw_scene,
             Sprites!stop_sprite, Sprites!set_sprite_pos, Sprites!set_sprite_velocity,
             Sprites!set_sprite_angle, Sprites!set_sprite_angular_velocity,
             Sprites!set_sprite_scale, Sprites!set_sprite_visible, Sprites!use_camera,
             Sprites!reset_camera, Sprites!set_camera_pos, Sprites!zoom_camera
    <2> QED
      BY <2>2, <2>3, <2>4, <2>5, <2>9, <2>10 DEF Sprites!Next
  <1>2. PICK members \in Seq(Sprites!Indices) :
             Different(members) /\ Sprites!Update("update", members)
    BY <1>1
  <1>3. /\ sprite_sprites' = Sprites!MovedAll(members)
        /\ sprite_call' = [name |-> "update", about |-> members, shown |-> <<>>]
    BY <1>2 DEF Sprites!Update, Sprites!Called
  <1>4. \A i \in DOMAIN sprite_sprites :
           Sprites!MovedAll(members)[i] = After(members, Len(members), i)
    BY <1>2, EachMovesOnce
  <1>5. \A k \in DOMAIN members : k <= Len(members)
    OBVIOUS
  <1>6. sprite_call'.about = members
    BY <1>3
  <1>7. ASSUME NEW i \in DOMAIN sprite_sprites
        PROVE  sprite_sprites'[i] = IF Sprites!Live(i) /\ Sprites!Named(i)
                                    THEN Sprites!Moved(sprite_sprites[i]) ELSE sprite_sprites[i]
    <2>1. Sprites!Named(i) <=> \E k \in DOMAIN members : k <= Len(members) /\ members[k] = i
      BY <1>5, <1>6 DEF Sprites!Named
    <2> QED
      BY <1>3, <1>4, <2>1 DEF After
  <1> QED
    BY <1>7 DEF Sprites!NamedSpritesMove

\* Whatever a program does with sprites, lists and cameras: what is drawn touches on
\* the screen exactly when it collides, collisions are mutual, a list collides when
\* one of its sprites does, and an update of a sprite or a list moves each sprite that
\* it names once and no other, for any places, sizes, scales, zooms and window
\* (sprite_collides, draw_sprite, update_sprite_list).
THEOREM SpritesAreAsSeen == Spec => SpritesActAsSeen
  <1>1. Init => (focus = "sprites" => Sprites!SpritesInv)
    BY FocusStart, SpritesInit
  <1>2. (focus = "sprites" => Sprites!SpritesInv) /\ [Next]_vars
            => (focus = "sprites" => Sprites!SpritesInv)'
    BY FocusStep, SpritesStep
  <1>3. ASSUME Sprites!SpritesInv, [Sprites!Next]_sprite_vars PROVE Sprites!SpritesActAsSeen
    BY <1>3, DrawnAsTheyCollide, CollidingIsMutual, ListsCollideAsTheirSprites, UpdatesMove
       DEF Sprites!SpritesActAsSeen
  <1>4. ASSUME (focus = "sprites" => Sprites!SpritesInv), [Next]_vars
        PROVE  [focus = "sprites" => Sprites!SpritesActAsSeen]_vars
    BY <1>3, <1>4, FocusStep
  <1> QED
    BY <1>1, <1>2, <1>4, PTL DEF Spec, SpritesActAsSeen

-----------------------------------------------------------------------------
(* Tile maps.  What is enumerated in ascending order is enumerated whole.  *)

Ascends(s, S) ==
    /\ s \in [1 .. Cardinality(S) -> S]
    /\ \A x \in S : \E k \in DOMAIN s : s[k] = x
    /\ \A i, j \in DOMAIN s : i < j => s[i] < s[j]

LEMMA AscendsLonger ==
    ASSUME NEW S \in SUBSET Nat, IsFiniteSet(S), NEW n \in Nat, Cardinality(S) = n + 1,
           \A R \in SUBSET Nat : IsFiniteSet(R) /\ Cardinality(R) = n => \E s : Ascends(s, R)
    PROVE  \E s : Ascends(s, S)
  <1>1. S # {}
    BY FS_EmptySet
  <1>2. PICK m \in S : \A x \in S : m <= x
    BY <1>1, Least
  <1>3. PICK R : R = S \ {m}
    OBVIOUS
  <1>4. R \in SUBSET Nat /\ IsFiniteSet(R) /\ Cardinality(R) = n
    <2>1. IsFiniteSet(R) /\ Cardinality(R) = Cardinality(S) - 1
      BY <1>3, FS_RemoveElement
    <2> QED
      BY <1>3, <2>1
  <1>5. PICK r : Ascends(r, R)
    BY <1>4
  <1>6. /\ r \in [1 .. n -> R]
        /\ \A x \in R : \E k \in 1 .. n : r[k] = x
        /\ \A i, j \in 1 .. n : i < j => r[i] < r[j]
    BY <1>4, <1>5 DEF Ascends
  <1>7. PICK s : s = [k \in 1 .. n + 1 |-> IF k = 1 THEN m ELSE r[k - 1]]
    OBVIOUS
  <1>8. \A k \in 1 .. n + 1 : k # 1 => k - 1 \in 1 .. n /\ s[k] = r[k - 1] /\ s[k] \in R
    BY <1>6, <1>7
  <1>9. s[1] = m /\ \A x \in R : x \in Nat /\ m < x
    BY <1>2, <1>3, <1>7
  <1>10. s \in [1 .. n + 1 -> S]
    BY <1>3, <1>7, <1>8, <1>9
  <1>11. ASSUME NEW x \in S PROVE \E k \in 1 .. n + 1 : s[k] = x
    <2>1. CASE x = m
      BY <1>9, <2>1
    <2>2. CASE x # m
      <3>1. PICK k \in 1 .. n : r[k] = x
        BY <1>3, <1>6, <2>2
      <3>2. k + 1 \in 1 .. n + 1 /\ k + 1 # 1 /\ (k + 1) - 1 = k
        OBVIOUS
      <3> QED
        BY <1>8, <3>1, <3>2
    <2> QED
      BY <2>1, <2>2
  <1>12. ASSUME NEW i \in 1 .. n + 1, NEW j \in 1 .. n + 1, i < j PROVE s[i] < s[j]
    <2>1. j # 1 /\ j - 1 \in 1 .. n /\ s[j] = r[j - 1] /\ s[j] \in R
      BY <1>8, <1>12
    <2>2. CASE i = 1
      BY <1>9, <2>1, <2>2
    <2>3. CASE i # 1
      <3>1. i - 1 \in 1 .. n /\ s[i] = r[i - 1] /\ i - 1 < j - 1
        BY <1>8, <1>12, <2>3
      <3> QED
        BY <1>6, <2>1, <3>1
    <2> QED
      BY <2>2, <2>3
  <1> QED
    BY <1>10, <1>11, <1>12 DEF Ascends

LEMMA TilesCount == ASSUME NEW S PROVE Maps!Cardinality(S) = Cardinality(S)
  BY DEF Maps!Cardinality, Cardinality

LEMMA AscendingIs ==
    ASSUME NEW S \in SUBSET Nat, IsFiniteSet(S)
    PROVE  Ascends(Maps!Ascending(S), S) /\ Cardinality(S) \in Nat
  <1>1. PICK T : T = {n \in Nat : \A R \in SUBSET Nat :
                        IsFiniteSet(R) /\ Cardinality(R) = n => \E s : Ascends(s, R)}
    OBVIOUS
  <1>2. 0 \in T
    <2>1. ASSUME NEW R \in SUBSET Nat, IsFiniteSet(R), Cardinality(R) = 0
          PROVE  \E s : Ascends(s, R)
      <3>1. R = {}
        BY <2>1, FS_EmptySet
      <3>2. Ascends([k \in 1 .. 0 |-> 0], R)
        BY <2>1, <3>1 DEF Ascends
      <3> QED
        BY <3>2
    <2> QED
      BY <1>1, <2>1
  <1>3. ASSUME NEW n \in Nat, n \in T PROVE n + 1 \in T
    <2>1. \A R \in SUBSET Nat : IsFiniteSet(R) /\ Cardinality(R) = n => \E s : Ascends(s, R)
      BY <1>1, <1>3
    <2>2. ASSUME NEW R \in SUBSET Nat, IsFiniteSet(R), Cardinality(R) = n + 1
          PROVE  \E s : Ascends(s, R)
      BY <2>1, <2>2, AscendsLonger
    <2> QED
      BY <1>1, <2>2
  <1>4. \A n \in Nat : n \in T
    BY <1>2, <1>3, Induction
  <1>5. Cardinality(S) \in Nat
    BY FS_CardinalityType
  <1>6. \E s : Ascends(s, S)
    BY <1>1, <1>4, <1>5
  <1> DEFINE A == [1 .. Cardinality(S) -> S]
             P(s) == /\ \A x \in S : \E k \in DOMAIN s : s[k] = x
                     /\ \A i, j \in DOMAIN s : i < j => s[i] < s[j]
  <1>7. \E s \in A : P(s)
    BY <1>6 DEF Ascends
  <1>8. Maps!Ascending(S) = CHOOSE s \in A : P(s)
    BY TilesCount DEF Maps!Ascending
  <1> HIDE DEF A, P
  <1>9. Maps!Ascending(S) \in A /\ P(Maps!Ascending(S))
    BY <1>7, <1>8, Zenon
  <1> QED
    BY <1>5, <1>9 DEF Ascends, A, P

LEMMA Greatest ==
    ASSUME NEW n \in Nat, NEW T \in SUBSET (1 .. n), T # {}
    PROVE  \E x \in T : \A y \in T : y <= x
  <1>1. PICK R : R = {n - t : t \in T}
    OBVIOUS
  <1>2. R \subseteq Nat /\ R # {}
    <2>1. \A t \in T : n - t \in Nat
      OBVIOUS
    <2> QED
      BY <1>1, <2>1
  <1>3. PICK d \in R : \A e \in R : d <= e
    BY <1>2, Least
  <1>4. PICK x \in T : d = n - x
    BY <1>1, <1>3
  <1>5. ASSUME NEW y \in T PROVE y <= x
    BY <1>1, <1>3, <1>4, <1>5
  <1> QED
    BY <1>5

DividesInto(p, w) ==
    /\ p \div w \in Nat /\ p % w \in Nat /\ p % w < w
    /\ p = w * (p \div w) + (p % w)

LEMMA Division ==
    ASSUME NEW p \in Nat, NEW w \in Nat, w > 0
    PROVE  DividesInto(p, w)
  BY SMTT(30) DEF DividesInto

-----------------------------------------------------------------------------
(* The tilesets of a map, in order, and the one that a tile belongs to.    *)

OwnTiles(ts) ==
    /\ ts \subseteq Maps!Tileset /\ IsFiniteSet(ts)
    /\ \A t, u \in ts : t.first_gid = u.first_gid => t = u

LEMMA UsableIs ==
    ASSUME NEW f \in MapFiles
    PROVE  OwnTiles(Maps!Usable(f)) /\ Maps!Usable(f) \subseteq Maps!TilesetsOf(f)
  <1>1. /\ f.tilesets \in Seq(Maps!Tileset)
        /\ \A t, u \in Maps!TilesetsOf(f) : t.first_gid = u.first_gid => t = u
    BY NativeAssumption DEF Maps!TilemapAssumption
  <1>2. PICK n \in Nat : f.tilesets \in [1 .. n -> Maps!Tileset]
    BY <1>1
  <1>3. IsFiniteSet(1 .. n) /\ DOMAIN f.tilesets = 1 .. n
    BY <1>2, FS_Interval
  <1>4. PICK T : T = Maps!TilesetsOf(f)
    OBVIOUS
  <1>5. T = {f.tilesets[t] : t \in 1 .. n} /\ T \subseteq Maps!Tileset
    BY <1>2, <1>3, <1>4 DEF Maps!TilesetsOf
  <1>6. IsFiniteSet(T)
    <2>1. \A x \in 1 .. n : f.tilesets[x] \in T
      BY <1>5
    <2>2. PICK g : g = [x \in 1 .. n |-> f.tilesets[x]]
      OBVIOUS
    <2>3. g \in Surjection(1 .. n, T)
      BY <1>5, <2>1, <2>2 DEF Surjection
    <2> QED
      BY <1>3, <2>3, FS_Surjection
  <1>7. Maps!Usable(f) \subseteq T
    BY <1>4 DEF Maps!Usable
  <1>8. IsFiniteSet(Maps!Usable(f))
    BY <1>6, <1>7, FS_Subset
  <1> QED
    BY <1>1, <1>4, <1>5, <1>7, <1>8 DEF OwnTiles

Ordered(s, ts) ==
    /\ \E n \in Nat : DOMAIN s = 1 .. n
    /\ \A k \in DOMAIN s : s[k] \in ts
    /\ \A t \in ts : \E k \in DOMAIN s : s[k] = t
    /\ \A i, j \in DOMAIN s : i < j => s[i].first_gid < s[j].first_gid

LEMMA SortedIs ==
    ASSUME NEW ts, OwnTiles(ts)
    PROVE  Ordered(Maps!Sorted(ts), ts)
  <1>1. PICK G : G = {t.first_gid : t \in ts}
    OBVIOUS
  <1>2. \A t \in ts : t.first_gid \in Nat
    BY DEF OwnTiles, Maps!Tileset
  <1>3. G \in SUBSET Nat /\ IsFiniteSet(G)
    <2>1. PICK g : g = [t \in ts |-> t.first_gid]
      OBVIOUS
    <2>2. g \in Surjection(ts, G)
      BY <1>1, <2>1 DEF Surjection
    <2> QED
      BY <1>1, <1>2, <2>2, FS_Surjection DEF OwnTiles
  <1>4. PICK first : first = Maps!Ascending(G)
    OBVIOUS
  <1>5. /\ first \in [1 .. Cardinality(G) -> G] /\ Cardinality(G) \in Nat
        /\ \A x \in G : \E k \in DOMAIN first : first[k] = x
        /\ \A i, j \in DOMAIN first : i < j => first[i] < first[j]
    BY <1>3, <1>4, AscendingIs DEF Ascends
  <1>6. PICK s : s = [k \in DOMAIN first |-> CHOOSE t \in ts : t.first_gid = first[k]]
    OBVIOUS
  <1>7. s = Maps!Sorted(ts)
    BY <1>1, <1>4, <1>6 DEF Maps!Sorted
  <1>8. ASSUME NEW k \in DOMAIN first PROVE s[k] \in ts /\ s[k].first_gid = first[k]
    <2>1. first[k] \in G
      BY <1>5
    <2>2. \E t \in ts : t.first_gid = first[k]
      BY <1>1, <2>1
    <2>3. s[k] = CHOOSE t \in ts : t.first_gid = first[k]
      BY <1>6
    <2> QED
      BY <2>2, <2>3, Zenon
  <1>9. DOMAIN s = DOMAIN first /\ DOMAIN first = 1 .. Cardinality(G)
    BY <1>5, <1>6
  <1>10. ASSUME NEW t \in ts PROVE \E k \in DOMAIN s : s[k] = t
    <2>1. PICK k \in DOMAIN first : first[k] = t.first_gid
      BY <1>1, <1>5
    <2>2. s[k] \in ts /\ s[k].first_gid = t.first_gid
      BY <1>8, <2>1
    <2> QED
      BY <1>9, <2>2 DEF OwnTiles
  <1> QED
    BY <1>5, <1>7, <1>8, <1>9, <1>10 DEF Ordered

\* The tileset whose numbers reach up to the tile.
SelectedIs(map, gid, t, ts) ==
    \/ t = 0 /\ \A u \in ts : ~(u.first_gid <= gid)
    \/ /\ t \in DOMAIN map.tilesets /\ t > 0 /\ map.tilesets[t].first_gid <= gid
       /\ \A u \in ts : u.first_gid <= gid => u.first_gid <= map.tilesets[t].first_gid

LEMMA SelectedTileset ==
    ASSUME NEW map, NEW ts, OwnTiles(ts), Ordered(map.tilesets, ts), NEW gid \in Nat
    PROVE  SelectedIs(map, gid, Maps!selected(map, gid), ts)
  <1>1. PICK before : before = {t \in DOMAIN map.tilesets : map.tilesets[t].first_gid <= gid}
    OBVIOUS
  <1>2. PICK n \in Nat : DOMAIN map.tilesets = 1 .. n
    BY DEF Ordered
  <1>3. /\ \A t \in ts : t.first_gid \in Nat
        /\ \A k \in 1 .. n : map.tilesets[k] \in ts
        /\ \A t \in ts : \E k \in 1 .. n : map.tilesets[k] = t
        /\ \A i, j \in 1 .. n : i < j => map.tilesets[i].first_gid < map.tilesets[j].first_gid
    BY <1>2 DEF OwnTiles, Ordered, Maps!Tileset
  <1>4. Maps!selected(map, gid) =
          IF before = {} THEN 0 ELSE CHOOSE t \in before : \A u \in before : u <= t
    BY <1>1 DEF Maps!selected
  <1>5. CASE before = {}
    BY <1>1, <1>2, <1>3, <1>4, <1>5 DEF SelectedIs
  <1>6. CASE before # {}
    <2>1. \E t \in before : \A u \in before : u <= t
      BY <1>1, <1>2, <1>6, Greatest
    <2>2. PICK t : t = Maps!selected(map, gid)
      OBVIOUS
    <2>3. t = CHOOSE x \in before : \A u \in before : u <= x
      BY <1>4, <1>6, <2>2
    <2>4. t \in before /\ \A u \in before : u <= t
      BY <2>1, <2>3, Zenon
    <2>5. t \in 1 .. n /\ map.tilesets[t].first_gid <= gid
      BY <1>1, <1>2, <2>4
    <2>6. ASSUME NEW u \in ts, u.first_gid <= gid
          PROVE  u.first_gid <= map.tilesets[t].first_gid
      <3>1. PICK k \in 1 .. n : map.tilesets[k] = u
        BY <1>3
      <3>2. k \in before
        BY <1>1, <1>2, <2>6, <3>1
      <3>3. k <= t
        BY <2>4, <3>2
      <3>4. k = t \/ k < t
        BY <2>5, <3>3
      <3>5. CASE k = t
        BY <1>3, <3>1, <3>5
      <3>6. CASE k < t
        <4>1. map.tilesets[k].first_gid < map.tilesets[t].first_gid
          BY <1>3, <2>5, <3>6
        <4>2. map.tilesets[t].first_gid \in Nat /\ u.first_gid \in Nat
          BY <1>3, <2>5
        <4> QED
          BY <3>1, <4>1, <4>2
      <3> QED
        BY <3>4, <3>5, <3>6
    <2> QED
      BY <1>2, <2>2, <2>5, <2>6 DEF SelectedIs
  <1> QED
    BY <1>5, <1>6

-----------------------------------------------------------------------------
(* The pictures of two tiles of a tileset.                                 *)

NoCloser(m, i, j, w, gap) == (m + i * (w + gap)) + w <= m + j * (w + gap)

LEMMA CellsApart ==
    ASSUME NEW m \in Nat, NEW i \in Nat, NEW j \in Nat, i < j, NEW w \in Nat, NEW gap \in Nat
    PROVE  NoCloser(m, i, j, w, gap)
  <1>1. PICK d \in Nat : d = w + gap
    OBVIOUS
  <1>2. PICK e \in Nat : e = j - i - 1
    OBVIOUS
  <1>3. j * d = i * d + e * d + d
    BY <1>2
  <1>4. e * d \in Nat /\ i * d \in Nat
    OBVIOUS
  <1>5. i * d + w <= j * d
    BY <1>1, <1>3, <1>4
  <1> QED
    BY <1>1, <1>4, <1>5 DEF NoCloser

\* A tile's rectangle with c columns in the atlas.
CutOut(r, t, id, c) ==
    /\ c \in Nat /\ c > 0
    /\ r.x = t.margin + (id % c) * (t.tile_width + t.spacing)
    /\ r.y = t.margin + (id \div c) * (t.tile_height + t.spacing)
    /\ r.w = t.tile_width /\ r.h = t.tile_height
    /\ r.x + r.w <= t.image_width /\ r.y + r.h <= t.image_height

LEMMA CutOutIs ==
    ASSUME NEW t \in Maps!Tileset, Maps!parse_tileset(t), NEW id \in Nat,
           Maps!tile_source_rect(t, id) # None
    PROVE  CutOut(Maps!tile_source_rect(t, id), t, id, Maps!columns_of(t, t.image_width))
  <1>1. /\ t.tile_width \in Nat /\ t.tile_height \in Nat /\ t.tile_width > 0
        /\ t.margin \in Nat /\ t.spacing \in Nat /\ t.columns \in Nat
        /\ t.image_width \in Nat /\ t.image_height \in Nat
    BY DEF Maps!Tileset, Maps!parse_tileset
  <1>2. PICK c : c = Maps!columns_of(t, t.image_width)
    OBVIOUS
  <1>3. c \in Int
    <2>1. CASE t.columns > 0
      BY <1>1, <1>2, <2>1 DEF Maps!columns_of
    <2>2. CASE ~(t.columns > 0)
      <3>1. PICK a \in Int : a = t.image_width - 2 * t.margin + t.spacing
        BY <1>1
      <3>2. PICK b \in Nat : b = t.tile_width + t.spacing /\ b > 0
        BY <1>1
      <3>3. c = a \div b
        BY <1>2, <2>2, <3>1, <3>2 DEF Maps!columns_of
      <3> QED
        BY <3>2, <3>3
    <2> QED
      BY <2>1, <2>2
  <1>4. PICK x, y : /\ x = t.margin + (id % c) * (t.tile_width + t.spacing)
                    /\ y = t.margin + (id \div c) * (t.tile_height + t.spacing)
    OBVIOUS
  <1>5. Maps!tile_source_rect(t, id) =
          IF \/ t.image_width = 0 \/ t.image_height = 0
             \/ c <= 0 \/ (t.tile_count > 0 /\ id >= t.tile_count)
          THEN None
          ELSE IF x + t.tile_width > t.image_width \/ y + t.tile_height > t.image_height
          THEN None
          ELSE [x |-> x, y |-> y, w |-> t.tile_width, h |-> t.tile_height]
    BY <1>2, <1>4 DEF Maps!tile_source_rect
  <1>6. /\ ~(c <= 0) /\ ~(x + t.tile_width > t.image_width)
        /\ ~(y + t.tile_height > t.image_height)
        /\ Maps!tile_source_rect(t, id) =
             [x |-> x, y |-> y, w |-> t.tile_width, h |-> t.tile_height]
    BY <1>5
  <1>7. c \in Nat /\ c > 0
    BY <1>3, <1>6
  <1>8. id % c \in Nat /\ id \div c \in Nat
    BY <1>7, Division DEF DividesInto
  <1>9. x \in Nat /\ y \in Nat
    <2>1. PICK p \in Nat, q \in Nat : p = t.tile_width + t.spacing /\ q = t.tile_height + t.spacing
      BY <1>1
    <2>2. (id % c) * p \in Nat /\ (id \div c) * q \in Nat
      BY <1>8
    <2> QED
      BY <1>1, <1>4, <2>1, <2>2
  <1>10. x + t.tile_width <= t.image_width /\ y + t.tile_height <= t.image_height
    BY <1>1, <1>6, <1>9
  <1> QED
    BY <1>2, <1>4, <1>6, <1>7, <1>10 DEF CutOut

LEMMA CutOutsApart ==
    ASSUME NEW t \in Maps!Tileset, NEW id \in Nat, NEW jd \in Nat, id # jd,
           NEW r, NEW s, NEW c, CutOut(r, t, id, c), CutOut(s, t, jd, c)
    PROVE  Maps!Apart(r, s)
  <1>1. c \in Nat /\ c > 0
    BY DEF CutOut
  <1>2. /\ t.tile_width \in Nat /\ t.tile_height \in Nat
        /\ t.margin \in Nat /\ t.spacing \in Nat
    BY DEF Maps!Tileset
  <1>3. DividesInto(id, c) /\ DividesInto(jd, c)
    BY <1>1, Division
  <1>4. PICK i \in Nat, j \in Nat, k \in Nat, l \in Nat :
          i = id % c /\ j = jd % c /\ k = id \div c /\ l = jd \div c
    BY <1>3 DEF DividesInto
  <1>5. i # j \/ k # l
    BY <1>3, <1>4 DEF DividesInto
  <1>6. /\ r.x = t.margin + i * (t.tile_width + t.spacing) /\ r.w = t.tile_width
        /\ r.y = t.margin + k * (t.tile_height + t.spacing) /\ r.h = t.tile_height
        /\ s.x = t.margin + j * (t.tile_width + t.spacing) /\ s.w = t.tile_width
        /\ s.y = t.margin + l * (t.tile_height + t.spacing) /\ s.h = t.tile_height
    BY <1>4 DEF CutOut
  <1>7. CASE i < j
    <2>1. r.x + r.w <= s.x
      BY <1>2, <1>6, <1>7, CellsApart DEF NoCloser
    <2> QED
      BY <2>1 DEF Maps!Apart
  <1>8. CASE j < i
    <2>1. s.x + s.w <= r.x
      BY <1>2, <1>6, <1>8, CellsApart DEF NoCloser
    <2> QED
      BY <2>1 DEF Maps!Apart
  <1>9. CASE k < l
    <2>1. r.y + r.h <= s.y
      BY <1>2, <1>6, <1>9, CellsApart DEF NoCloser
    <2> QED
      BY <2>1 DEF Maps!Apart
  <1>10. CASE l < k
    <2>1. s.y + s.h <= r.y
      BY <1>2, <1>6, <1>10, CellsApart DEF NoCloser
    <2> QED
      BY <2>1 DEF Maps!Apart
  <1> QED
    BY <1>5, <1>7, <1>8, <1>9, <1>10

-----------------------------------------------------------------------------
(* Where the tiles of a layer stand.                                       *)

Smaller(a, b, h) == a * h < b * h

LEMMA Scaled ==
    ASSUME NEW a \in Int, NEW b \in Int, a < b, NEW h \in Nat, h > 0
    PROVE  Smaller(a, b, h)
  <1>1. PICK e \in Nat : b = a + e + 1
    <2>1. b - a - 1 \in Nat /\ b = a + (b - a - 1) + 1
      OBVIOUS
    <2> QED
      BY <2>1
  <1>2. b * h = a * h + e * h + h
    BY <1>1
  <1>3. e * h \in Nat /\ a * h \in Int
    OBVIOUS
  <1> QED
    BY <1>2, <1>3 DEF Smaller

ReadsOn(p, q, w) == p \div w < q \div w \/ (p \div w = q \div w /\ p % w < q % w)

LEMMA RowByRow ==
    ASSUME NEW p \in Nat, NEW q \in Nat, p < q, NEW w \in Nat, w > 0
    PROVE  ReadsOn(p, q, w)
  <1>1. DividesInto(p, w) /\ DividesInto(q, w)
    BY Division
  <1>2. PICK i \in Nat, j \in Nat, k \in Nat, l \in Nat :
          i = p % w /\ j = q % w /\ k = p \div w /\ l = q \div w
    BY <1>1 DEF DividesInto
  <1>3. i < w /\ j < w /\ p = w * k + i /\ q = w * l + j
    BY <1>1, <1>2 DEF DividesInto
  <1>4. CASE l < k
    <2>1. PICK e \in Nat : k = l + e + 1
      <3>1. k - l - 1 \in Nat /\ k = l + (k - l - 1) + 1
        BY <1>4
      <3> QED
        BY <3>1
    <2>2. w * k = w * l + w * e + w
      BY <2>1
    <2>3. w * e \in Nat /\ w * l \in Nat
      OBVIOUS
    <2> QED
      BY <1>3, <2>2, <2>3
  <1>5. CASE k = l
    <2>1. w * k \in Nat
      OBVIOUS
    <2>2. i < j
      BY <1>3, <1>5, <2>1
    <2> QED
      BY <1>2, <1>5, <2>2 DEF ReadsOn
  <1>6. CASE k < l
    BY <1>2, <1>6 DEF ReadsOn
  <1> QED
    BY <1>4, <1>5, <1>6

\* The place of the tile at a position of a layer w tiles wide and r rows high.
Stands(s, map, p, w, r) ==
    /\ s.x = (2 * ((p - 1) % w) + 1) * map.tile_width
    /\ s.y = (2 * (r - ((p - 1) \div w) - 1) + 1) * map.tile_height

Follows(s, o) == o.y < s.y \/ (o.y = s.y /\ o.x > s.x)

LEMMA TilesStandInRows ==
    ASSUME NEW map, map.tile_width \in Nat, map.tile_height \in Nat,
           map.tile_width > 0, map.tile_height > 0,
           NEW w \in Nat, w > 0, NEW r \in Int, NEW p \in Nat, NEW q \in Nat, 0 < p, p < q,
           NEW s, NEW o, Stands(s, map, p, w, r), Stands(o, map, q, w, r)
    PROVE  Follows(s, o)
  <1>1. PICK a \in Nat, b \in Nat : a = p - 1 /\ b = q - 1 /\ a < b
    BY p - 1 \in Nat, q - 1 \in Nat
  <1>2. DividesInto(a, w) /\ DividesInto(b, w) /\ ReadsOn(a, b, w)
    BY <1>1, Division, RowByRow
  <1>3. PICK i \in Nat, j \in Nat, k \in Nat, l \in Nat :
          i = a % w /\ j = b % w /\ k = a \div w /\ l = b \div w
    BY <1>2 DEF DividesInto
  <1>4. /\ s.x = (2 * i + 1) * map.tile_width /\ s.y = (2 * (r - k - 1) + 1) * map.tile_height
        /\ o.x = (2 * j + 1) * map.tile_width /\ o.y = (2 * (r - l - 1) + 1) * map.tile_height
    BY <1>1, <1>3 DEF Stands
  <1>5. CASE k < l
    <2>1. PICK c \in Int, d \in Int : c = 2 * (r - l - 1) + 1 /\ d = 2 * (r - k - 1) + 1
      OBVIOUS
    <2>2. Smaller(c, d, map.tile_height)
      BY <1>5, <2>1, Scaled
    <2>3. o.y = c * map.tile_height
      BY <1>4, <2>1, Zenon
    <2>4. s.y = d * map.tile_height
      BY <1>4, <2>1, Zenon
    <2> QED
      BY <2>2, <2>3, <2>4 DEF Smaller, Follows
  <1>6. CASE k = l /\ i < j
    <2>1. PICK c \in Int, d \in Int : c = 2 * i + 1 /\ d = 2 * j + 1
      OBVIOUS
    <2>2. Smaller(c, d, map.tile_width)
      BY <1>6, <2>1, Scaled
    <2>3. c * map.tile_width \in Int /\ d * map.tile_width \in Int
      OBVIOUS
    <2>4. s.x < o.x
      BY <1>4, <2>1, <2>2 DEF Smaller
    <2>5. o.x > s.x
      BY <1>4, <2>1, <2>3, <2>4
    <2> QED
      BY <1>4, <1>6, <2>5 DEF Follows
  <1> QED
    BY <1>2, <1>3, <1>5, <1>6 DEF ReadsOn

-----------------------------------------------------------------------------
(* A map that was read, and the sprites of its layers.                     *)

\* What of a layer matters here.
LayerIs(layer, from) ==
    /\ layer.name = from.name /\ layer.width \in Nat /\ layer.width > 0
    /\ \E n \in Nat : layer.tiles \in [1 .. n -> Maps!Tile]

MapIs(map, f) ==
    /\ map.tile_width = f.tile_width /\ map.tile_height = f.tile_height
    /\ map.tile_width \in Nat /\ map.tile_height \in Nat
    /\ Ordered(map.tilesets, Maps!Usable(f))
    /\ DOMAIN map.layers = DOMAIN f.layers
    /\ \A l \in DOMAIN map.layers : LayerIs(map.layers[l], f.layers[l])

LEMMA LayersAreRead ==
    ASSUME NEW layer \in Maps!Layer
    PROVE  LayerIs(Maps!parse_layer(layer), layer)
  <1>1. layer.width \in Nat /\ layer.tiles \in Seq(Maps!Tile)
    BY DEF Maps!Layer
  <1>2. PICK w : w = IF layer.width > 0 THEN layer.width
                     ELSE IF layer.tiles = <<>> THEN 1 ELSE Len(layer.tiles)
    OBVIOUS
  <1>3. w \in Nat /\ w > 0
    <2>1. Len(layer.tiles) \in Nat /\ (layer.tiles # <<>> => Len(layer.tiles) # 0)
      BY <1>1, EmptySeq
    <2> QED
      BY <1>1, <1>2, <2>1
  <1>4. /\ Maps!parse_layer(layer).name = layer.name
        /\ Maps!parse_layer(layer).tiles = layer.tiles
        /\ Maps!parse_layer(layer).width = w
    BY <1>2 DEF Maps!parse_layer
  <1>5. \E n \in Nat : layer.tiles \in [1 .. n -> Maps!Tile]
    BY <1>1
  <1> QED
    BY <1>3, <1>4, <1>5 DEF LayerIs

LEMMA MapIsRead ==
    ASSUME NEW f \in MapFiles, Maps!parse_tilemap(f) # None
    PROVE  MapIs(Maps!parse_tilemap(f), f)
  <1>1. /\ f.tile_width \in Nat /\ f.tile_height \in Nat
        /\ f.layers \in Seq(Maps!Layer)
    BY NativeAssumption DEF Maps!TilemapAssumption
  <1>2. PICK map : map = Maps!parse_tilemap(f)
    OBVIOUS
  <1>3. map = Maps!Parsed(f, Maps!Sorted(Maps!Usable(f)))
    BY <1>2 DEF Maps!parse_tilemap
  <1>4. /\ map.tile_width = f.tile_width /\ map.tile_height = f.tile_height
        /\ map.tilesets = Maps!Sorted(Maps!Usable(f))
        /\ map.layers = [l \in DOMAIN f.layers |-> Maps!parse_layer(f.layers[l])]
    BY <1>3 DEF Maps!Parsed
  <1>5. Ordered(map.tilesets, Maps!Usable(f))
    BY <1>4, UsableIs, SortedIs
  <1>6. ASSUME NEW l \in DOMAIN f.layers PROVE LayerIs(map.layers[l], f.layers[l])
    <2>1. f.layers[l] \in Maps!Layer
      BY <1>1
    <2> QED
      BY <1>4, <2>1, LayersAreRead
  <1> QED
    BY <1>1, <1>2, <1>4, <1>5, <1>6 DEF MapIs

\* The sprite of a tile: its place, and the picture of the tileset that it is in.
Depicts(s, map, t) ==
    IF t = 0 THEN s.source = None
    ELSE /\ s.source = Maps!tile_source_rect(map.tilesets[t], s.gid - map.tilesets[t].first_gid)
         /\ s.source # None => s.texture = Maps!atlas_of(map, t)

LEMMA SpriteIs ==
    ASSUME NEW map, NEW layer, NEW p
    PROVE  /\ Maps!SpriteOf(map, layer, p).gid = layer.tiles[p].gid
           /\ Stands(Maps!SpriteOf(map, layer, p), map, p, layer.width, Maps!Rows(layer))
           /\ Depicts(Maps!SpriteOf(map, layer, p), map,
                      Maps!selected(map, layer.tiles[p].gid))
  <1>1. PICK s : s = Maps!SpriteOf(map, layer, p)
    OBVIOUS
  <1>2. PICK t : t = Maps!selected(map, layer.tiles[p].gid)
    OBVIOUS
  <1>3. PICK source : source =
          IF t = 0 THEN None
          ELSE Maps!tile_source_rect(map.tilesets[t],
                                     layer.tiles[p].gid - map.tilesets[t].first_gid)
    OBVIOUS
  <1>4. /\ s.gid = layer.tiles[p].gid /\ s.source = source
        /\ s.x = (2 * ((p - 1) % layer.width) + 1) * map.tile_width
        /\ s.y = (2 * (Maps!Rows(layer) - ((p - 1) \div layer.width) - 1) + 1) * map.tile_height
        /\ s.texture = IF source = None THEN 0 ELSE Maps!atlas_of(map, t)
    BY <1>1, <1>2, <1>3 DEF Maps!SpriteOf
  <1> QED
    BY <1>1, <1>2, <1>3, <1>4 DEF Depicts, Stands

\* The sprites of a layer are those of its tiles, at ascending positions.
ListIs(list, map, layer) ==
    \E at : /\ DOMAIN list = DOMAIN at
            /\ \E n \in Nat : DOMAIN list = 1 .. n
            /\ \A k \in DOMAIN at :
                  /\ at[k] \in DOMAIN layer.tiles /\ at[k] \in Nat /\ at[k] > 0
                  /\ list[k] = Maps!SpriteOf(map, layer, at[k])
            /\ \A i, j \in DOMAIN at : i < j => at[i] < at[j]

LEMMA SpritesAre ==
    ASSUME NEW map, NEW layer, NEW n \in Nat, layer.tiles \in [1 .. n -> Maps!Tile]
    PROVE  ListIs(Maps!SpritesOf(map, layer), map, layer)
  <1>1. PICK F : F = {p \in DOMAIN layer.tiles : layer.tiles[p].gid # 0}
    OBVIOUS
  <1>2. F \in SUBSET Nat /\ IsFiniteSet(F) /\ F \subseteq 1 .. n
    <2>1. F \in SUBSET (1 .. n)
      BY <1>1
    <2>2. IsFiniteSet(1 .. n)
      BY FS_Interval
    <2>3. IsFiniteSet(F)
      BY <2>1, <2>2, FS_Subset
    <2>4. F \subseteq Nat
      BY <2>1
    <2> QED
      BY <2>1, <2>3, <2>4
  <1>3. PICK at : at = Maps!Ascending(F)
    OBVIOUS
  <1>4. /\ at \in [1 .. Cardinality(F) -> F] /\ Cardinality(F) \in Nat
        /\ \A i, j \in DOMAIN at : i < j => at[i] < at[j]
    BY <1>2, <1>3, AscendingIs DEF Ascends
  <1>5. Maps!SpritesOf(map, layer) =
          [k \in DOMAIN at |-> Maps!SpriteOf(map, layer, at[k])]
    BY <1>1, <1>3 DEF Maps!SpritesOf
  <1>6. \A k \in DOMAIN at : at[k] \in DOMAIN layer.tiles /\ at[k] \in Nat /\ at[k] > 0
    <2>1. \A k \in DOMAIN at : at[k] \in 1 .. n
      BY <1>2, <1>4
    <2> QED
      BY <2>1
  <1>7. PICK list : list = Maps!SpritesOf(map, layer)
    OBVIOUS
  <1>8. DOMAIN list = DOMAIN at /\ \A k \in DOMAIN at : list[k] = Maps!SpriteOf(map, layer, at[k])
    BY <1>5, <1>7
  <1>9. \E m \in Nat : DOMAIN list = 1 .. m
    BY <1>4, <1>8
  <1> QED
    BY <1>4, <1>6, <1>7, <1>8, <1>9 DEF ListIs

\* The atlases are numbered from those that the registry holds.
LEMMA AtlasIs ==
    ASSUME NEW map, NEW n \in Nat, DOMAIN map.tilesets = 1 .. n, NEW t \in 1 .. n,
           map_textures \in Nat,
           NEW m, m = map_textures + Maps!Cardinality({u \in DOMAIN map.tilesets :
                                                         Maps!HasAtlas(map.tilesets[u])})
    PROVE  /\ m \in Nat /\ Maps!atlas_of(map, t) \in 0 .. m
           /\ (Maps!atlas_of(map, t) = 0 <=> ~Maps!HasAtlas(map.tilesets[t]))
  <1>1. PICK A, B : /\ A = {u \in 1 .. n : Maps!HasAtlas(map.tilesets[u])}
                    /\ B = {u \in 1 .. t : Maps!HasAtlas(map.tilesets[u])}
    OBVIOUS
  <1>2. B \in SUBSET A /\ A \in SUBSET (1 .. n) /\ IsFiniteSet(1 .. n)
    BY <1>1, FS_Interval
  <1>3. IsFiniteSet(A) /\ IsFiniteSet(B) /\ Cardinality(B) <= Cardinality(A)
    BY <1>2, FS_Subset
  <1>4. Cardinality(A) \in Nat /\ Cardinality(B) \in Nat
    BY <1>3, FS_CardinalityType
  <1>5. m = map_textures + Cardinality(A)
    BY <1>1, TilesCount
  <1>6. Maps!atlas_of(map, t) = IF ~Maps!HasAtlas(map.tilesets[t]) THEN 0
                                ELSE map_textures + Cardinality(B)
    BY <1>1, TilesCount DEF Maps!atlas_of
  <1>7. ASSUME Maps!HasAtlas(map.tilesets[t]) PROVE Cardinality(B) > 0
    <2>1. B # {}
      BY <1>1, <1>7
    <2> QED
      BY <1>3, <1>4, <2>1, FS_EmptySet
  <1> QED
    BY <1>3, <1>4, <1>5, <1>6, <1>7

-----------------------------------------------------------------------------
(* What a map that was loaded looks like.                                  *)

HoldsIn(f, t, gid) ==
    /\ Maps!parse_tileset(t) /\ t.first_gid <= gid /\ gid < t.first_gid + t.tile_count
    /\ \A u \in Maps!Usable(f) : u.first_gid <= gid => u.first_gid <= t.first_gid

ShowsIn(s, f, h, m) ==
    /\ \A t \in Maps!TilesetsOf(f) :
          HoldsIn(f, t, s.gid) => s.source = Maps!tile_source_rect(t, s.gid - t.first_gid)
    /\ s.source # None => \E t \in Maps!Usable(f) :
          /\ t.first_gid <= s.gid
          /\ s.source.x + s.source.w <= t.image_width
          /\ s.source.y + s.source.h <= t.image_height
          /\ s.texture \in 0 .. m /\ (s.texture = 0 <=> h \/ ~t.image)

ApartIn(s, o, f) ==
    /\ s.gid # o.gid /\ s.source # None /\ o.source # None
    /\ \E t \in Maps!TilesetsOf(f) : HoldsIn(f, t, s.gid) /\ HoldsIn(f, t, o.gid)
    => Maps!Apart(s.source, o.source)

LEMMA TilesShow ==
    ASSUME NEW f \in MapFiles, NEW map, MapIs(map, f), map_textures \in Nat,
           map_headless \in BOOLEAN,
           NEW m, m = map_textures + Maps!Cardinality({u \in DOMAIN map.tilesets :
                                                         Maps!HasAtlas(map.tilesets[u])}),
           NEW s, s.gid \in Nat, Depicts(s, map, Maps!selected(map, s.gid))
    PROVE  ShowsIn(s, f, map_headless, m)
  <1>1. PICK ts : ts = Maps!Usable(f)
    OBVIOUS
  <1>2. /\ OwnTiles(ts) /\ ts \subseteq Maps!TilesetsOf(f)
        /\ Ordered(map.tilesets, ts)
    BY <1>1, UsableIs DEF MapIs
  <1>3. PICK n \in Nat : DOMAIN map.tilesets = 1 .. n
    BY <1>2 DEF Ordered
  <1>4. /\ \A k \in 1 .. n : map.tilesets[k] \in ts
        /\ \A t \in ts : t \in Maps!Tileset /\ t.first_gid \in Nat /\ t.image \in BOOLEAN
        /\ \A t, u \in ts : t.first_gid = u.first_gid => t = u
    BY <1>2, <1>3 DEF Ordered, OwnTiles, Maps!Tileset
  <1>5. PICK k : k = Maps!selected(map, s.gid)
    OBVIOUS
  <1>6. SelectedIs(map, s.gid, k, ts)
    BY <1>2, <1>5, SelectedTileset
  <1>7. Depicts(s, map, k)
    BY <1>5
  <1>8. ASSUME NEW t \in Maps!TilesetsOf(f), HoldsIn(f, t, s.gid)
        PROVE  s.source = Maps!tile_source_rect(t, s.gid - t.first_gid)
    <2>1. t \in ts /\ t.first_gid <= s.gid /\ \A u \in ts : u.first_gid <= s.gid => u.first_gid <= t.first_gid
      BY <1>1, <1>8 DEF HoldsIn, Maps!Usable
    <2>2. k \in 1 .. n /\ k > 0 /\ map.tilesets[k].first_gid <= s.gid
          /\ t.first_gid <= map.tilesets[k].first_gid
      BY <1>3, <1>6, <2>1 DEF SelectedIs
    <2>3. map.tilesets[k] \in ts /\ map.tilesets[k].first_gid <= t.first_gid
      BY <1>4, <2>1, <2>2
    <2>4. map.tilesets[k] = t
      BY <1>4, <2>1, <2>2, <2>3
    <2> QED
      BY <1>7, <2>2, <2>4 DEF Depicts
  <1>9. ASSUME s.source # None
        PROVE  \E t \in ts : /\ t.first_gid <= s.gid
                             /\ s.source.x + s.source.w <= t.image_width
                             /\ s.source.y + s.source.h <= t.image_height
                             /\ s.texture \in 0 .. m
                             /\ (s.texture = 0 <=> map_headless \/ ~t.image)
    <2>1. k # 0 /\ k \in 1 .. n /\ map.tilesets[k].first_gid <= s.gid
      BY <1>3, <1>6, <1>7, <1>9 DEF Depicts, SelectedIs
    <2>2. PICK t \in ts : t = map.tilesets[k]
      BY <1>4, <2>1
    <2>3. s.source = Maps!tile_source_rect(t, s.gid - t.first_gid) /\ s.texture = Maps!atlas_of(map, k)
      BY <1>7, <1>9, <2>1, <2>2 DEF Depicts
    <2>4. t \in Maps!Tileset /\ Maps!parse_tileset(t) /\ s.gid - t.first_gid \in Nat
      BY <1>1, <1>4, <2>1, <2>2 DEF Maps!Usable
    <2>5. PICK id \in Nat : id = s.gid - t.first_gid
      BY <2>4
    <2>6. CutOut(s.source, t, id, Maps!columns_of(t, t.image_width))
      BY <1>9, <2>3, <2>4, <2>5, CutOutIs
    <2>7. /\ Maps!atlas_of(map, k) \in 0 .. m
          /\ (Maps!atlas_of(map, k) = 0 <=> ~Maps!HasAtlas(map.tilesets[k]))
      BY <1>3, <2>1, AtlasIs
    <2>8. ~Maps!HasAtlas(t) <=> map_headless \/ ~t.image
      BY <1>4 DEF Maps!HasAtlas
    <2>9. /\ s.source.x + s.source.w <= t.image_width
          /\ s.source.y + s.source.h <= t.image_height
      BY <2>6 DEF CutOut
    <2>10. s.texture \in 0 .. m /\ (s.texture = 0 <=> map_headless \/ ~t.image)
      BY <2>2, <2>3, <2>7, <2>8, Zenon
    <2>11. t.first_gid <= s.gid
      BY <2>1, <2>2
    <2> QED
      BY <2>9, <2>10, <2>11, Zenon
  <1> QED
    BY <1>1, <1>8, <1>9 DEF ShowsIn

LEMMA TilesApart ==
    ASSUME NEW f \in MapFiles, NEW s, NEW o, s.gid \in Nat, o.gid \in Nat,
           NEW h, NEW m, ShowsIn(s, f, h, m), ShowsIn(o, f, h, m)
    PROVE  ApartIn(s, o, f)
  <1> SUFFICES ASSUME s.gid # o.gid, s.source # None, o.source # None,
                      NEW t \in Maps!TilesetsOf(f), HoldsIn(f, t, s.gid), HoldsIn(f, t, o.gid)
               PROVE  Maps!Apart(s.source, o.source)
    BY DEF ApartIn
  <1>1. /\ s.source = Maps!tile_source_rect(t, s.gid - t.first_gid)
        /\ o.source = Maps!tile_source_rect(t, o.gid - t.first_gid)
    BY DEF ShowsIn
  <1>2. Maps!parse_tileset(t) /\ t.first_gid <= s.gid /\ t.first_gid <= o.gid
    BY DEF HoldsIn
  <1>3. t \in Maps!Tileset
    <2>1. t \in Maps!Usable(f)
      BY <1>2 DEF Maps!Usable
    <2> QED
      BY <2>1, UsableIs DEF OwnTiles
  <1>4. t.first_gid \in Nat
    BY <1>3 DEF Maps!Tileset
  <1>5. PICK id \in Nat, jd \in Nat : id = s.gid - t.first_gid /\ jd = o.gid - t.first_gid
    <2>1. s.gid - t.first_gid \in Nat /\ o.gid - t.first_gid \in Nat
      BY <1>2, <1>4
    <2> QED
      BY <2>1
  <1>6. id # jd
    BY <1>4, <1>5
  <1>7. /\ CutOut(s.source, t, id, Maps!columns_of(t, t.image_width))
        /\ CutOut(o.source, t, jd, Maps!columns_of(t, t.image_width))
    BY <1>1, <1>2, <1>3, <1>5, CutOutIs
  <1> QED
    BY <1>3, <1>6, <1>7, CutOutsApart

\* One layer.
LooksRight(list, f, h, m) ==
    /\ \A i \in DOMAIN list : ShowsIn(list[i], f, h, m)
    /\ \A i, j \in DOMAIN list : ApartIn(list[i], list[j], f)
    /\ f.tile_width > 0 /\ f.tile_height > 0 =>
          \A i, j \in DOMAIN list : i < j => Follows(list[i], list[j])

LEMMA LayerLooksRight ==
    ASSUME NEW f \in MapFiles, NEW map, MapIs(map, f), map_textures \in Nat,
           map_headless \in BOOLEAN,
           NEW m, m = map_textures + Maps!Cardinality({u \in DOMAIN map.tilesets :
                                                         Maps!HasAtlas(map.tilesets[u])}),
           NEW l \in DOMAIN map.layers
    PROVE  LooksRight(Maps!SpritesOf(map, map.layers[l]), f, map_headless, m)
  <1>1. PICK layer : layer = map.layers[l]
    OBVIOUS
  <1>2. PICK n \in Nat : layer.tiles \in [1 .. n -> Maps!Tile]
    BY <1>1 DEF MapIs, LayerIs
  <1>3. layer.width \in Nat /\ layer.width > 0
    BY <1>1 DEF MapIs, LayerIs
  <1>4. PICK list : list = Maps!SpritesOf(map, layer)
    OBVIOUS
  <1>5. PICK at :
          /\ DOMAIN list = DOMAIN at /\ \E N \in Nat : DOMAIN list = 1 .. N
          /\ \A k \in DOMAIN at :
                /\ at[k] \in DOMAIN layer.tiles /\ at[k] \in Nat /\ at[k] > 0
                /\ list[k] = Maps!SpriteOf(map, layer, at[k])
          /\ \A i, j \in DOMAIN at : i < j => at[i] < at[j]
    <2>1. ListIs(list, map, layer)
      BY <1>2, <1>4, SpritesAre
    <2> QED
      BY <2>1, Zenon DEF ListIs
  <1>6. ASSUME NEW k \in DOMAIN list
        PROVE  /\ list[k].gid \in Nat /\ ShowsIn(list[k], f, map_headless, m)
               /\ Stands(list[k], map, at[k], layer.width, Maps!Rows(layer))
    <2>1. list[k] = Maps!SpriteOf(map, layer, at[k]) /\ layer.tiles[at[k]] \in Maps!Tile
      BY <1>2, <1>5
    <2>2. /\ list[k].gid = layer.tiles[at[k]].gid
          /\ Stands(list[k], map, at[k], layer.width, Maps!Rows(layer))
          /\ Depicts(list[k], map, Maps!selected(map, layer.tiles[at[k]].gid))
      BY <2>1, SpriteIs
    <2>3. list[k].gid \in Nat
      BY <2>1, <2>2 DEF Maps!Tile
    <2> QED
      BY <2>2, <2>3, TilesShow
  <1>7. \A i, j \in DOMAIN list : ApartIn(list[i], list[j], f)
    BY <1>6, TilesApart
  <1>8. Maps!Rows(layer) \in Int
    <2>1. PICK a \in Int : a = Len(layer.tiles) + layer.width - 1
      <3>1. Len(layer.tiles) \in Nat
        BY <1>2
      <3> QED
        BY <1>3, <3>1
    <2>2. PICK w \in Nat : w = layer.width /\ w > 0
      BY <1>3
    <2>3. a \div w \in Int
      BY <2>2
    <2>4. Maps!Rows(layer) = IF a \div w < 1 THEN 1 ELSE a \div w
      BY <2>1, <2>2 DEF Maps!Rows
    <2> QED
      BY <2>3, <2>4
  <1>9. ASSUME f.tile_width > 0, f.tile_height > 0,
               NEW i \in DOMAIN list, NEW j \in DOMAIN list, i < j
        PROVE  Follows(list[i], list[j])
    <2>1. /\ map.tile_width \in Nat /\ map.tile_height \in Nat
          /\ map.tile_width > 0 /\ map.tile_height > 0
      BY <1>9 DEF MapIs
    <2>2. at[i] \in Nat /\ at[j] \in Nat /\ 0 < at[i] /\ at[i] < at[j]
      BY <1>5, <1>9
    <2> QED
      BY <1>3, <1>6, <1>8, <2>1, <2>2, TilesStandInRows
  <1> QED
    BY <1>1, <1>4, <1>6, <1>7, <1>9 DEF LooksRight


\* The first layer of a name.
FirstNamed(names, x) ==
    LET named == {d \in DOMAIN names : names[d].name = x}
    IN  IF named = {} THEN 0 ELSE CHOOSE d \in named : \A c \in named : d <= c

LEMMA LayerIsFound ==
    ASSUME NEW names, NEW n \in Nat, DOMAIN names = 1 .. n, NEW l \in 1 .. n
    PROVE  names[FirstNamed(names, names[l].name)].name = names[l].name
  <1>1. PICK named : named = {d \in DOMAIN names : names[d].name = names[l].name}
    OBVIOUS
  <1>2. l \in named /\ named \subseteq Nat
    BY <1>1
  <1>3. \E d \in named : \A c \in named : d <= c
    BY <1>2, Least
  <1>4. PICK e : e = FirstNamed(names, names[l].name)
    OBVIOUS
  <1>5. e = CHOOSE d \in named : \A c \in named : d <= c
    BY <1>1, <1>2, <1>4 DEF FirstNamed
  <1>6. e \in named
    BY <1>3, <1>5, Zenon
  <1> QED
    BY <1>1, <1>4, <1>6

\* The layers of a map, and their names.
Pictured(lists, names, f, h, m) ==
    /\ \A l \in DOMAIN lists : LooksRight(lists[l], f, h, m)
    /\ \A l \in DOMAIN lists : names[FirstNamed(names, names[l].name)].name = names[l].name

TilemapInv ==
    /\ Maps!TypeOK
    /\ map_answer = "loaded" =>
          Pictured(map_lists, map_scene, map_file, map_headless, map_textures)

LEMMA TilemapStart == Maps!Init => TilemapInv
  BY DEF Maps!Init, Maps!TypeOK, TilemapInv

LEMMA MapIsLoaded ==
    ASSUME TilemapInv, Maps!load_tilemap
    PROVE  TilemapInv'
  <1>1. PICK map : map = Maps!parse_tilemap(map_file)
    OBVIOUS
  <1>2. /\ map_headless \in BOOLEAN /\ map_file \in MapFiles /\ map_textures \in Nat
        /\ map # None /\ map_headless' = map_headless /\ map_file' = map_file
        /\ map_answer' = "loaded"
        /\ map_textures' = map_textures + Maps!Cardinality({t \in DOMAIN map.tilesets :
                                                              Maps!HasAtlas(map.tilesets[t])})
        /\ map_lists' = [l \in DOMAIN map.layers |-> Maps!SpritesOf(map, map.layers[l])]
        /\ map_scene' = [l \in DOMAIN map.layers |-> [name |-> map.layers[l].name, list |-> l]]
    BY <1>1 DEF TilemapInv, Maps!TypeOK, Maps!load_tilemap, Maps!Readable
  <1>3. MapIs(map, map_file)
    BY <1>1, <1>2, MapIsRead
  <1>4. PICK n \in Nat : DOMAIN map.layers = 1 .. n
    <2>1. map_file.layers \in Seq(Maps!Layer)
      BY <1>2, NativeAssumption DEF Maps!TilemapAssumption
    <2> QED
      BY <1>3, <2>1 DEF MapIs
  <1>5. DOMAIN map_lists' = 1 .. n /\ DOMAIN map_scene' = 1 .. n
    BY <1>2, <1>4
  <1>6. \A l \in 1 .. n : LooksRight(map_lists'[l], map_file, map_headless, map_textures')
    BY <1>2, <1>3, <1>4, LayerLooksRight
  <1>7. ASSUME NEW l \in 1 .. n
        PROVE  map_scene'[FirstNamed(map_scene', map_scene'[l].name)].name = map_scene'[l].name
    BY <1>5, LayerIsFound
  <1>8. Pictured(map_lists', map_scene', map_file', map_headless', map_textures')
    BY <1>2, <1>5, <1>6, <1>7 DEF Pictured
  <1>9. map_textures' \in Nat
    <2>1. PICK k \in Nat : DOMAIN map.tilesets = 1 .. k
      BY <1>3 DEF MapIs, Ordered
    <2>2. PICK A : A = {t \in DOMAIN map.tilesets : Maps!HasAtlas(map.tilesets[t])}
      OBVIOUS
    <2>3. A \in SUBSET (1 .. k) /\ IsFiniteSet(1 .. k)
      BY <2>1, <2>2, FS_Interval
    <2>4. Cardinality(A) \in Nat
      BY <2>3, FS_Subset, FS_CardinalityType
    <2> QED
      BY <1>2, <2>2, <2>4, TilesCount
  <1>10. Len(map_scene') = Len(map_lists')
    <2>1. IsSeq(map_file.layers) /\ DOMAIN map.layers = DOMAIN map_file.layers
      BY <1>2, <1>3, NativeAssumption DEF IsSeq, Maps!TilemapAssumption, MapIs
    <2>2. IsSeq(map_lists') /\ IsSeq(map_scene')
      BY <1>2, <2>1, MappedSeq
    <2> QED
      BY <1>5, <2>2 DEF IsSeq
  <1> QED
    BY <1>2, <1>8, <1>9, <1>10 DEF TilemapInv, Maps!TypeOK

LEMMA TilemapStep == TilemapInv /\ [Maps!Next]_map_vars => TilemapInv'
  <1> SUFFICES ASSUME TilemapInv, [Maps!Next]_map_vars PROVE TilemapInv'
    OBVIOUS
  <1>1. CASE Maps!load_fails
    BY <1>1 DEF TilemapInv, Maps!TypeOK, Maps!load_fails
  <1>2. CASE UNCHANGED map_vars
    BY <1>2 DEF map_vars, TilemapInv, Maps!TypeOK
  <1> QED
    BY <1>1, <1>2, MapIsLoaded DEF Maps!Next

LEMMA PicturedTilesShow == TilemapInv => Maps!TilesShowTheirPictures
  <1> SUFFICES ASSUME Pictured(map_lists, map_scene, map_file, map_headless, map_textures),
                      NEW l \in DOMAIN map_lists
               PROVE  /\ \A i \in DOMAIN map_lists[l] : Maps!ShowsItsPicture(map_lists[l][i])
                      /\ \A i, j \in DOMAIN map_lists[l] :
                            Maps!PicturesApart(map_lists[l][i], map_lists[l][j])
                      /\ map_file.tile_width > 0 /\ map_file.tile_height > 0 =>
                            \A i, j \in DOMAIN map_lists[l] :
                                i < j => Follows(map_lists[l][i], map_lists[l][j])
                      /\ map_scene[Maps!get_tilemap_layer(map_scene[l].name)].name
                           = map_scene[l].name
    BY DEF TilemapInv, Maps!TilesShowTheirPictures, Follows
  <1>1. LooksRight(map_lists[l], map_file, map_headless, map_textures)
    BY DEF Pictured
  <1>2. \A i \in DOMAIN map_lists[l] : Maps!ShowsItsPicture(map_lists[l][i])
    BY <1>1 DEF LooksRight, ShowsIn, HoldsIn, Maps!ShowsItsPicture, Maps!Holds
  <1>3. \A i, j \in DOMAIN map_lists[l] : Maps!PicturesApart(map_lists[l][i], map_lists[l][j])
    BY <1>1 DEF LooksRight, ApartIn, HoldsIn, Maps!PicturesApart, Maps!Holds
  <1>4. map_scene[Maps!get_tilemap_layer(map_scene[l].name)].name = map_scene[l].name
    <2>1. Maps!get_tilemap_layer(map_scene[l].name) = FirstNamed(map_scene, map_scene[l].name)
      BY DEF Maps!get_tilemap_layer, FirstNamed
    <2> QED
      BY <2>1 DEF Pictured
  <1> QED
    BY <1>1, <1>2, <1>3, <1>4 DEF LooksRight

\* In whatever order a file lists its tilesets, whatever their gaps and counts, a
\* tile shows its tileset's cut-out, different tiles of a tileset show pictures
\* apart, and the sprites of a layer lie in rows, in the order of their list
\* (parse_tilemap, tile_source_rect and load_tilemap, rust/game/src/extras.rs).
THEOREM MapsLookAsTheirFiles == Spec => []TilesShowTheirPictures
  <1>1. Init => (focus = "tilemap" => TilemapInv)
    BY FocusStart, TilemapStart
  <1>2. (focus = "tilemap" => TilemapInv) /\ [Next]_vars => (focus = "tilemap" => TilemapInv)'
    BY FocusStep, TilemapStep
  <1>3. (focus = "tilemap" => TilemapInv) => TilesShowTheirPictures
    BY PicturedTilesShow DEF TilesShowTheirPictures
  <1> QED
    BY <1>1, <1>2, <1>3, PTL DEF Spec

=============================================================================
