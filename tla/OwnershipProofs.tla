--------------------------- MODULE OwnershipProofs ---------------------------
(***************************************************************************)
(* Proofs about Ownership, for any names, types, values and depth.         *)
(*                                                                         *)
(* Every operation rewrites one or two cells of the scope stack.  The      *)
(* first part says which (the "effect" of the operation); the theorems     *)
(* follow from the effects.                                                *)
(***************************************************************************)
EXTENDS OwnershipProperties, FiniteSetTheorems, SequenceTheorems,
        WellFoundedInduction, TLAPS

-----------------------------------------------------------------------------
(* Cells of the scope stack *)

Stack == scopes \in Seq(Scope) /\ Len(scopes) # 0

\* The stack s with the record r for the name n in its scope d.
Put(s, d, n, r) == [s EXCEPT ![d] = [s[d] EXCEPT ![n] = r]]

LEMMA PutCell ==
  ASSUME NEW s \in Seq(Scope), NEW d \in DOMAIN s, NEW n \in Names,
         NEW r \in Variable
  PROVE  /\ Put(s, d, n, r) \in Seq(Scope)
         /\ Len(Put(s, d, n, r)) = Len(s)
         /\ DOMAIN Put(s, d, n, r) = DOMAIN s
         /\ \A e \in DOMAIN s, m \in Names :
              Put(s, d, n, r)[e][m] = IF e = d /\ m = n THEN r ELSE s[e][m]
<1> DEFINE c == [s[d] EXCEPT ![n] = r]
<1>1. DOMAIN s = 1..Len(s)
  BY LenProperties
<1>2. s[d] \in Scope
  BY <1>1, ElementOfSeq
<1>3. c \in Scope
  BY <1>2 DEF Scope
<1>4. \A m \in Names : c[m] = IF m = n THEN r ELSE s[d][m]
  BY <1>2 DEF Scope
<1> HIDE DEF c
<1>5. [s EXCEPT ![d] = c] \in Seq(Scope) /\ Len([s EXCEPT ![d] = c]) = Len(s)
  BY <1>1, <1>3, ExceptSeq
<1> QED
  BY <1>1, <1>4, <1>5 DEF Put, c

\* Every scope of the stack is a function, and the top of it is one of them.
LEMMA StackScopes ==
  ASSUME Stack
  PROVE  /\ DOMAIN scopes = 1..Len(scopes)
         /\ Len(scopes) \in DOMAIN scopes
         /\ \A d \in DOMAIN scopes :
              scopes[d] \in [Names -> Variable \cup {Undeclared}]
<1>1. DOMAIN scopes = 1..Len(scopes) /\ Len(scopes) \in Nat
  BY LenProperties DEF Stack
<1>2. \A d \in DOMAIN scopes : scopes[d] \in Scope
  BY <1>1, ElementOfSeq DEF Stack
<1> QED
  BY <1>1, <1>2 DEF Stack, Scope

\* The innermost scope with a name exists, and findVariable reads a record.
LEMMA Found ==
  ASSUME Stack, NEW n \in Names, hasVariable(n)
  PROVE  /\ ScopeOf(n) \in DOMAIN scopes
         /\ findVariable(n) = scopes[ScopeOf(n)][n]
         /\ findVariable(n) \in Variable
<1> DEFINE R == {p \in Nat \X Nat : p[1] < p[2]}
           T == {Len(scopes) - d : d \in ScopesOf(n)}
<1>1. IsWellFoundedOn(R, Nat)
  BY NatLessThanWellFounded, Zenon DEF OpToRel
<1>2. Len(scopes) \in Nat /\ \A d \in ScopesOf(n) : d \in 1..Len(scopes)
  BY StackScopes, LenProperties DEF ScopesOf, Stack
<1>3. T \subseteq Nat /\ T # {}
  BY <1>2 DEF hasVariable
<1>4. PICK x \in T : \A y \in T : ~(<<y, x>> \in R)
  <2> HIDE DEF R, T
  <2> QED
    BY <1>1, <1>3, WFMin
<1>5. PICK d \in ScopesOf(n) : x = Len(scopes) - d
  BY <1>4
<1>6. \A e \in ScopesOf(n) : e <= d
  <2> SUFFICES ASSUME NEW e \in ScopesOf(n) PROVE e <= d
    OBVIOUS
  <2>1. Len(scopes) - e \in T /\ Len(scopes) - d \in T
    OBVIOUS
  <2>2. ~(<<Len(scopes) - e, Len(scopes) - d>> \in R)
    BY <1>4, <1>5, <2>1
  <2>3. Len(scopes) - e \in Nat /\ Len(scopes) - d \in Nat
    BY <1>3, <2>1
  <2>4. ~(Len(scopes) - e < Len(scopes) - d)
    BY <2>2, <2>3
  <2> QED
    BY <1>2, <2>4
<1>7. ScopeOf(n) \in ScopesOf(n)
  BY <1>5, <1>6 DEF ScopeOf
<1> QED
  BY <1>7, StackScopes DEF ScopesOf, findVariable

\* The canonical name, when there is one, names a variable that owns storage.
LEMMA CanonicalOwns ==
  ASSUME NEW n \in Names, canonicalName(n) # NoName
  PROVE  /\ canonicalName(n) \in Names
         /\ canonicalName(n) \in Chain(n)
         /\ hasVariable(canonicalName(n))
         /\ ~isBorrowing(canonicalName(n))
<1> DEFINE owners == {m \in Chain(n) : hasVariable(m) /\ ~isBorrowing(m)}
<1>1. canonicalName(n) = IF owners = {} THEN NoName ELSE CHOOSE m \in owners : TRUE
  BY DEF canonicalName
<1>2. canonicalName(n) \in owners
  BY <1>1
<1>3. Chain(n) \subseteq Names
  BY DEF Chain
<1> QED
  BY <1>2, <1>3

-----------------------------------------------------------------------------
(* The effect of every operation *)

OneCell(d, n, r) ==
  /\ d \in DOMAIN scopes
  /\ r \in Variable
  /\ scopes' = Put(scopes, d, n, r)

TwoCells(d, n, r, e, m, q) ==
  /\ d \in DOMAIN scopes /\ e \in DOMAIN scopes
  /\ n # m
  /\ r \in Variable /\ q \in Variable
  /\ scopes' = Put(Put(scopes, d, n, r), e, m, q)

LEMMA DeclareEffect ==
  ASSUME Stack, NEW n \in Names, NEW t \in Types, NEW v \in Values \cup {"none"},
         NEW c \in BOOLEAN, scopes' = declare(n, t, v, c)
  PROVE  OneCell(Len(scopes), n, NewVariable(t, v, c))
<1>1. NewVariable(t, v, c) \in Variable
  BY DEF NewVariable, Variable
<1>2. scopes' = Put(scopes, Len(scopes), n, NewVariable(t, v, c))
  BY StackScopes DEF declare, Put
<1> QED
  BY <1>1, <1>2, StackScopes DEF OneCell

\* What an assignment writes to the variable it reaches.
Assigned(n, v) == [findVariable(n) EXCEPT !.value = v, !.ownership = "Live"]

LEMMA AssignEffect ==
  ASSUME Stack, NEW n \in Names, NEW v \in Values, hasVariable(n),
         scopes' = [scopes EXCEPT ![ScopeOf(n)][n].value = v,
                                  ![ScopeOf(n)][n].ownership = "Live"]
  PROVE  OneCell(ScopeOf(n), n, Assigned(n, v))
<1> DEFINE d == ScopeOf(n)
<1>1. d \in DOMAIN scopes /\ findVariable(n) = scopes[d][n] /\ scopes[d][n] \in Variable
  BY Found
<1>2. Assigned(n, v) \in Variable
  BY <1>1 DEF Assigned, Variable
<1>3. scopes' = [scopes EXCEPT ![d][n].value = v, ![d][n].ownership = "Live"]
  OBVIOUS
<1> HIDE DEF d
<1>4. scopes' = Put(scopes, d, n, Assigned(n, v))
  BY <1>1, <1>3, StackScopes DEF Put, Assigned
<1> QED
  BY <1>1, <1>2, <1>4 DEF OneCell, d

LEMMA MoveEffect ==
  ASSUME Stack, NEW source \in Names, NEW destination \in Names,
         hasVariable(source), hasVariable(destination), source # destination,
         Move(source, destination)
  PROVE  TwoCells(ScopeOf(destination), destination,
                  [findVariable(destination) EXCEPT
                     !.value = findVariable(source).value, !.ownership = "Live"],
                  ScopeOf(source), source,
                  [findVariable(source) EXCEPT !.ownership = "Moved"])
<1> DEFINE s == ScopeOf(source)
           d == ScopeOf(destination)
           r == [findVariable(destination) EXCEPT
                   !.value = findVariable(source).value, !.ownership = "Live"]
           q == [findVariable(source) EXCEPT !.ownership = "Moved"]
<1>1. /\ s \in DOMAIN scopes /\ d \in DOMAIN scopes
      /\ findVariable(source) = scopes[s][source]
      /\ findVariable(destination) = scopes[d][destination]
      /\ scopes[s][source] \in Variable /\ scopes[d][destination] \in Variable
  BY Found
<1>2. r \in Variable /\ q \in Variable
  BY <1>1 DEF Variable
<1>3. scopes' = [scopes EXCEPT
        ![d][destination].value = findVariable(source).value,
        ![d][destination].ownership = "Live",
        ![s][source].ownership = "Moved"]
  BY DEF Move
<1> HIDE DEF s, d
<1>4. scopes' = Put(Put(scopes, d, destination, r), s, source, q)
  <2>1. CASE s = d
    BY <1>1, <1>3, <2>1, StackScopes DEF Put
  <2>2. CASE s # d
    BY <1>1, <1>3, <2>2, StackScopes DEF Put
  <2> QED
    BY <2>1, <2>2
<1> QED
  BY <1>1, <1>2, <1>4 DEF TwoCells, s, d

LEMMA LendEffect ==
  ASSUME Stack, NEW source \in Names, NEW borrower \in Names, NEW mutable \in BOOLEAN,
         hasVariable(source), hasVariable(borrower), source # borrower,
         Lend(source, borrower, mutable)
  PROVE  TwoCells(ScopeOf(borrower), borrower,
                  [findVariable(borrower) EXCEPT !.value = "none",
                     !.borrowSource = source, !.borrowMutable = mutable],
                  ScopeOf(source), source,
                  [findVariable(source) EXCEPT !.borrowers = @ \cup {borrower}])
<1> DEFINE s == ScopeOf(source)
           d == ScopeOf(borrower)
           r == [findVariable(borrower) EXCEPT !.value = "none",
                   !.borrowSource = source, !.borrowMutable = mutable]
           q == [findVariable(source) EXCEPT !.borrowers = @ \cup {borrower}]
<1>1. /\ s \in DOMAIN scopes /\ d \in DOMAIN scopes
      /\ findVariable(source) = scopes[s][source]
      /\ findVariable(borrower) = scopes[d][borrower]
      /\ scopes[s][source] \in Variable /\ scopes[d][borrower] \in Variable
  BY Found
<1>2. r \in Variable /\ q \in Variable
  BY <1>1 DEF Variable
<1>3. scopes' = [scopes EXCEPT
        ![d][borrower].value = "none",
        ![d][borrower].borrowSource = source,
        ![d][borrower].borrowMutable = mutable,
        ![s][source].borrowers = @ \cup {borrower}]
  BY DEF Lend
<1> HIDE DEF s, d
<1>4. scopes' = Put(Put(scopes, d, borrower, r), s, source, q)
  <2>1. CASE s = d
    BY <1>1, <1>3, <2>1, StackScopes, ZenonT(60) DEF Put
  <2>2. CASE s # d
    BY <1>1, <1>3, <2>2, StackScopes DEF Put
  <2> QED
    BY <2>1, <2>2
<1> QED
  BY <1>1, <1>2, <1>4 DEF TwoCells, s, d

\* The end of a borrow: the owner forgets the borrower, which keeps a copy.
LEMMA EndEffect ==
  ASSUME Stack, NEW n \in Names, endBorrow(n)
  PROVE  LET source == canonicalName(n)
         IN  TwoCells(ScopeOf(source), source,
                      [findVariable(source) EXCEPT !.borrowers = @ \ {n}],
                      ScopeOf(n), n,
                      [findVariable(n) EXCEPT !.borrowSource = NoName,
                         !.borrowMutable = FALSE,
                         !.value = findVariable(source).value,
                         !.ownership = "Live"])
<1> DEFINE source == canonicalName(n)
           s == ScopeOf(source)
           d == ScopeOf(n)
           q == [findVariable(source) EXCEPT !.borrowers = @ \ {n}]
           r == [findVariable(n) EXCEPT !.borrowSource = NoName,
                   !.borrowMutable = FALSE,
                   !.value = findVariable(source).value,
                   !.ownership = "Live"]
<1>1. /\ source \in Names /\ hasVariable(source) /\ hasVariable(n) /\ source # n
  BY CanonicalOwns DEF endBorrow, isBorrowing
<1>2. scopes' = [scopes EXCEPT
        ![s][source].borrowers = @ \ {n},
        ![d][n].borrowSource = NoName,
        ![d][n].borrowMutable = FALSE,
        ![d][n].value = findVariable(source).value,
        ![d][n].ownership = "Live"]
  BY DEF endBorrow
<1> HIDE DEF source
<1>3. /\ s \in DOMAIN scopes /\ d \in DOMAIN scopes
      /\ findVariable(source) = scopes[s][source]
      /\ findVariable(n) = scopes[d][n]
      /\ scopes[s][source] \in Variable /\ scopes[d][n] \in Variable
  BY <1>1, Found
<1>4. r \in Variable /\ q \in Variable
  BY <1>3 DEF Variable
<1> HIDE DEF s, d
<1>5. scopes' = Put(Put(scopes, s, source, q), d, n, r)
  <2>1. CASE s = d
    <3> DEFINE t == Put(scopes, d, source, q)
    <3>1. t = [scopes EXCEPT ![d][source].borrowers = @ \ {n}]
      BY <1>1, <1>3, <2>1, StackScopes DEF Put
    <3>2. scopes' = [t EXCEPT ![d][n].borrowSource = NoName,
                              ![d][n].borrowMutable = FALSE,
                              ![d][n].value = findVariable(source).value,
                              ![d][n].ownership = "Live"]
      BY <1>2, <2>1, <3>1
    <3>3. /\ d \in DOMAIN t /\ n \in DOMAIN t[d]
          /\ t[d][n] = findVariable(n) /\ t[d][n] \in Variable
      BY <1>1, <1>3, <1>4, <2>1, PutCell, StackScopes DEF Stack, Put
    <3> HIDE DEF t
    <3>4. scopes' = Put(t, d, n, r)
      BY <3>2, <3>3 DEF Put
    <3> QED
      BY <2>1, <3>4 DEF t
  <2>2. CASE s # d
    BY <1>1, <1>2, <1>3, <2>2, StackScopes, ZenonT(60) DEF Put
  <2> QED
    BY <2>1, <2>2
<1> QED
  BY <1>1, <1>3, <1>4, <1>5 DEF TwoCells, source, s, d

LEMMA SwapAllEffect ==
  ASSUME Stack, NEW a \in Names, NEW b \in Names, varSwapAll(a, b)
  PROVE  TwoCells(ScopeOf(a), a,
                  [findVariable(a) EXCEPT !.value = findVariable(b).value,
                                          !.type = findVariable(b).type],
                  ScopeOf(b), b,
                  [findVariable(b) EXCEPT !.value = findVariable(a).value,
                                          !.type = findVariable(a).type])
<1> DEFINE d == ScopeOf(a)
           e == ScopeOf(b)
           r == [findVariable(a) EXCEPT !.value = findVariable(b).value,
                                        !.type = findVariable(b).type]
           q == [findVariable(b) EXCEPT !.value = findVariable(a).value,
                                        !.type = findVariable(a).type]
<1>1. hasVariable(a) /\ hasVariable(b) /\ a # b
  BY DEF varSwapAll, Swappable
<1>2. scopes' = [scopes EXCEPT
       ![d][a].value = findVariable(b).value,
       ![e][b].value = findVariable(a).value,
       ![d][a].type = findVariable(b).type,
       ![e][b].type = findVariable(a).type]
  BY DEF varSwapAll
<1>3. /\ d \in DOMAIN scopes /\ e \in DOMAIN scopes
      /\ findVariable(a) = scopes[d][a] /\ findVariable(b) = scopes[e][b]
      /\ scopes[d][a] \in Variable /\ scopes[e][b] \in Variable
  BY <1>1, Found
<1>4. r \in Variable /\ q \in Variable
  BY <1>3 DEF Variable
<1> HIDE DEF d, e
<1>5. scopes' = Put(Put(scopes, d, a, r), e, b, q)
  <2>1. CASE d = e
    BY <1>1, <1>2, <1>3, <2>1, StackScopes, ZenonT(60) DEF Put
  <2>2. CASE d # e
    BY <1>1, <1>2, <1>3, <2>2, StackScopes DEF Put
  <2> QED
    BY <2>1, <2>2
<1> QED
  BY <1>1, <1>3, <1>4, <1>5 DEF TwoCells, d, e

LEMMA SwapValEffect ==
  ASSUME Stack, NEW a \in Names, NEW b \in Names, varSwapVal(a, b)
  PROVE  TwoCells(ScopeOf(a), a,
                  [findVariable(a) EXCEPT !.value = findVariable(b).value],
                  ScopeOf(b), b,
                  [findVariable(b) EXCEPT !.value = findVariable(a).value])
<1> DEFINE d == ScopeOf(a)
           e == ScopeOf(b)
           r == [findVariable(a) EXCEPT !.value = findVariable(b).value]
           q == [findVariable(b) EXCEPT !.value = findVariable(a).value]
<1>1. hasVariable(a) /\ hasVariable(b) /\ a # b
  BY DEF varSwapVal, Swappable
<1>2. scopes' = [scopes EXCEPT ![d][a].value = findVariable(b).value,
                               ![e][b].value = findVariable(a).value]
  BY DEF varSwapVal
<1>3. /\ d \in DOMAIN scopes /\ e \in DOMAIN scopes
      /\ findVariable(a) = scopes[d][a] /\ findVariable(b) = scopes[e][b]
      /\ scopes[d][a] \in Variable /\ scopes[e][b] \in Variable
  BY <1>1, Found
<1>4. r \in Variable /\ q \in Variable
  BY <1>3 DEF Variable
<1> HIDE DEF d, e
<1>5. scopes' = Put(Put(scopes, d, a, r), e, b, q)
  <2>1. CASE d = e
    BY <1>1, <1>2, <1>3, <2>1, StackScopes DEF Put
  <2>2. CASE d # e
    BY <1>1, <1>2, <1>3, <2>2, StackScopes DEF Put
  <2> QED
    BY <2>1, <2>2
<1> QED
  BY <1>1, <1>3, <1>4, <1>5 DEF TwoCells, d, e

\* A shared declaration: a fresh mutable borrower of a canonical owner.
LEMMA SharedEffect ==
  ASSUME Stack, NEW n \in Names, NEW t \in Types, NEW m \in Names,
         SharedDeclarationStatement(n, t, m)
  PROVE  LET owner == canonicalName(m)
         IN  TwoCells(Len(scopes), n,
                      [NewVariable(t, "none", FALSE) EXCEPT
                         !.borrowSource = owner, !.borrowMutable = TRUE],
                      ScopeOf(owner), owner,
                      [findVariable(owner) EXCEPT !.borrowers = {n}])
<1> DEFINE owner == canonicalName(m)
           s == ScopeOf(owner)
           d == Len(scopes)
           fresh == NewVariable(t, "none", FALSE)
           r == [fresh EXCEPT !.borrowSource = owner, !.borrowMutable = TRUE]
           q == [findVariable(owner) EXCEPT !.borrowers = {n}]
<1>1. /\ owner \in Names /\ owner \in Chain(m) /\ hasVariable(owner)
      /\ n \notin Chain(m)
  BY CanonicalOwns DEF SharedDeclarationStatement, SharedDeclarable, SharedBorrows
<1>2. scopes' = [[scopes EXCEPT ![d][n] = fresh] EXCEPT
        ![d][n].borrowSource = owner,
        ![d][n].borrowMutable = TRUE,
        ![s][owner].borrowers = {n}]
  BY DEF SharedDeclarationStatement, declare
<1> HIDE DEF owner
<1>3. /\ s \in DOMAIN scopes /\ d \in DOMAIN scopes
      /\ findVariable(owner) = scopes[s][owner]
      /\ scopes[s][owner] \in Variable
  BY <1>1, Found, StackScopes
<1>4. fresh \in Variable
  BY DEF NewVariable, Variable
<1>5. r \in Variable /\ q \in Variable
  BY <1>1, <1>3, <1>4 DEF Variable
<1> HIDE DEF s, d, fresh
<1>6. scopes' = Put(Put(scopes, d, n, r), s, owner, q)
  <2>1. CASE s = d
    BY <1>1, <1>2, <1>3, <1>4, <2>1, StackScopes DEF Put
  <2>2. CASE s # d
    BY <1>1, <1>2, <1>3, <1>4, <2>2, StackScopes DEF Put
  <2> QED
    BY <2>1, <2>2
<1> QED
  BY <1>1, <1>3, <1>5, <1>6 DEF TwoCells, owner, s, d, fresh

-----------------------------------------------------------------------------
(* The stack keeps its shape, and constants own their storage *)

LEMMA AfterOne ==
  ASSUME Stack, NEW d, NEW n \in Names, NEW r, OneCell(d, n, r)
  PROVE  /\ Stack' /\ Len(scopes') = Len(scopes) /\ DOMAIN scopes' = DOMAIN scopes
         /\ \A f \in DOMAIN scopes, o \in Names :
              scopes'[f][o] = IF f = d /\ o = n THEN r ELSE scopes[f][o]
BY PutCell DEF Stack, OneCell

LEMMA AfterTwo ==
  ASSUME Stack, NEW d, NEW n \in Names, NEW r, NEW e, NEW m \in Names, NEW q,
         TwoCells(d, n, r, e, m, q)
  PROVE  /\ Stack' /\ Len(scopes') = Len(scopes) /\ DOMAIN scopes' = DOMAIN scopes
         /\ \A f \in DOMAIN scopes, o \in Names :
              scopes'[f][o] = IF f = d /\ o = n THEN r
                              ELSE IF f = e /\ o = m THEN q ELSE scopes[f][o]
<1>1. /\ scopes \in Seq(Scope) /\ d \in DOMAIN scopes /\ e \in DOMAIN scopes
      /\ r \in Variable /\ q \in Variable /\ n # m
      /\ scopes' = Put(Put(scopes, d, n, r), e, m, q)
  BY DEF Stack, TwoCells
<1> DEFINE u == Put(scopes, d, n, r)
<1>2. /\ u \in Seq(Scope) /\ Len(u) = Len(scopes) /\ DOMAIN u = DOMAIN scopes
      /\ \A f \in DOMAIN scopes, o \in Names :
           u[f][o] = IF f = d /\ o = n THEN r ELSE scopes[f][o]
  BY <1>1, PutCell
<1>3. scopes' = Put(u, e, m, q)
  BY <1>1
<1> HIDE DEF u
<1>4. /\ Put(u, e, m, q) \in Seq(Scope)
      /\ Len(Put(u, e, m, q)) = Len(u)
      /\ DOMAIN Put(u, e, m, q) = DOMAIN u
      /\ \A f \in DOMAIN u, o \in Names :
           Put(u, e, m, q)[f][o] = IF f = e /\ o = m THEN q ELSE u[f][o]
  <2>1. u \in Seq(Scope) /\ e \in DOMAIN u /\ q \in Variable
    BY <1>1, <1>2
  <2> QED
    BY <2>1, PutCell
<1> QED
  BY <1>1, <1>2, <1>3, <1>4 DEF Stack

Owns(r) == r.constant => r.borrowSource = NoName /\ r.ownership = "Live"

OwnInv == TypeOK /\ ConstantsOwnTheirStorage

LEMMA OwnInvStack == OwnInv => Stack
BY DEF OwnInv, TypeOK, Stack

LEMMA OwnOne ==
  ASSUME OwnInv, NEW d, NEW n \in Names, NEW r, OneCell(d, n, r), Owns(r)
  PROVE  OwnInv'
<1>1. TypeOK'
  BY AfterOne, OwnInvStack DEF OwnInv, TypeOK, Stack
<1>2. ConstantsOwnTheirStorage'
  <2>1. /\ DOMAIN scopes' = DOMAIN scopes
        /\ \A f \in DOMAIN scopes, o \in Names :
             scopes'[f][o] = IF f = d /\ o = n THEN r ELSE scopes[f][o]
    BY AfterOne, OwnInvStack
  <2> QED
    BY <2>1 DEF OwnInv, ConstantsOwnTheirStorage, Owns
<1> QED
  BY <1>1, <1>2 DEF OwnInv

LEMMA OwnTwo ==
  ASSUME OwnInv, NEW d, NEW n \in Names, NEW r, NEW e, NEW m \in Names, NEW q,
         TwoCells(d, n, r, e, m, q), Owns(r), Owns(q)
  PROVE  OwnInv'
<1>1. TypeOK'
  BY AfterTwo, OwnInvStack DEF OwnInv, TypeOK, Stack
<1>2. ConstantsOwnTheirStorage'
  <2>1. /\ DOMAIN scopes' = DOMAIN scopes
        /\ \A f \in DOMAIN scopes, o \in Names :
             scopes'[f][o] = IF f = d /\ o = n THEN r
                             ELSE IF f = e /\ o = m THEN q ELSE scopes[f][o]
    BY AfterTwo, OwnInvStack
  <2> QED
    BY <2>1 DEF OwnInv, ConstantsOwnTheirStorage, Owns
<1> QED
  BY <1>1, <1>2 DEF OwnInv

\* What the lookup finds satisfies the invariant of the cells.
LEMMA FoundOwns ==
  ASSUME OwnInv, NEW n \in Names, hasVariable(n)
  PROVE  Owns(findVariable(n)) /\ findVariable(n) \in Variable
<1>1. /\ ScopeOf(n) \in DOMAIN scopes
      /\ findVariable(n) = scopes[ScopeOf(n)][n]
      /\ findVariable(n) \in Variable
  BY Found, OwnInvStack
<1> QED
  BY <1>1, UndeclaredAssumption DEF OwnInv, ConstantsOwnTheirStorage, Owns

LEMMA OwnInit == Init => OwnInv
<1> SUFFICES ASSUME Init PROVE OwnInv
  OBVIOUS
<1>1. [n \in Names |-> Undeclared] \in Scope
  BY DEF Scope
<1>2. scopes \in Seq(Scope) /\ Len(scopes) = 1
  BY <1>1 DEF Init
<1>3. 1 \in 1..MaxDepth
  BY NamesAssumption
<1>4. ConstantsOwnTheirStorage
  BY <1>2 DEF Init, ConstantsOwnTheirStorage
<1> QED
  BY <1>2, <1>3, <1>4 DEF OwnInv, TypeOK

\* A move, a loan and the end of a loan, the three shapes the builtins share.
LEMMA OwnMove ==
  ASSUME OwnInv, NEW source \in Names, NEW destination \in Names,
         hasVariable(source), hasVariable(destination), source # destination,
         ~findVariable(source).constant, ~findVariable(destination).constant,
         Move(source, destination)
  PROVE  OwnInv'
<1> DEFINE r == [findVariable(destination) EXCEPT
                   !.value = findVariable(source).value, !.ownership = "Live"]
           q == [findVariable(source) EXCEPT !.ownership = "Moved"]
<1>1. TwoCells(ScopeOf(destination), destination, r, ScopeOf(source), source, q)
  BY MoveEffect, OwnInvStack
<1>2. findVariable(source) \in Variable /\ findVariable(destination) \in Variable
  BY FoundOwns
<1>3. Owns(r) /\ Owns(q)
  BY <1>2 DEF Owns, Variable
<1> HIDE DEF r, q
<1> QED
  BY <1>1, <1>3, OwnTwo

LEMMA OwnLend ==
  ASSUME OwnInv, NEW source \in Names, NEW borrower \in Names, NEW mutable \in BOOLEAN,
         hasVariable(source), hasVariable(borrower), source # borrower,
         ~findVariable(borrower).constant, Lend(source, borrower, mutable)
  PROVE  OwnInv'
<1> DEFINE r == [findVariable(borrower) EXCEPT !.value = "none",
                   !.borrowSource = source, !.borrowMutable = mutable]
           q == [findVariable(source) EXCEPT !.borrowers = @ \cup {borrower}]
<1>1. TwoCells(ScopeOf(borrower), borrower, r, ScopeOf(source), source, q)
  BY LendEffect, OwnInvStack
<1>2. /\ findVariable(source) \in Variable /\ findVariable(borrower) \in Variable
      /\ Owns(findVariable(source))
  BY FoundOwns
<1>3. Owns(r) /\ Owns(q)
  BY <1>2 DEF Owns, Variable
<1> HIDE DEF r, q
<1> QED
  BY <1>1, <1>3, OwnTwo

LEMMA OwnEnd ==
  ASSUME OwnInv, NEW n \in Names, endBorrow(n)
  PROVE  OwnInv'
<1> DEFINE source == canonicalName(n)
           q == [findVariable(source) EXCEPT !.borrowers = @ \ {n}]
           r == [findVariable(n) EXCEPT !.borrowSource = NoName,
                   !.borrowMutable = FALSE,
                   !.value = findVariable(source).value,
                   !.ownership = "Live"]
<1>1. TwoCells(ScopeOf(source), source, q, ScopeOf(n), n, r)
  BY EndEffect, OwnInvStack
<1>2. source \in Names /\ hasVariable(source) /\ hasVariable(n)
  BY CanonicalOwns DEF endBorrow, isBorrowing
<1>3. /\ findVariable(source) \in Variable /\ findVariable(n) \in Variable
      /\ Owns(findVariable(source))
  BY <1>2, FoundOwns
<1>4. Owns(r) /\ Owns(q)
  BY <1>3 DEF Owns, Variable
<1> HIDE DEF r, q, source
<1> QED
  BY <1>1, <1>2, <1>4, OwnTwo

LEMMA OwnAssign ==
  ASSUME OwnInv, NEW n \in Names, NEW v \in Values, hasVariable(n),
         scopes' = [scopes EXCEPT ![ScopeOf(n)][n].value = v,
                                  ![ScopeOf(n)][n].ownership = "Live"]
  PROVE  OwnInv'
<1>1. OneCell(ScopeOf(n), n, Assigned(n, v))
  BY AssignEffect, OwnInvStack
<1>2. Owns(Assigned(n, v))
  BY FoundOwns DEF Owns, Assigned, Variable
<1> QED
  BY <1>1, <1>2, OwnOne

LEMMA OwnUse == OwnInv /\ Use => OwnInv'
<1> SUFFICES ASSUME OwnInv, Use PROVE OwnInv'
  OBVIOUS
<1>1. ASSUME NEW n \in Names, NEW v \in Values, AssignOwner(n, v) PROVE OwnInv'
  BY <1>1, OwnAssign DEF AssignOwner
<1>2. ASSUME NEW n \in Names, NEW v \in Values, AssignThroughBorrow(n, v)
      PROVE  OwnInv'
  <2> DEFINE owner == canonicalName(n)
  <2>1. owner \in Names /\ hasVariable(owner)
    BY <1>2, CanonicalOwns DEF AssignThroughBorrow
  <2>2. scopes' = [scopes EXCEPT ![ScopeOf(owner)][owner].value = v,
                                 ![ScopeOf(owner)][owner].ownership = "Live"]
    BY <1>2 DEF AssignThroughBorrow
  <2> HIDE DEF owner
  <2> QED
    BY <2>1, <2>2, OwnAssign
<1>3. ASSUME NEW n \in Names, NEW m \in Names, varTransfer(n, m) PROVE OwnInv'
  <2>1. canonicalName(n) \in Names /\ hasVariable(canonicalName(n))
    BY <1>3, CanonicalOwns DEF varTransfer
  <2> QED
    BY <1>3, <2>1, OwnMove DEF varTransfer
<1>4. ASSUME NEW n \in Names, NEW m \in Names, varTransferMutate(n, m) PROVE OwnInv'
  <2>1. canonicalName(n) \in Names /\ hasVariable(canonicalName(n))
    BY <1>4, CanonicalOwns DEF varTransferMutate
  <2> QED
    BY <1>4, <2>1, OwnMove DEF varTransferMutate
<1>5. ASSUME NEW a \in Names, NEW b \in Names, varSwapAll(a, b) PROVE OwnInv'
  <2> DEFINE r == [findVariable(a) EXCEPT !.value = findVariable(b).value,
                                          !.type = findVariable(b).type]
             q == [findVariable(b) EXCEPT !.value = findVariable(a).value,
                                          !.type = findVariable(a).type]
  <2>1. TwoCells(ScopeOf(a), a, r, ScopeOf(b), b, q)
    BY <1>5, SwapAllEffect, OwnInvStack
  <2>2. /\ findVariable(a) \in Variable /\ ~findVariable(a).constant
        /\ findVariable(b) \in Variable /\ ~findVariable(b).constant
    BY <1>5, FoundOwns DEF varSwapAll, Swappable
  <2>3. Owns(r) /\ Owns(q)
    BY <2>2 DEF Owns, Variable
  <2> HIDE DEF r, q
  <2> QED
    BY <2>1, <2>3, OwnTwo
<1>6. ASSUME NEW a \in Names, NEW b \in Names, varSwapVal(a, b) PROVE OwnInv'
  <2> DEFINE r == [findVariable(a) EXCEPT !.value = findVariable(b).value]
             q == [findVariable(b) EXCEPT !.value = findVariable(a).value]
  <2>1. TwoCells(ScopeOf(a), a, r, ScopeOf(b), b, q)
    BY <1>6, SwapValEffect, OwnInvStack
  <2>2. /\ findVariable(a) \in Variable /\ ~findVariable(a).constant
        /\ findVariable(b) \in Variable /\ ~findVariable(b).constant
    BY <1>6, FoundOwns DEF varSwapVal, Swappable
  <2>3. Owns(r) /\ Owns(q)
    BY <2>2 DEF Owns, Variable
  <2> HIDE DEF r, q
  <2> QED
    BY <2>1, <2>3, OwnTwo
<1>7. ASSUME NEW n \in Names, NEW m \in Names, varBorrow(n, m) PROVE OwnInv'
  <2>1. canonicalName(n) \in Names /\ hasVariable(canonicalName(n))
    BY <1>7, CanonicalOwns DEF varBorrow
  <2> QED
    BY <1>7, <2>1, OwnLend DEF varBorrow
<1>8. ASSUME NEW n \in Names, NEW m \in Names, varBorrowMutate(n, m) PROVE OwnInv'
  <2>1. canonicalName(n) \in Names /\ hasVariable(canonicalName(n))
    BY <1>8, CanonicalOwns DEF varBorrowMutate, MutablyBorrowable
  <2> QED
    BY <1>8, <2>1, OwnLend DEF varBorrowMutate, MutablyBorrowable
<1>9. ASSUME NEW n \in Names, endBorrow(n) PROVE OwnInv'
  BY <1>9, OwnEnd
<1> QED
  BY <1>1, <1>2, <1>3, <1>4, <1>5, <1>6, <1>7, <1>8, <1>9 DEF Use

LEMMA OwnDeclare ==
  ASSUME OwnInv, NEW N \in SUBSET Names, DeclareIn(N)
  PROVE  OwnInv'
<1>1. ASSUME NEW n \in Names, NEW t \in Types, NEW v \in Values \cup {"none"},
             NEW c \in BOOLEAN, scopes' = declare(n, t, v, c)
      PROVE  OwnInv'
  <2>1. OneCell(Len(scopes), n, NewVariable(t, v, c))
    BY <1>1, DeclareEffect, OwnInvStack
  <2>2. Owns(NewVariable(t, v, c))
    BY DEF Owns, NewVariable
  <2> QED
    BY <2>1, <2>2, OwnOne
<1>2. ASSUME NEW n \in N, NEW t \in Types, NEW v \in Values, NEW c \in BOOLEAN,
             DeclarationStatement(n, t, v, c)
      PROVE  OwnInv'
  BY <1>1, <1>2 DEF DeclarationStatement
<1>3. ASSUME NEW n \in N, NEW t \in Types, NEW m \in Names,
             SharedDeclarationStatement(n, t, m)
      PROVE  OwnInv'
  <2> DEFINE owner == canonicalName(m)
             r == [NewVariable(t, "none", FALSE) EXCEPT
                     !.borrowSource = owner, !.borrowMutable = TRUE]
             q == [findVariable(owner) EXCEPT !.borrowers = {n}]
  <2>1. TwoCells(Len(scopes), n, r, ScopeOf(owner), owner, q)
    BY <1>3, SharedEffect, OwnInvStack
  <2>2. owner \in Names /\ hasVariable(owner)
    BY <1>3, CanonicalOwns DEF SharedDeclarationStatement, SharedDeclarable
  <2>3. findVariable(owner) \in Variable /\ Owns(findVariable(owner))
    BY <2>2, FoundOwns
  <2>4. Owns(r) /\ Owns(q)
    BY <2>3 DEF Owns, NewVariable, Variable
  <2> HIDE DEF r, q, owner
  <2> QED
    BY <2>1, <2>2, <2>4, OwnTwo
<1>4. ASSUME NEW n \in N, NEW t \in Types, NEW m \in Names,
             SharedDeclarationFails(n, t, m)
      PROVE  OwnInv'
  <2>1. canonicalName(m) \in Names /\ hasVariable(canonicalName(m))
    BY <1>4, CanonicalOwns DEF SharedDeclarationFails, SharedDeclarable
  <2>2. findVariable(canonicalName(m)).value \in Values \cup {"none"}
    BY <2>1, FoundOwns DEF Variable
  <2> QED
    BY <1>1, <1>4, <2>2 DEF SharedDeclarationFails
<1> QED
  BY <1>2, <1>3, <1>4 DEF DeclareIn

LEMMA OwnCall ==
  ASSUME OwnInv, NEW arguments \in Arguments, Call(arguments)
  PROVE  OwnInv'
<1> DEFINE fresh == [n \in Names |->
                       IF n \in DOMAIN arguments
                       THEN NewVariable(arguments[n].type, arguments[n].value, FALSE)
                       ELSE Undeclared]
<1>1. scopes' = Append(scopes, fresh) /\ Len(scopes) < MaxDepth
  BY DEF Call
<1>2. PICK P \in Parameters : arguments \in [P -> [type : Types, value : Values]]
  BY DEF Arguments
<1>3. \A n \in Names : fresh[n] # Undeclared =>
        fresh[n] \in Variable /\ ~fresh[n].constant
  BY <1>2 DEF NewVariable, Variable
<1>4. fresh \in Scope
  BY <1>3 DEF Scope
<1> HIDE DEF fresh
<1>5. /\ scopes' \in Seq(Scope) /\ Len(scopes') = Len(scopes) + 1
      /\ \A d \in 1..Len(scopes) : scopes'[d] = scopes[d]
      /\ scopes'[Len(scopes) + 1] = fresh
  BY <1>1, <1>4, AppendProperties DEF OwnInv, TypeOK
<1>6. TypeOK'
  BY <1>1, <1>5, NamesAssumption DEF OwnInv, TypeOK
<1>7. DOMAIN scopes' = 1..(Len(scopes) + 1) /\ DOMAIN scopes = 1..Len(scopes)
      /\ Len(scopes) \in Nat
  BY <1>5, LenProperties DEF OwnInv, TypeOK
<1>8. ConstantsOwnTheirStorage'
  <2> SUFFICES ASSUME NEW d \in DOMAIN scopes', NEW n \in Names,
                      scopes'[d][n] # Undeclared, scopes'[d][n].constant
               PROVE  /\ scopes'[d][n].borrowSource = NoName
                      /\ scopes'[d][n].ownership = "Live"
    BY DEF ConstantsOwnTheirStorage
  <2>1. d \in 1..Len(scopes)
    BY <1>3, <1>5, <1>7
  <2> QED
    BY <1>5, <1>7, <2>1 DEF OwnInv, ConstantsOwnTheirStorage
<1> QED
  BY <1>6, <1>8 DEF OwnInv

LEMMA OwnReturn == OwnInv /\ Return => OwnInv'
<1> SUFFICES ASSUME OwnInv, Return PROVE OwnInv'
  OBVIOUS
<1>1. /\ Len(scopes) \in Nat /\ Len(scopes) > 1 /\ Len(scopes) <= MaxDepth
      /\ DOMAIN scopes = 1..Len(scopes)
      /\ scopes' = SubSeq(scopes, 1, Len(scopes) - 1)
  BY LenProperties, NamesAssumption DEF OwnInv, TypeOK, Return
<1>2. \A d \in 1..(Len(scopes) - 1) : scopes[d] \in Scope
  BY <1>1, ElementOfSeq DEF OwnInv, TypeOK
<1>3. /\ scopes' \in Seq(Scope) /\ Len(scopes') = Len(scopes) - 1
      /\ \A d \in 1..(Len(scopes) - 1) : scopes'[d] = scopes[d]
  <2>1. /\ SubSeq(scopes, 1, Len(scopes) - 1) \in Seq(Scope)
        /\ Len(SubSeq(scopes, 1, Len(scopes) - 1)) =
             IF 1 <= Len(scopes) - 1 THEN Len(scopes) - 1 - 1 + 1 ELSE 0
        /\ \A d \in 1..(Len(scopes) - 1 - 1 + 1) :
             SubSeq(scopes, 1, Len(scopes) - 1)[d] = scopes[1 + d - 1]
    BY <1>1, <1>2, SubSeqProperties
  <2> QED
    BY <1>1, <2>1
<1>4. DOMAIN scopes' = 1..(Len(scopes) - 1)
  BY <1>3, LenProperties
<1>5. TypeOK'
  BY <1>1, <1>3, NamesAssumption DEF TypeOK
<1>6. ConstantsOwnTheirStorage'
  BY <1>1, <1>3, <1>4 DEF OwnInv, ConstantsOwnTheirStorage
<1> QED
  BY <1>5, <1>6 DEF OwnInv

LEMMA OwnStep == OwnInv /\ [Next]_scopes => OwnInv'
<1> SUFFICES ASSUME OwnInv, [Next]_scopes PROVE OwnInv'
  OBVIOUS
<1>1. CASE Use
  BY <1>1, OwnUse
<1>2. CASE DeclareIn(Names)
  BY <1>2, OwnDeclare
<1>3. ASSUME NEW arguments \in Arguments, Call(arguments) PROVE OwnInv'
  BY <1>3, OwnCall
<1>4. CASE Return
  BY <1>4, OwnReturn
<1>5. CASE UNCHANGED scopes
  BY <1>5 DEF OwnInv, TypeOK, ConstantsOwnTheirStorage
<1> QED
  BY <1>1, <1>2, <1>3, <1>4, <1>5 DEF Next

LEMMA OwnInvariant == Spec => []OwnInv
BY OwnInit, OwnStep, PTL DEF Spec

\* The scope stack keeps its type and its depth, and the global scope stays.
THEOREM TypeCorrect == Spec => []TypeOK
<1>1. OwnInv => TypeOK
  BY DEF OwnInv
<1> QED
  BY <1>1, OwnInvariant, PTL

\* A constant never becomes a borrower and is never moved out of, whatever the
\* functions of a program do to it.
THEOREM ConstantsOwn == Spec => []ConstantsOwnTheirStorage
<1>1. OwnInv => ConstantsOwnTheirStorage
  BY DEF OwnInv
<1> QED
  BY <1>1, OwnInvariant, PTL

-----------------------------------------------------------------------------
(***************************************************************************)
(* One function body (BodySpec): the borrowing rules, for any number of    *)
(* variables.  With a single scope the variables are a function V from     *)
(* names to records; the inductive invariant is a predicate on V, and      *)
(* every operation is an update of V at one or two names.                  *)
(***************************************************************************)

(* The invariant *)

Declared(V, n) == V[n] # Undeclared
Borrows(V, n) == V[n] # Undeclared /\ V[n].borrowSource # NoName

\* A borrower is known to its source.
Registered(V) ==
  \A n \in Names : Borrows(V, n) =>
    /\ V[n].borrowSource \in Names
    /\ Declared(V, V[n].borrowSource)
    /\ n \in V[V[n].borrowSource].borrowers

\* What was moved away is not lent.
MovedNotLent(V) ==
  \A n \in Names : Declared(V, n) /\ V[n].ownership = "Moved" =>
    V[n].borrowers = {}

\* What owns storage has a value.
Valued(V) ==
  \A n \in Names : Declared(V, n) /\ ~Borrows(V, n) => V[n].value \in Values

\* No set of names borrows from itself only.
Acyclic(V) ==
  \A S \in SUBSET Names : S # {} =>
    \E m \in S : ~(Borrows(V, m) /\ V[m].borrowSource \in S)

Good(V) == Registered(V) /\ MovedNotLent(V) /\ Valued(V) /\ Acyclic(V)

Vars == [Names -> Variable \cup {Undeclared}]

-----------------------------------------------------------------------------
(* The updates of V *)

\* A name that borrows nothing and is lent to nobody may get a fresh record.
LEMMA GoodDeclare ==
  ASSUME NEW V \in Vars, NEW W \in Vars, Good(V), NEW n \in Names, NEW r \in Variable,
         ~Borrows(V, n), Declared(V, n) => V[n].borrowers = {},
         r.borrowSource = NoName, r.ownership = "Live", r.value \in Values,
         \A o \in Names : W[o] = IF o = n THEN r ELSE V[o]
  PROVE  Good(W)
<1>1. \A o \in Names : ~(Borrows(V, o) /\ V[o].borrowSource = n)
  BY DEF Good, Registered
<1>2. r # Undeclared
  BY UndeclaredAssumption
<1>3. \A o \in Names : Borrows(W, o) <=> Borrows(V, o)
  BY DEF Borrows
<1>4. \A o \in Names : Borrows(W, o) => W[o] = V[o]
  BY <1>3
<1>5. Registered(W)
  BY <1>1, <1>2, <1>3, <1>4 DEF Good, Registered, Declared
<1>6. MovedNotLent(W)
  BY DEF Good, MovedNotLent, Declared
<1>7. Valued(W)
  BY <1>3 DEF Good, Valued, Declared
<1>8. Acyclic(W)
  BY <1>3, <1>4 DEF Good, Acyclic
<1> QED
  BY <1>5, <1>6, <1>7, <1>8 DEF Good

\* An update that changes values and moves nothing that is lent.
LEMMA GoodValues ==
  ASSUME NEW V \in Vars, NEW W \in Vars, Good(V),
         \A o \in Names :
           /\ Declared(W, o) <=> Declared(V, o)
           /\ Declared(V, o) =>
                /\ W[o].borrowSource = V[o].borrowSource
                /\ W[o].borrowers = V[o].borrowers
                /\ ~Borrows(V, o) => W[o].value \in Values
                /\ W[o].ownership = "Moved" => V[o].borrowers = {}
  PROVE  Good(W)
<1>1. \A o \in Names : Borrows(W, o) <=> Borrows(V, o)
  BY DEF Borrows, Declared
<1>2. Registered(W)
  BY <1>1 DEF Good, Registered, Borrows, Declared
<1>3. MovedNotLent(W)
  BY DEF Good, MovedNotLent
<1>4. Valued(W)
  BY <1>1 DEF Good, Valued
<1>5. Acyclic(W)
  BY <1>1 DEF Good, Acyclic, Borrows, Declared
<1> QED
  BY <1>2, <1>3, <1>4, <1>5 DEF Good

\* A new borrower b of the owner s; b may have been fresh.
LEMMA GoodLend ==
  ASSUME NEW V \in Vars, NEW W \in Vars, Good(V), NEW s \in Names, NEW b \in Names,
         s # b, Declared(V, s), ~Borrows(V, s), V[s].ownership # "Moved",
         ~Borrows(V, b),
         \A o \in Names \ {s, b} : W[o] = V[o],
         Declared(W, s), W[s].borrowSource = NoName, W[s].value = V[s].value,
         W[s].ownership = V[s].ownership, W[s].borrowers = V[s].borrowers \cup {b},
         Declared(W, b), W[b].borrowSource = s,
         \/ Declared(V, b) /\ W[b].borrowers = V[b].borrowers
                           /\ W[b].ownership = V[b].ownership
         \/ W[b].ownership = "Live" /\ (Declared(V, b) => V[b].borrowers = {})
  PROVE  Good(W)
<1>1. Borrows(W, b) /\ ~Borrows(W, s)
  BY NamesAssumption DEF Borrows, Declared
<1>2. \A o \in Names \ {b} :
        /\ Borrows(W, o) <=> Borrows(V, o)
        /\ Borrows(V, o) => W[o].borrowSource = V[o].borrowSource
  BY <1>1 DEF Borrows
<1>3. Registered(W)
  <2> SUFFICES ASSUME NEW n \in Names, Borrows(W, n)
               PROVE  /\ W[n].borrowSource \in Names
                      /\ Declared(W, W[n].borrowSource)
                      /\ n \in W[W[n].borrowSource].borrowers
    BY DEF Registered
  <2>1. CASE n = b
    BY <2>1
  <2>2. CASE n # b
    <3>1. /\ V[n].borrowSource \in Names /\ Declared(V, V[n].borrowSource)
          /\ n \in V[V[n].borrowSource].borrowers
          /\ W[n].borrowSource = V[n].borrowSource
      BY <1>2, <2>2 DEF Good, Registered
    <3>2. CASE V[n].borrowSource = b
      BY <3>1, <3>2
    <3>3. CASE V[n].borrowSource = s
      BY <3>1, <3>3
    <3>4. CASE V[n].borrowSource \notin {s, b}
      BY <3>1, <3>4 DEF Declared
    <3> QED
      BY <3>2, <3>3, <3>4
  <2> QED
    BY <2>1, <2>2
<1>4. MovedNotLent(W)
  <2> SUFFICES ASSUME NEW n \in Names, Declared(W, n), W[n].ownership = "Moved"
               PROVE  W[n].borrowers = {}
    BY DEF MovedNotLent
  <2>1. n # s
    OBVIOUS
  <2>2. CASE n = b
    BY <2>2 DEF Good, MovedNotLent
  <2>3. CASE n # b
    BY <2>1, <2>3 DEF Good, MovedNotLent, Declared
  <2> QED
    BY <2>2, <2>3
<1>5. Valued(W)
  BY <1>1, <1>2 DEF Good, Valued, Declared
<1>6. Acyclic(W)
  <2> SUFFICES ASSUME NEW S \in SUBSET Names, S # {},
                      \A m \in S : Borrows(W, m) /\ W[m].borrowSource \in S
               PROVE  FALSE
    BY DEF Acyclic
  <2>1. s \notin S
    BY <1>1
  <2>2. b \notin S
    BY <2>1
  <2>3. \A m \in S : Borrows(V, m) /\ V[m].borrowSource \in S
    BY <1>2, <2>2
  <2> QED
    BY <2>3 DEF Good, Acyclic
<1> QED
  BY <1>3, <1>4, <1>5, <1>6 DEF Good

\* The borrower n becomes an owner, and the owner s forgets it.
LEMMA GoodEnd ==
  ASSUME NEW V \in Vars, NEW W \in Vars, Good(V), NEW s \in Names, NEW n \in Names,
         s # n, Declared(V, s), ~Borrows(V, s), Borrows(V, n),
         \A o \in Names \ {s, n} : W[o] = V[o],
         Declared(W, s), W[s].borrowSource = NoName, W[s].value = V[s].value,
         W[s].ownership = V[s].ownership, W[s].borrowers = V[s].borrowers \ {n},
         Declared(W, n), W[n].borrowSource = NoName, W[n].value = V[s].value,
         W[n].ownership = "Live", W[n].borrowers = V[n].borrowers
  PROVE  Good(W)
<1>1. ~Borrows(W, n) /\ ~Borrows(W, s)
  BY DEF Borrows
<1>2. \A o \in Names :
        Borrows(W, o) => Borrows(V, o) /\ W[o] = V[o] /\ o # n
  BY <1>1 DEF Borrows
<1>3. Registered(W)
  <2> SUFFICES ASSUME NEW o \in Names, Borrows(W, o)
               PROVE  /\ W[o].borrowSource \in Names
                      /\ Declared(W, W[o].borrowSource)
                      /\ o \in W[W[o].borrowSource].borrowers
    BY DEF Registered
  <2>1. /\ V[o].borrowSource \in Names /\ Declared(V, V[o].borrowSource)
        /\ o \in V[V[o].borrowSource].borrowers
        /\ W[o] = V[o] /\ o # n
    BY <1>2 DEF Good, Registered
  <2>2. CASE V[o].borrowSource = n
    BY <2>1, <2>2
  <2>3. CASE V[o].borrowSource = s
    BY <2>1, <2>3
  <2>4. CASE V[o].borrowSource \notin {s, n}
    BY <2>1, <2>4 DEF Declared
  <2> QED
    BY <2>2, <2>3, <2>4
<1>4. MovedNotLent(W)
  <2> SUFFICES ASSUME NEW o \in Names, Declared(W, o), W[o].ownership = "Moved"
               PROVE  W[o].borrowers = {}
    BY DEF MovedNotLent
  <2>1. CASE o = s
    BY <2>1 DEF Good, MovedNotLent
  <2>2. CASE o # s
    BY <2>2 DEF Good, MovedNotLent, Declared
  <2> QED
    BY <2>1, <2>2
<1>5. Valued(W)
  <2>1. V[s].value \in Values
    BY DEF Good, Valued
  <2>2. \A o \in Names \ {s, n} : Borrows(W, o) <=> Borrows(V, o)
    BY DEF Borrows
  <2> QED
    BY <2>1, <2>2 DEF Good, Valued, Declared
<1>6. Acyclic(W)
  BY <1>2 DEF Good, Acyclic
<1> QED
  BY <1>3, <1>4, <1>5, <1>6 DEF Good

-----------------------------------------------------------------------------
(* One scope *)

OneScope == Stack /\ Len(scopes) = 1

BodyInv == OneScope /\ Good(scopes[1])

LEMMA OneScopeVars ==
  ASSUME OneScope PROVE DOMAIN scopes = {1} /\ scopes[1] \in Vars
BY StackScopes DEF OneScope, Vars

\* With one scope the lookup is an application of V.
LEMMA Lookup ==
  ASSUME OneScope, NEW n \in Names
  PROVE  /\ hasVariable(n) <=> Declared(scopes[1], n)
         /\ isBorrowing(n) <=> Borrows(scopes[1], n)
         /\ hasVariable(n) => /\ ScopeOf(n) = 1
                              /\ findVariable(n) = scopes[1][n]
                              /\ scopes[1][n] \in Variable
<1>1. hasVariable(n) <=> Declared(scopes[1], n)
  BY OneScopeVars DEF hasVariable, ScopesOf, Declared
<1>2. hasVariable(n) => /\ ScopeOf(n) = 1
                        /\ findVariable(n) = scopes[1][n]
                        /\ scopes[1][n] \in Variable
  BY Found, OneScopeVars DEF OneScope
<1> QED
  BY <1>1, <1>2 DEF isBorrowing, Borrows, Declared

\* The names a chain runs through are closed under borrowSource.
LEMMA ChainIsClosed ==
  ASSUME BodyInv, NEW n \in Names
  PROVE  n \in Chain(n) /\ Chain(n) \subseteq Names /\ ClosedUnderSource(Chain(n))
<1>1. n \in Chain(n) /\ Chain(n) \subseteq Names
  BY DEF Chain
<1>2. ASSUME NEW k \in Chain(n), isBorrowing(k)
      PROVE  findVariable(k).borrowSource \in Chain(n)
  <2>1. findVariable(k).borrowSource \in Names
    BY <1>1, <1>2, Lookup DEF BodyInv, Good, Registered, Borrows, Declared, isBorrowing
  <2> QED
    BY <1>2, <2>1 DEF Chain, ClosedUnderSource
<1> QED
  BY <1>1, <1>2 DEF ClosedUnderSource

\* A chain that does not end where it begins enters its owner by a borrow.
LEMMA LastBorrow ==
  ASSUME BodyInv, NEW n \in Names, canonicalName(n) # NoName, canonicalName(n) # n
  PROVE  \E k \in Names : /\ Borrows(scopes[1], k)
                          /\ scopes[1][k].borrowSource = canonicalName(n)
<1> DEFINE m == canonicalName(n)
<1>1. m \in Chain(n) /\ m \in Names
  BY CanonicalOwns
<1> HIDE DEF m
<1> SUFFICES ASSUME \A k \in Names :
                      ~(Borrows(scopes[1], k) /\ scopes[1][k].borrowSource = m)
             PROVE  FALSE
  BY DEF m
<1>2. \A k \in Names : isBorrowing(k) => findVariable(k).borrowSource # m
  BY Lookup DEF BodyInv, isBorrowing
<1>3. n \in Chain(n) \ {m} /\ Chain(n) \ {m} \in SUBSET Names
  BY ChainIsClosed DEF m
<1>4. ClosedUnderSource(Chain(n) \ {m})
  BY <1>2, <1>3, ChainIsClosed DEF ClosedUnderSource
<1> QED
  BY <1>1, <1>3, <1>4 DEF Chain

\* Whoever may be read or borrowed from leads to storage that was not moved.
LEMMA CanonicalIsLive ==
  ASSUME BodyInv, NEW n \in Names, NEW operation \in {"read", "borrow from"},
         canonicalName(n) # NoName, ~ownershipError(n, operation)
  PROVE  findVariable(canonicalName(n)).ownership # "Moved"
<1>1. CASE canonicalName(n) = n
  BY <1>1, CanonicalOwns DEF ownershipError
<1>2. CASE canonicalName(n) # n
  <2>1. PICK k \in Names : /\ Borrows(scopes[1], k)
                           /\ scopes[1][k].borrowSource = canonicalName(n)
    BY <1>2, LastBorrow
  <2>2. k \in scopes[1][canonicalName(n)].borrowers
    BY <2>1 DEF BodyInv, Good, Registered
  <2>3. canonicalName(n) \in Names /\ hasVariable(canonicalName(n))
    BY CanonicalOwns
  <2> QED
    BY <2>2, <2>3, Lookup DEF BodyInv, Good, MovedNotLent
<1> QED
  BY <1>1, <1>2

\* The canonical owner, seen in V.
LEMMA CanonicalCell ==
  ASSUME BodyInv, NEW n \in Names, canonicalName(n) # NoName
  PROVE  LET m == canonicalName(n)
         IN  /\ m \in Names /\ hasVariable(m)
             /\ Declared(scopes[1], m) /\ ~Borrows(scopes[1], m)
             /\ ScopeOf(m) = 1 /\ findVariable(m) = scopes[1][m]
             /\ scopes[1][m] \in Variable
             /\ scopes[1][m].borrowSource = NoName
             /\ scopes[1][m].value \in Values
<1>1. /\ canonicalName(n) \in Names /\ hasVariable(canonicalName(n))
      /\ ~isBorrowing(canonicalName(n))
  BY CanonicalOwns
<1> QED
  BY <1>1, Lookup DEF BodyInv, Good, Valued, Borrows, Declared

-----------------------------------------------------------------------------
(* The steps of a body *)

LEMMA BodyOne ==
  ASSUME OneScope, NEW n \in Names, NEW r, OneCell(1, n, r)
  PROVE  /\ OneScope' /\ scopes'[1] \in Vars /\ r \in Variable
         /\ \A o \in Names : scopes'[1][o] = IF o = n THEN r ELSE scopes[1][o]
<1>1. OneScope'
  BY AfterOne DEF OneScope
<1>2. scopes'[1] \in Vars
  <2>1. scopes' \in Seq(Scope) /\ 1 \in 1..Len(scopes')
    BY <1>1 DEF OneScope, Stack
  <2>2. scopes'[1] \in Scope
    BY <2>1, ElementOfSeq
  <2> QED
    BY <2>2 DEF Vars, Scope
<1> QED
  BY <1>1, <1>2, AfterOne, OneScopeVars DEF OneScope, OneCell

\* V is updated at two names.
TwoVars(n, r, m, q) ==
  /\ OneScope' /\ scopes'[1] \in Vars
  /\ r \in Variable /\ q \in Variable /\ n # m
  /\ \A o \in Names : scopes'[1][o] = IF o = n THEN r
                                      ELSE IF o = m THEN q ELSE scopes[1][o]

LEMMA BodyTwo ==
  ASSUME OneScope, NEW n \in Names, NEW r, NEW m \in Names, NEW q,
         TwoCells(1, n, r, 1, m, q)
  PROVE  TwoVars(n, r, m, q)
<1>1. OneScope'
  BY AfterTwo DEF OneScope
<1>2. scopes'[1] \in Vars
  <2>1. scopes' \in Seq(Scope) /\ 1 \in 1..Len(scopes')
    BY <1>1 DEF OneScope, Stack
  <2>2. scopes'[1] \in Scope
    BY <2>1, ElementOfSeq
  <2> QED
    BY <2>2 DEF Vars, Scope
<1> QED
  BY <1>1, <1>2, AfterTwo, OneScopeVars DEF OneScope, TwoCells, TwoVars

LEMMA BodyAssign ==
  ASSUME BodyInv, NEW n \in Names, NEW v \in Values, hasVariable(n),
         scopes' = [scopes EXCEPT ![ScopeOf(n)][n].value = v,
                                  ![ScopeOf(n)][n].ownership = "Live"]
  PROVE  BodyInv'
<1> DEFINE r == Assigned(n, v)
<1>1. /\ ScopeOf(n) = 1 /\ findVariable(n) = scopes[1][n] /\ scopes[1][n] \in Variable
  BY Lookup DEF BodyInv
<1>2. OneCell(1, n, r)
  BY <1>1, AssignEffect DEF BodyInv, OneScope
<1>3. /\ r.borrowSource = scopes[1][n].borrowSource
      /\ r.borrowers = scopes[1][n].borrowers
      /\ r.value = v /\ r.ownership = "Live"
  BY <1>1 DEF Assigned, Variable
<1> HIDE DEF r
<1>4. /\ OneScope' /\ scopes'[1] \in Vars /\ r \in Variable
      /\ \A o \in Names : scopes'[1][o] = IF o = n THEN r ELSE scopes[1][o]
  BY <1>2, BodyOne DEF BodyInv
<1>5. r # Undeclared /\ scopes[1][n] # Undeclared
  BY <1>1, <1>4, UndeclaredAssumption
<1>6. Good(scopes'[1])
  <2> DEFINE V == scopes[1]
             W == scopes'[1]
  <2>1. V \in Vars /\ Good(V) /\ W \in Vars
    BY <1>4, OneScopeVars DEF BodyInv
  <2>2. \A o \in Names :
           /\ Declared(W, o) <=> Declared(V, o)
           /\ Declared(V, o) =>
                /\ W[o].borrowSource = V[o].borrowSource
                /\ W[o].borrowers = V[o].borrowers
                /\ ~Borrows(V, o) => W[o].value \in Values
                /\ W[o].ownership = "Moved" => V[o].borrowers = {}
    BY <1>3, <1>4, <1>5, <2>1 DEF Declared, Good, Valued, MovedNotLent
  <2> HIDE DEF V, W
  <2>3. Good(W)
    BY <2>1, <2>2, GoodValues
  <2> QED
    BY <2>3 DEF W
<1> QED
  BY <1>4, <1>6 DEF BodyInv

LEMMA BodyMove ==
  ASSUME BodyInv, NEW source \in Names, NEW destination \in Names,
         hasVariable(source), hasVariable(destination), source # destination,
         ~isBorrowing(source), findVariable(source).borrowers = {},
         Move(source, destination)
  PROVE  BodyInv'
<1> DEFINE V == scopes[1]
           W == scopes'[1]
           r == [findVariable(destination) EXCEPT
                   !.value = findVariable(source).value, !.ownership = "Live"]
           q == [findVariable(source) EXCEPT !.ownership = "Moved"]
<1>1. /\ ScopeOf(source) = 1 /\ findVariable(source) = V[source]
      /\ ScopeOf(destination) = 1 /\ findVariable(destination) = V[destination]
      /\ V[source] \in Variable /\ V[destination] \in Variable
      /\ Declared(V, source) /\ Declared(V, destination) /\ ~Borrows(V, source)
  BY Lookup DEF BodyInv
<1>2. TwoCells(1, destination, r, 1, source, q)
  BY <1>1, MoveEffect DEF BodyInv, OneScope
<1>3. /\ r.borrowSource = V[destination].borrowSource
      /\ r.borrowers = V[destination].borrowers
      /\ r.value = V[source].value /\ r.ownership = "Live"
      /\ q.borrowSource = V[source].borrowSource
      /\ q.borrowers = V[source].borrowers
      /\ q.value = V[source].value
  BY <1>1 DEF Variable
<1>4. V \in Vars /\ Good(V) /\ V[source].borrowers = {} /\ V[source].value \in Values
  BY <1>1, OneScopeVars DEF BodyInv, Good, Valued
<1> HIDE DEF r, q
<1>5. /\ OneScope' /\ W \in Vars /\ r \in Variable /\ q \in Variable
      /\ \A o \in Names : W[o] = IF o = destination THEN r
                                 ELSE IF o = source THEN q ELSE V[o]
  <2>1. TwoVars(destination, r, source, q)
    BY <1>2, BodyTwo DEF BodyInv
  <2> QED
    BY <2>1 DEF TwoVars
<1>6. r # Undeclared /\ q # Undeclared
  BY <1>5, UndeclaredAssumption
<1> HIDE DEF V, W
<1>7. \A o \in Names :
         /\ Declared(W, o) <=> Declared(V, o)
         /\ Declared(V, o) =>
              /\ W[o].borrowSource = V[o].borrowSource
              /\ W[o].borrowers = V[o].borrowers
              /\ ~Borrows(V, o) => W[o].value \in Values
              /\ W[o].ownership = "Moved" => V[o].borrowers = {}
  BY <1>1, <1>3, <1>4, <1>5, <1>6 DEF Declared, Good, Valued, MovedNotLent
<1>8. Good(W)
  BY <1>4, <1>5, <1>7, GoodValues
<1> QED
  BY <1>5, <1>8 DEF BodyInv, W

LEMMA BodyLend ==
  ASSUME BodyInv, NEW s \in Names, NEW borrower \in Names, NEW mutable \in BOOLEAN,
         hasVariable(s), hasVariable(borrower), s # borrower,
         ~isBorrowing(s), findVariable(s).ownership # "Moved",
         ~isBorrowing(borrower), Lend(s, borrower, mutable)
  PROVE  BodyInv'
<1> DEFINE V == scopes[1]
           W == scopes'[1]
           r == [findVariable(borrower) EXCEPT !.value = "none",
                   !.borrowSource = s, !.borrowMutable = mutable]
           q == [findVariable(s) EXCEPT !.borrowers = @ \cup {borrower}]
<1>1. /\ ScopeOf(s) = 1 /\ findVariable(s) = V[s] /\ V[s] \in Variable
      /\ Declared(V, s) /\ ~Borrows(V, s)
      /\ ScopeOf(borrower) = 1 /\ findVariable(borrower) = V[borrower]
      /\ V[borrower] \in Variable /\ Declared(V, borrower) /\ ~Borrows(V, borrower)
  BY Lookup DEF BodyInv
<1>2. V[s].borrowSource = NoName /\ V[s].ownership # "Moved"
  BY <1>1 DEF Borrows, Declared
<1>3. TwoCells(1, borrower, r, 1, s, q)
  BY <1>1, LendEffect DEF BodyInv, OneScope
<1>4. /\ r.borrowSource = s /\ r.borrowers = V[borrower].borrowers
      /\ r.ownership = V[borrower].ownership
      /\ q.borrowSource = NoName /\ q.value = V[s].value
      /\ q.ownership = V[s].ownership
      /\ q.borrowers = V[s].borrowers \cup {borrower}
  BY <1>1, <1>2 DEF Variable
<1>5. V \in Vars /\ Good(V)
  BY OneScopeVars DEF BodyInv
<1> HIDE DEF r, q
<1>6. /\ OneScope' /\ W \in Vars /\ r \in Variable /\ q \in Variable
      /\ \A o \in Names : W[o] = IF o = borrower THEN r
                                 ELSE IF o = s THEN q ELSE V[o]
  <2>1. OneScope
    BY DEF BodyInv
  <2>2. TwoVars(borrower, r, s, q)
    BY <1>3, <2>1, BodyTwo
  <2> QED
    BY <2>2 DEF TwoVars
<1>7. r # Undeclared /\ q # Undeclared
  BY <1>6, UndeclaredAssumption
<1> HIDE DEF V, W
<1>8. /\ W[borrower] = r /\ W[s] = q
      /\ \A o \in Names \ {s, borrower} : W[o] = V[o]
      /\ Declared(W, s) /\ Declared(W, borrower)
  BY <1>6, <1>7 DEF Declared
<1>9. Good(W)
  BY <1>1, <1>2, <1>4, <1>5, <1>6, <1>8, GoodLend
<1> QED
  BY <1>6, <1>9 DEF BodyInv, W

\* A variable borrows from whatever the name n leads to.
LEMMA BodyBorrow ==
  ASSUME BodyInv, NEW n \in Names, NEW borrower \in Names, NEW mutable \in BOOLEAN,
         canonicalName(n) # NoName, hasVariable(borrower),
         canonicalName(n) # borrower, ~isBorrowing(borrower),
         ~ownershipError(n, "borrow from"),
         Lend(canonicalName(n), borrower, mutable)
  PROVE  BodyInv'
<1>1. findVariable(canonicalName(n)).ownership # "Moved"
  BY CanonicalIsLive
<1>2. /\ canonicalName(n) \in Names /\ hasVariable(canonicalName(n))
      /\ ~isBorrowing(canonicalName(n))
  BY CanonicalOwns
<1> QED
  BY <1>1, <1>2, BodyLend

LEMMA BodyEnd ==
  ASSUME BodyInv, NEW n \in Names, endBorrow(n)
  PROVE  BodyInv'
<1> DEFINE V == scopes[1]
           W == scopes'[1]
           s == canonicalName(n)
           q == [findVariable(s) EXCEPT !.borrowers = @ \ {n}]
           r == [findVariable(n) EXCEPT !.borrowSource = NoName,
                   !.borrowMutable = FALSE,
                   !.value = findVariable(s).value,
                   !.ownership = "Live"]
<1>1. s # NoName /\ isBorrowing(n) /\ hasVariable(n)
  BY DEF endBorrow, isBorrowing
<1>2. /\ s \in Names /\ Declared(V, s) /\ ~Borrows(V, s)
      /\ ScopeOf(s) = 1 /\ findVariable(s) = V[s] /\ V[s] \in Variable
      /\ V[s].borrowSource = NoName
  BY <1>1, CanonicalCell
<1>3. /\ ScopeOf(n) = 1 /\ findVariable(n) = V[n] /\ V[n] \in Variable
      /\ Borrows(V, n) /\ s # n
  BY <1>1, <1>2, Lookup DEF BodyInv
<1>4. TwoCells(ScopeOf(s), s, q, ScopeOf(n), n, r)
  BY EndEffect DEF BodyInv, OneScope
<1> HIDE DEF s
<1>5. /\ r.borrowSource = NoName /\ r.borrowers = V[n].borrowers
      /\ r.ownership = "Live" /\ r.value = V[s].value
      /\ q.borrowSource = NoName /\ q.value = V[s].value
      /\ q.ownership = V[s].ownership /\ q.borrowers = V[s].borrowers \ {n}
  BY <1>2, <1>3 DEF Variable
<1>6. V \in Vars /\ Good(V)
  BY OneScopeVars DEF BodyInv
<1> HIDE DEF r, q
<1>7. /\ OneScope' /\ W \in Vars /\ r \in Variable /\ q \in Variable
      /\ \A o \in Names : W[o] = IF o = s THEN q ELSE IF o = n THEN r ELSE V[o]
  <2>1. OneScope /\ s \in Names /\ TwoCells(1, s, q, 1, n, r)
    BY <1>2, <1>3, <1>4 DEF BodyInv
  <2>2. TwoVars(s, q, n, r)
    BY <2>1, BodyTwo
  <2> QED
    BY <2>2 DEF TwoVars
<1>8. r # Undeclared /\ q # Undeclared
  BY <1>7, UndeclaredAssumption
<1> HIDE DEF V, W
<1>9. /\ W[n] = r /\ W[s] = q /\ \A o \in Names \ {s, n} : W[o] = V[o]
      /\ Declared(W, s) /\ Declared(W, n)
  BY <1>2, <1>3, <1>7, <1>8 DEF Declared
<1>10. Good(W)
  BY <1>2, <1>3, <1>5, <1>6, <1>7, <1>9, GoodEnd
<1> QED
  BY <1>7, <1>10 DEF BodyInv, W

\* Two owners that are lent to nobody are rewritten, as a swap does.
LEMMA BodySwap ==
  ASSUME BodyInv, NEW a \in Names, NEW b \in Names, NEW r, NEW q,
         Swappable(a), Swappable(b),
         TwoCells(ScopeOf(a), a, r, ScopeOf(b), b, q),
         r.value = findVariable(b).value, q.value = findVariable(a).value,
         r.ownership = "Live", r.borrowSource = NoName, r.borrowers = {},
         q.ownership = "Live", q.borrowSource = NoName, q.borrowers = {}
  PROVE  BodyInv'
<1> DEFINE V == scopes[1]
           W == scopes'[1]
<1>1. /\ ScopeOf(a) = 1 /\ findVariable(a) = V[a] /\ Declared(V, a)
      /\ ScopeOf(b) = 1 /\ findVariable(b) = V[b] /\ Declared(V, b)
      /\ ~Borrows(V, a) /\ ~Borrows(V, b)
  BY Lookup DEF BodyInv, Swappable
<1>2. /\ V[a].borrowers = {} /\ V[b].borrowers = {}
      /\ V[a].borrowSource = NoName /\ V[b].borrowSource = NoName
  BY <1>1 DEF Swappable, Borrows, Declared
<1>3. /\ V \in Vars /\ Good(V) /\ r.value = V[b].value /\ q.value = V[a].value
      /\ V[a].value \in Values /\ V[b].value \in Values
  BY <1>1, OneScopeVars DEF BodyInv, Good, Valued
<1>4. /\ OneScope' /\ W \in Vars /\ r \in Variable /\ q \in Variable
      /\ \A o \in Names : W[o] = IF o = a THEN r ELSE IF o = b THEN q ELSE V[o]
  <2>1. OneScope /\ TwoCells(1, a, r, 1, b, q)
    BY <1>1 DEF BodyInv
  <2>2. TwoVars(a, r, b, q)
    BY <2>1, BodyTwo
  <2> QED
    BY <2>2 DEF TwoVars
<1>5. r # Undeclared /\ q # Undeclared
  BY <1>4, UndeclaredAssumption
<1> HIDE DEF V, W
<1>6. \A o \in Names :
         /\ Declared(W, o) <=> Declared(V, o)
         /\ Declared(V, o) =>
              /\ W[o].borrowSource = V[o].borrowSource
              /\ W[o].borrowers = V[o].borrowers
              /\ ~Borrows(V, o) => W[o].value \in Values
              /\ W[o].ownership = "Moved" => V[o].borrowers = {}
  BY <1>1, <1>2, <1>3, <1>4, <1>5 DEF Declared, Good, Valued, MovedNotLent
<1>7. Good(W)
  BY <1>3, <1>4, <1>6, GoodValues
<1> QED
  BY <1>4, <1>7 DEF BodyInv, W

LEMMA BodySwapAll ==
  ASSUME BodyInv, NEW a \in Names, NEW b \in Names, varSwapAll(a, b)
  PROVE  BodyInv'
<1> DEFINE r == [findVariable(a) EXCEPT !.value = findVariable(b).value,
                                        !.type = findVariable(b).type]
           q == [findVariable(b) EXCEPT !.value = findVariable(a).value,
                                        !.type = findVariable(a).type]
<1>1. TwoCells(ScopeOf(a), a, r, ScopeOf(b), b, q)
  BY SwapAllEffect DEF BodyInv, OneScope
<1>2. Swappable(a) /\ Swappable(b)
  BY DEF varSwapAll
<1>3. findVariable(a) \in Variable /\ findVariable(b) \in Variable
  BY <1>2, Lookup DEF Swappable, BodyInv
<1>4. /\ findVariable(a).borrowSource = NoName /\ findVariable(a).borrowers = {}
      /\ findVariable(b).borrowSource = NoName /\ findVariable(b).borrowers = {}
      /\ findVariable(a).ownership = "Live" /\ findVariable(b).ownership = "Live"
  BY <1>2 DEF Swappable, isBorrowing
<1>5. /\ r.value = findVariable(b).value /\ q.value = findVariable(a).value
      /\ r.ownership = "Live" /\ r.borrowSource = NoName /\ r.borrowers = {}
      /\ q.ownership = "Live" /\ q.borrowSource = NoName /\ q.borrowers = {}
  BY <1>3, <1>4 DEF Variable
<1> HIDE DEF r, q
<1> QED
  BY <1>1, <1>2, <1>5, BodySwap

LEMMA BodySwapVal ==
  ASSUME BodyInv, NEW a \in Names, NEW b \in Names, varSwapVal(a, b)
  PROVE  BodyInv'
<1> DEFINE r == [findVariable(a) EXCEPT !.value = findVariable(b).value]
           q == [findVariable(b) EXCEPT !.value = findVariable(a).value]
<1>1. TwoCells(ScopeOf(a), a, r, ScopeOf(b), b, q)
  BY SwapValEffect DEF BodyInv, OneScope
<1>2. Swappable(a) /\ Swappable(b)
  BY DEF varSwapVal
<1>3. findVariable(a) \in Variable /\ findVariable(b) \in Variable
  BY <1>2, Lookup DEF Swappable, BodyInv
<1>4. /\ findVariable(a).borrowSource = NoName /\ findVariable(a).borrowers = {}
      /\ findVariable(b).borrowSource = NoName /\ findVariable(b).borrowers = {}
      /\ findVariable(a).ownership = "Live" /\ findVariable(b).ownership = "Live"
  BY <1>2 DEF Swappable, isBorrowing
<1>5. /\ r.value = findVariable(b).value /\ q.value = findVariable(a).value
      /\ r.ownership = "Live" /\ r.borrowSource = NoName /\ r.borrowers = {}
      /\ q.ownership = "Live" /\ q.borrowSource = NoName /\ q.borrowers = {}
  BY <1>3, <1>4 DEF Variable
<1> HIDE DEF r, q
<1> QED
  BY <1>1, <1>2, <1>5, BodySwap

\* A fresh record for a name that borrows nothing and is lent to nobody.
LEMMA BodyDeclare ==
  ASSUME BodyInv, NEW n \in Names, NEW t \in Types, NEW v \in Values,
         NEW c \in BOOLEAN, Free(n), scopes' = declare(n, t, v, c)
  PROVE  BodyInv'
<1> DEFINE V == scopes[1]
           W == scopes'[1]
           r == NewVariable(t, v, c)
<1>1. OneCell(1, n, r)
  BY DeclareEffect DEF BodyInv, OneScope
<1>2. ~Borrows(V, n) /\ (Declared(V, n) => V[n].borrowers = {})
  BY Lookup DEF BodyInv, Free, Borrows, Declared
<1>3. r.borrowSource = NoName /\ r.ownership = "Live" /\ r.value \in Values
  BY DEF NewVariable
<1>4. V \in Vars /\ Good(V)
  BY OneScopeVars DEF BodyInv
<1> HIDE DEF r
<1>5. /\ OneScope' /\ W \in Vars /\ r \in Variable
      /\ \A o \in Names : W[o] = IF o = n THEN r ELSE V[o]
  BY <1>1, BodyOne DEF BodyInv
<1> HIDE DEF V, W
<1>6. Good(W)
  BY <1>2, <1>3, <1>4, <1>5, GoodDeclare
<1> QED
  BY <1>5, <1>6 DEF BodyInv, W

LEMMA BodyShared ==
  ASSUME BodyInv, NEW n \in Names, NEW t \in Types, NEW m \in Names, Free(n),
         SharedDeclarationStatement(n, t, m)
  PROVE  BodyInv'
<1> DEFINE V == scopes[1]
           W == scopes'[1]
           s == canonicalName(m)
           r == [NewVariable(t, "none", FALSE) EXCEPT
                   !.borrowSource = s, !.borrowMutable = TRUE]
           q == [findVariable(s) EXCEPT !.borrowers = {n}]
<1>1. /\ s # NoName /\ ~ownershipError(m, "borrow from")
      /\ n \notin Chain(m) /\ findVariable(s).borrowers = {}
  BY DEF SharedDeclarationStatement, SharedDeclarable, SharedBorrows
<1>2. /\ s \in Names /\ Declared(V, s) /\ ~Borrows(V, s)
      /\ ScopeOf(s) = 1 /\ findVariable(s) = V[s] /\ V[s] \in Variable
      /\ V[s].borrowSource = NoName
  BY <1>1, CanonicalCell
<1>3. V[s].ownership # "Moved" /\ s # n /\ V[s].borrowers = {}
  <2>1. findVariable(s).ownership # "Moved"
    BY <1>1, CanonicalIsLive
  <2>2. s \in Chain(m)
    BY <1>1, CanonicalOwns
  <2> QED
    BY <1>1, <1>2, <2>1, <2>2
<1>4. TwoCells(1, n, r, 1, s, q)
  BY <1>2, SharedEffect DEF BodyInv, OneScope
<1>5. ~Borrows(V, n) /\ (Declared(V, n) => V[n].borrowers = {})
  BY Lookup DEF BodyInv, Free, Borrows, Declared
<1>6. V \in Vars /\ Good(V)
  BY OneScopeVars DEF BodyInv
<1> HIDE DEF s
<1>7. /\ r.borrowSource = s /\ r.ownership = "Live"
      /\ q.borrowSource = NoName /\ q.value = V[s].value
      /\ q.ownership = V[s].ownership /\ q.borrowers = V[s].borrowers \cup {n}
  BY <1>2, <1>3 DEF NewVariable, Variable
<1> HIDE DEF r, q
<1>8. /\ OneScope' /\ W \in Vars /\ r \in Variable /\ q \in Variable
      /\ \A o \in Names : W[o] = IF o = n THEN r ELSE IF o = s THEN q ELSE V[o]
  <2>1. OneScope /\ s \in Names
    BY <1>2 DEF BodyInv
  <2>2. TwoVars(n, r, s, q)
    BY <1>4, <2>1, BodyTwo
  <2> QED
    BY <2>2 DEF TwoVars
<1>9. r # Undeclared /\ q # Undeclared
  BY <1>8, UndeclaredAssumption
<1> HIDE DEF V, W
<1>10. /\ W[n] = r /\ W[s] = q /\ \A o \in Names \ {s, n} : W[o] = V[o]
       /\ Declared(W, s) /\ Declared(W, n)
  BY <1>2, <1>3, <1>8, <1>9 DEF Declared
<1>11. Good(W)
  BY <1>2, <1>3, <1>5, <1>6, <1>7, <1>8, <1>10, GoodLend
<1> QED
  BY <1>8, <1>11 DEF BodyInv, W

\* What may be moved is the name of an owner, lent to nobody.
LEMMA MovableIsOwner ==
  ASSUME BodyInv, NEW n \in Names, ~ownershipError(n, "move")
  PROVE  /\ hasVariable(n) /\ ~isBorrowing(n) /\ findVariable(n).borrowers = {}
         /\ canonicalName(n) # NoName => canonicalName(n) = n
<1>1. hasVariable(n) /\ ~isBorrowing(n)
  BY DEF ownershipError
<1>2. findVariable(n) \in Variable
  BY <1>1, Lookup DEF BodyInv
<1>3. findVariable(n).ownership = "Live"
  BY <1>1, <1>2 DEF ownershipError, Variable
<1>4. findVariable(n).borrowers = {}
  BY <1>1, <1>3 DEF ownershipError
<1>5. ClosedUnderSource({n})
  BY <1>1 DEF ClosedUnderSource
<1>6. \A m \in Chain(n) : m = n
  BY <1>5 DEF Chain
<1> QED
  BY <1>1, <1>4, <1>6, CanonicalOwns

LEMMA BodyUse == BodyInv /\ Use => BodyInv'
<1> SUFFICES ASSUME BodyInv, Use PROVE BodyInv'
  OBVIOUS
<1>1. ASSUME NEW n \in Names, NEW v \in Values, AssignOwner(n, v) PROVE BodyInv'
  BY <1>1, BodyAssign DEF AssignOwner
<1>2. ASSUME NEW n \in Names, NEW v \in Values, AssignThroughBorrow(n, v)
      PROVE  BodyInv'
  <2> DEFINE owner == canonicalName(n)
  <2>1. owner \in Names /\ hasVariable(owner)
    BY <1>2, CanonicalOwns DEF AssignThroughBorrow
  <2>2. scopes' = [scopes EXCEPT ![ScopeOf(owner)][owner].value = v,
                                 ![ScopeOf(owner)][owner].ownership = "Live"]
    BY <1>2 DEF AssignThroughBorrow
  <2> HIDE DEF owner
  <2> QED
    BY <2>1, <2>2, BodyAssign
<1>3. ASSUME NEW n \in Names, NEW m \in Names, varTransfer(n, m) PROVE BodyInv'
  <2>1. ~ownershipError(n, "move") /\ canonicalName(n) # NoName
        /\ hasVariable(m) /\ canonicalName(n) # m /\ Move(canonicalName(n), m)
    BY <1>3 DEF varTransfer
  <2> QED
    BY <2>1, MovableIsOwner, BodyMove
<1>4. ASSUME NEW n \in Names, NEW m \in Names, varTransferMutate(n, m) PROVE BodyInv'
  <2>1. ~ownershipError(n, "move") /\ canonicalName(n) # NoName
        /\ hasVariable(m) /\ canonicalName(n) # m /\ Move(canonicalName(n), m)
    BY <1>4 DEF varTransferMutate
  <2> QED
    BY <2>1, MovableIsOwner, BodyMove
<1>5. ASSUME NEW a \in Names, NEW b \in Names, varSwapAll(a, b) PROVE BodyInv'
  BY <1>5, BodySwapAll
<1>6. ASSUME NEW a \in Names, NEW b \in Names, varSwapVal(a, b) PROVE BodyInv'
  BY <1>6, BodySwapVal
<1>7. ASSUME NEW n \in Names, NEW m \in Names, varBorrow(n, m) PROVE BodyInv'
  BY <1>7, BodyBorrow DEF varBorrow
<1>8. ASSUME NEW n \in Names, NEW m \in Names, varBorrowMutate(n, m) PROVE BodyInv'
  BY <1>8, BodyBorrow DEF varBorrowMutate, MutablyBorrowable
<1>9. ASSUME NEW n \in Names, endBorrow(n) PROVE BodyInv'
  BY <1>9, BodyEnd
<1> QED
  BY <1>1, <1>2, <1>3, <1>4, <1>5, <1>6, <1>7, <1>8, <1>9 DEF Use

LEMMA BodyDeclareIn ==
  ASSUME BodyInv, DeclareIn({n \in Names : Free(n)}) PROVE BodyInv'
<1>1. ASSUME NEW n \in Names, Free(n), NEW t \in Types, NEW v \in Values,
             NEW c \in BOOLEAN, DeclarationStatement(n, t, v, c)
      PROVE  BodyInv'
  BY <1>1, BodyDeclare DEF DeclarationStatement
<1>2. ASSUME NEW n \in Names, Free(n), NEW t \in Types, NEW m \in Names,
             SharedDeclarationStatement(n, t, m)
      PROVE  BodyInv'
  BY <1>2, BodyShared
<1>3. ASSUME NEW n \in Names, Free(n), NEW t \in Types, NEW m \in Names,
             SharedDeclarationFails(n, t, m)
      PROVE  BodyInv'
  <2>1. canonicalName(m) # NoName
    BY <1>3 DEF SharedDeclarationFails, SharedDeclarable
  <2>2. findVariable(canonicalName(m)).value \in Values
    BY <2>1, CanonicalCell
  <2>3. scopes' = declare(n, t, findVariable(canonicalName(m)).value, FALSE)
    BY <1>3 DEF SharedDeclarationFails
  <2> QED
    BY <1>3, <2>2, <2>3, BodyDeclare
<1> QED
  BY <1>1, <1>2, <1>3 DEF DeclareIn

LEMMA BodyStep == BodyInv /\ [BodyNext]_scopes => BodyInv'
<1>1. BodyInv /\ UNCHANGED scopes => BodyInv'
  BY DEF BodyInv, OneScope, Stack
<1> QED
  BY <1>1, BodyUse, BodyDeclareIn DEF BodyNext

LEMMA BodyInit == Init => BodyInv
<1> SUFFICES ASSUME Init PROVE BodyInv
  OBVIOUS
<1>1. [n \in Names |-> Undeclared] \in Scope
  BY DEF Scope
<1>2. OneScope /\ \A n \in Names : scopes[1][n] = Undeclared
  BY <1>1 DEF Init, OneScope, Stack
<1>3. \A n \in Names : ~Declared(scopes[1], n) /\ ~Borrows(scopes[1], n)
  BY <1>2 DEF Declared, Borrows
<1>4. Good(scopes[1])
  BY <1>3 DEF Good, Registered, MovedNotLent, Valued, Acyclic
<1> QED
  BY <1>2, <1>4 DEF BodyInv

LEMMA BodyInvariant == BodySpec => []BodyInv
BY BodyInit, BodyStep, PTL DEF BodySpec

-----------------------------------------------------------------------------
(* The rules of docs/language.md, for every function body *)

\* In a body, a borrower is recorded by the variable it borrows from: nothing
\* borrow, borrowMutate, a shared declaration, endBorrow, a transfer or a swap
\* does leaves a borrower its source does not know.
THEOREM BorrowersRegistered == BodySpec => []BorrowersAreRegistered
<1>1. BodyInv => BorrowersAreRegistered
  <2> SUFFICES ASSUME BodyInv, NEW n \in Names, isBorrowing(n)
               PROVE  /\ hasVariable(findVariable(n).borrowSource)
                      /\ n \in findVariable(findVariable(n).borrowSource).borrowers
    BY DEF BorrowersAreRegistered
  <2>1. Borrows(scopes[1], n) /\ findVariable(n) = scopes[1][n]
    BY Lookup DEF BodyInv, isBorrowing
  <2>2. /\ scopes[1][n].borrowSource \in Names
        /\ Declared(scopes[1], scopes[1][n].borrowSource)
        /\ n \in scopes[1][scopes[1][n].borrowSource].borrowers
    BY <2>1 DEF BodyInv, Good, Registered
  <2> QED
    BY <2>1, <2>2, Lookup DEF BodyInv
<1> QED
  BY <1>1, BodyInvariant, PTL

\* In a body, a name the interpreter agrees to read leads to a value that is
\* still there: the check of VariableExpression::evaluate, which looks only at
\* the name it is given, is enough for the storage Environment::get reaches.
THEOREM ReadsLive == BodySpec => []ReadsAreLive
<1>1. BodyInv => ReadsAreLive
  <2> SUFFICES ASSUME BodyInv, NEW n \in Names, Readable(n)
               PROVE  /\ findVariable(canonicalName(n)).ownership = "Live"
                      /\ findVariable(canonicalName(n)).value # "none"
    BY DEF ReadsAreLive
  <2>1. canonicalName(n) # NoName /\ ~ownershipError(n, "read")
    BY DEF Readable
  <2>2. /\ findVariable(canonicalName(n)) \in Variable
        /\ findVariable(canonicalName(n)).value \in Values
    BY <2>1, CanonicalCell
  <2>3. findVariable(canonicalName(n)).ownership # "Moved"
    BY <2>1, CanonicalIsLive
  <2>4. "none" \notin Values
    BY NamesAssumption DEF ValueKinds
  <2> QED
    BY <2>2, <2>3, <2>4 DEF Variable
<1> QED
  BY <1>1, BodyInvariant, PTL

\* In a body, borrows never form a ring and never dangle: canonicalName finds
\* an owner for every declared name.
THEOREM ChainsEnd == BodySpec => []ChainsResolve
<1>1. BodyInv => ChainsResolve
  <2> SUFFICES ASSUME BodyInv, NEW n \in Names, hasVariable(n), canonicalName(n) = NoName
               PROVE  FALSE
    BY DEF ChainsResolve
  <2> DEFINE D == {m \in Names : hasVariable(m)}
             owners == {m \in Chain(n) : hasVariable(m) /\ ~isBorrowing(m)}
  <2>1. ClosedUnderSource(D)
    <3> SUFFICES ASSUME NEW m \in Names, hasVariable(m), isBorrowing(m)
                 PROVE  findVariable(m).borrowSource \in D
      BY DEF ClosedUnderSource
    <3>1. Borrows(scopes[1], m) /\ findVariable(m) = scopes[1][m]
      BY Lookup DEF BodyInv
    <3> QED
      BY <3>1, Lookup DEF BodyInv, Good, Registered
  <2>2. D \in SUBSET Names /\ n \in D
    OBVIOUS
  <2>3. \A m \in Chain(n) : m \in D
    <3> HIDE DEF D
    <3> QED
      BY <2>1, <2>2 DEF Chain
  <2>4. owners = {}
    <3>1. owners # {} => canonicalName(n) \in owners
      BY DEF canonicalName
    <3> QED
      BY <3>1, ChainIsClosed, NamesAssumption
  <2>5. \A m \in Chain(n) : isBorrowing(m)
    BY <2>3, <2>4
  <2>6. \A m \in Chain(n) :
          Borrows(scopes[1], m) /\ scopes[1][m].borrowSource \in Chain(n)
    <3> SUFFICES ASSUME NEW m \in Chain(n)
                 PROVE  Borrows(scopes[1], m) /\ scopes[1][m].borrowSource \in Chain(n)
      OBVIOUS
    <3>1. m \in Names /\ isBorrowing(m) /\ hasVariable(m)
      BY <2>3, <2>5
    <3>2. findVariable(m).borrowSource \in Chain(n)
      BY <3>1, ChainIsClosed DEF ClosedUnderSource
    <3> QED
      BY <3>1, <3>2, Lookup DEF BodyInv
  <2>7. n \in Chain(n) /\ Chain(n) \in SUBSET Names
    BY ChainIsClosed
  <2> QED
    BY <2>6, <2>7 DEF BodyInv, Good, Acyclic
<1> QED
  BY <1>1, BodyInvariant, PTL

-----------------------------------------------------------------------------
(* The loop of canonicalName.  It is a recursive function of the names it   *)
(* has seen: it exists because a program has finitely many names, and what  *)
(* it answers is shown for the least number of names it has not seen yet.   *)

LEMMA LeastNumber ==
  ASSUME NEW T, T \subseteq Nat, T # {}
  PROVE  \E x \in T : \A y \in T : x <= y
<1>1. PICK R : R = {ss \in Nat \X Nat : ss[1] < ss[2]}
  OBVIOUS
<1>2. IsWellFoundedOn(R, Nat)
  BY <1>1, NatLessThanWellFounded DEF OpToRel
<1>3. PICK x \in T : \A y \in T : <<y, x>> \notin R
  BY <1>2, WFMin
<1>4. ASSUME NEW y \in T PROVE x <= y
  <2>1. x \in Nat /\ y \in Nat
    BY <1>3
  <2>2. <<y, x>> \in R <=> y < x
    BY <1>1, <2>1
  <2> QED
    BY <1>3, <2>1, <2>2
<1> QED
  BY <1>3, <1>4

\* The loop of canonicalName, one borrowSource at a time, with its set of seen
\* names; it answers for any starting name.
LoopCanonicalName(n) ==
  LET step[seen \in SUBSET Names] ==
        [current \in Names |->
           IF ~hasVariable(current) THEN NoName
           ELSE IF ~isBorrowing(current) THEN current
           ELSE IF current \in seen THEN NoName
           ELSE step[seen \cup {current}][findVariable(current).borrowSource]]
  IN  step[{}][n]

\* One turn of the loop; the function f answers for the turns after it.
Turn(f, seen, current) ==
  IF ~hasVariable(current) THEN NoName
  ELSE IF ~isBorrowing(current) THEN current
  ELSE IF current \in seen THEN NoName
  ELSE f[seen \cup {current}][findVariable(current).borrowSource]

\* What the loop may have seen when at most k names are left.
Left(k) == {seen \in SUBSET Names : Cardinality(Names \ seen) <= k}

AreTurns(f, k) ==
  f = [seen \in Left(k) |-> [current \in Names |-> Turn(f, seen, current)]]

AreAllTurns(f) ==
  f = [seen \in SUBSET Names |-> [current \in Names |-> Turn(f, seen, current)]]

LEMMA NamesLeft ==
  ASSUME IsFiniteSet(Names), NEW seen \in SUBSET Names
  PROVE  /\ Cardinality(Names \ seen) \in Nat
         /\ Cardinality(Names \ seen) <= Cardinality(Names)
         /\ \A current \in Names \ seen :
              Cardinality(Names \ (seen \cup {current})) = Cardinality(Names \ seen) - 1
<1>1. /\ IsFiniteSet(Names \ seen) /\ Cardinality(Names \ seen) \in Nat
      /\ Cardinality(Names \ seen) <= Cardinality(Names)
  <2>1. Names \ seen \in SUBSET Names
    OBVIOUS
  <2>2. IsFiniteSet(Names \ seen) /\ Cardinality(Names \ seen) <= Cardinality(Names)
    BY <2>1, FS_Subset
  <2> QED
    BY <2>2, FS_CardinalityType
<1>2. ASSUME NEW current \in Names \ seen
      PROVE  Cardinality(Names \ (seen \cup {current})) = Cardinality(Names \ seen) - 1
  <2>1. PICK rest : rest = Names \ seen
    OBVIOUS
  <2>2. Names \ (seen \cup {current}) = rest \ {current} /\ current \in rest
    BY <2>1
  <2>3. Cardinality(rest \ {current}) = Cardinality(rest) - 1
    BY <1>1, <2>1, <2>2, FS_RemoveElement
  <2> QED
    BY <2>1, <2>2, <2>3
<1> QED
  BY <1>1, <1>2

LEMMA NoneLeft ==
  ASSUME IsFiniteSet(Names), NEW seen \in Left(0)
  PROVE  seen = Names
<1>1. seen \in SUBSET Names /\ Cardinality(Names \ seen) = 0
  BY NamesLeft DEF Left
<1>2. IsFiniteSet(Names \ seen)
  <2>1. Names \ seen \in SUBSET Names
    OBVIOUS
  <2> QED
    BY <2>1, FS_Subset
<1>3. Names \ seen = {}
  BY <1>1, <1>2, FS_EmptySet
<1> QED
  BY <1>1, <1>3

LEMMA OneMoreTurn ==
  ASSUME IsFiniteSet(Names), NEW k \in Nat, NEW g, AreTurns(g, k)
  PROVE  \E f : AreTurns(f, k + 1)
<1>1. PICK f : f = [seen \in Left(k + 1) |-> [current \in Names |-> Turn(g, seen, current)]]
  OBVIOUS
<1>2. ASSUME NEW seen \in Left(k) PROVE f[seen] = g[seen]
  <2>1. seen \in Left(k + 1)
    BY NamesLeft DEF Left
  <2>2. g[seen] = [current \in Names |-> Turn(g, seen, current)]
    BY DEF AreTurns
  <2> QED
    BY <1>1, <2>1, <2>2
<1>3. ASSUME NEW seen \in Left(k + 1), NEW current \in Names
      PROVE  Turn(g, seen, current) = Turn(f, seen, current)
  <2>1. CASE current \in seen
    BY <2>1 DEF Turn
  <2>2. CASE current \notin seen
    <3>1. seen \cup {current} \in Left(k)
      <4>1. seen \in SUBSET Names /\ Cardinality(Names \ seen) <= k + 1
        BY DEF Left
      <4>2. /\ Cardinality(Names \ seen) \in Nat
            /\ Cardinality(Names \ (seen \cup {current})) = Cardinality(Names \ seen) - 1
        BY <2>2, <4>1, NamesLeft
      <4> QED
        BY <4>1, <4>2 DEF Left
    <3> QED
      BY <1>2, <3>1 DEF Turn
  <2> QED
    BY <2>1, <2>2
<1>4. ASSUME NEW seen \in Left(k + 1)
      PROVE  [current \in Names |-> Turn(g, seen, current)]
               = [current \in Names |-> Turn(f, seen, current)]
  BY <1>3
<1>5. AreTurns(f, k + 1)
  BY <1>1, <1>4 DEF AreTurns
<1> QED
  BY <1>5

LEMMA TurnsExist ==
  ASSUME IsFiniteSet(Names), NEW k \in Nat
  PROVE  \E f : AreTurns(f, k)
<1> DEFINE T == {i \in Nat : ~\E f : AreTurns(f, i)}
<1> SUFFICES ASSUME T # {} PROVE FALSE
  OBVIOUS
<1>1. T \subseteq Nat
  OBVIOUS
<1>2. PICK i \in T : \A j \in T : i <= j
  BY <1>1, LeastNumber
<1>3. CASE i = 0
  <2>1. PICK f : f = [seen \in Left(0) |-> [current \in Names |-> Turn(<<>>, seen, current)]]
    OBVIOUS
  <2>2. ASSUME NEW seen \in Left(0), NEW current \in Names
        PROVE  Turn(<<>>, seen, current) = Turn(f, seen, current)
    BY NoneLeft DEF Turn
  <2>3. ASSUME NEW seen \in Left(0)
        PROVE  [current \in Names |-> Turn(<<>>, seen, current)]
                 = [current \in Names |-> Turn(f, seen, current)]
    BY <2>2
  <2>4. AreTurns(f, 0)
    BY <2>1, <2>3 DEF AreTurns
  <2> QED
    BY <1>2, <1>3, <2>4
<1>4. CASE i # 0
  <2>1. i - 1 \in Nat /\ i - 1 \notin T /\ (i - 1) + 1 = i
    BY <1>2, <1>4
  <2>2. PICK j : j = i - 1
    OBVIOUS
  <2>3. PICK g : AreTurns(g, j)
    BY <2>1, <2>2
  <2>4. \E f : AreTurns(f, j + 1)
    BY <2>1, <2>2, <2>3, OneMoreTurn
  <2> QED
    BY <1>2, <2>1, <2>2, <2>4
<1> QED
  BY <1>3, <1>4

\* The definition of the loop has the meaning it looks like it has.
LEMMA LoopTurns ==
  ASSUME IsFiniteSet(Names)
  PROVE  \E f : AreAllTurns(f) /\ \A n : LoopCanonicalName(n) = f[{}][n]
<1>1. PICK f : AreTurns(f, Cardinality(Names))
  BY FS_CardinalityType, TurnsExist
<1>2. Left(Cardinality(Names)) = SUBSET Names
  BY NamesLeft DEF Left
<1>3. AreAllTurns(f)
  BY <1>1, <1>2 DEF AreTurns, AreAllTurns
<1>4. PICK r : r = CHOOSE s : AreAllTurns(s)
  OBVIOUS
<1>5. AreAllTurns(r)
  BY <1>3, <1>4
<1>6. ASSUME NEW n PROVE LoopCanonicalName(n) = (CHOOSE s : AreAllTurns(s))[{}][n]
  BY DEF LoopCanonicalName, AreAllTurns, Turn
<1> QED
  BY <1>4, <1>5, <1>6

\* The loop has come to current from the names it has seen.
Visited(seen, current) ==
  \A m \in seen : isBorrowing(m) /\ findVariable(m).borrowSource \in seen \cup {current}

IsOwner(m) == hasVariable(m) /\ ~isBorrowing(m)

\* An owner it answers with ends the chain of current and is the only one in it.
EndsAt(current, r) ==
  /\ r \in Names /\ IsOwner(r)
  /\ \A S \in SUBSET Names : current \in S /\ ClosedUnderSource(S) => r \in S
  /\ \E S \in SUBSET Names :
       current \in S /\ ClosedUnderSource(S) /\ \A m \in S : IsOwner(m) => m = r

\* When it gives up, the chain has no owner.
EndsNowhere(seen, current) ==
  Visited(seen, current) =>
    \E S \in SUBSET Names :
      seen \cup {current} \subseteq S /\ ClosedUnderSource(S) /\ \A m \in S : ~IsOwner(m)

Answers(seen, current, r) ==
  (r # NoName => EndsAt(current, r)) /\ (r = NoName => EndsNowhere(seen, current))

LEMMA SourceIsName ==
  ASSUME Stack, NEW m \in Names, isBorrowing(m)
  PROVE  findVariable(m).borrowSource \in Names
<1>1. findVariable(m) \in Variable
  BY Found DEF isBorrowing
<1> QED
  BY <1>1 DEF isBorrowing, Variable

\* One turn answers, if the turns after it do.
LEMMA TurnAnswers ==
  ASSUME Stack, NEW f, NEW seen \in SUBSET Names, NEW current \in Names,
         isBorrowing(current) /\ current \notin seen =>
           \A next \in Names :
              Answers(seen \cup {current}, next, f[seen \cup {current}][next])
  PROVE  Answers(seen, current, Turn(f, seen, current))
<1> USE NamesAssumption
<1>1. CASE ~hasVariable(current)
  <2>1. Turn(f, seen, current) = NoName
    BY <1>1 DEF Turn
  <2>2. ASSUME Visited(seen, current)
        PROVE  /\ ClosedUnderSource(seen \cup {current})
               /\ \A m \in seen \cup {current} : ~IsOwner(m)
    BY <1>1, <2>2 DEF Visited, ClosedUnderSource, IsOwner, isBorrowing
  <2>3. EndsNowhere(seen, current)
    BY <2>2 DEF EndsNowhere
  <2> QED
    BY <2>1, <2>3 DEF Answers
<1>2. CASE hasVariable(current) /\ ~isBorrowing(current)
  <2>1. Turn(f, seen, current) = current
    BY <1>2 DEF Turn
  <2>2. ClosedUnderSource({current}) /\ IsOwner(current)
    BY <1>2 DEF ClosedUnderSource, IsOwner
  <2>3. EndsAt(current, current)
    BY <2>2 DEF EndsAt
  <2> QED
    BY <2>1, <2>3 DEF Answers
<1>3. CASE isBorrowing(current) /\ current \in seen
  <2>1. Turn(f, seen, current) = NoName
    BY <1>3 DEF Turn, isBorrowing
  <2>2. ASSUME Visited(seen, current)
        PROVE  ClosedUnderSource(seen) /\ \A m \in seen : ~IsOwner(m)
    BY <1>3, <2>2 DEF Visited, ClosedUnderSource, IsOwner
  <2>3. EndsNowhere(seen, current)
    BY <1>3, <2>2 DEF EndsNowhere
  <2> QED
    BY <2>1, <2>3 DEF Answers
<1>4. CASE isBorrowing(current) /\ current \notin seen
  <2>1. PICK next : next = findVariable(current).borrowSource
    OBVIOUS
  <2>2. PICK r : r = f[seen \cup {current}][next]
    OBVIOUS
  <2>3. Turn(f, seen, current) = r
    BY <1>4, <2>1, <2>2 DEF Turn, isBorrowing
  <2>4. next \in Names /\ Answers(seen \cup {current}, next, r)
    BY <1>4, <2>1, <2>2, SourceIsName
  <2>5. ASSUME r # NoName PROVE EndsAt(current, r)
    <3>1. EndsAt(next, r)
      BY <2>4, <2>5 DEF Answers
    <3>2. PICK S \in SUBSET Names :
            next \in S /\ ClosedUnderSource(S) /\ \A m \in S : IsOwner(m) => m = r
      BY <3>1 DEF EndsAt
    <3>3. /\ ClosedUnderSource(S \cup {current})
          /\ \A m \in S \cup {current} : IsOwner(m) => m = r
      BY <1>4, <2>1, <3>2 DEF ClosedUnderSource, IsOwner
    <3>4. ASSUME NEW U \in SUBSET Names, current \in U, ClosedUnderSource(U)
          PROVE  r \in U
      <4>1. next \in U
        BY <1>4, <2>1, <3>4 DEF ClosedUnderSource
      <4> QED
        BY <3>1, <3>4, <4>1 DEF EndsAt
    <3>5. S \cup {current} \in SUBSET Names /\ current \in S \cup {current}
      OBVIOUS
    <3> QED
      BY <3>1, <3>3, <3>4, <3>5 DEF EndsAt
  <2>6. ASSUME r = NoName PROVE EndsNowhere(seen, current)
    <3> SUFFICES ASSUME Visited(seen, current)
                 PROVE  \E S \in SUBSET Names :
                          /\ seen \cup {current} \subseteq S /\ ClosedUnderSource(S)
                          /\ \A m \in S : ~IsOwner(m)
      BY DEF EndsNowhere
    <3>1. Visited(seen \cup {current}, next)
      BY <1>4, <2>1 DEF Visited
    <3> QED
      BY <2>4, <2>6, <3>1 DEF Answers, EndsNowhere
  <2> QED
    BY <2>3, <2>5, <2>6 DEF Answers
<1> QED
  BY <1>1, <1>2, <1>3, <1>4

\* So every turn answers: otherwise one that has the fewest names left would not.
LEMMA LoopAnswers ==
  ASSUME IsFiniteSet(Names), Stack, NEW f, AreAllTurns(f)
  PROVE  \A seen \in SUBSET Names, current \in Names :
            Answers(seen, current, f[seen][current])
<1> DEFINE Bad(seen) == \E current \in Names : ~Answers(seen, current, f[seen][current])
           T == {Cardinality(Names \ seen) : seen \in {s \in SUBSET Names : Bad(s)}}
<1> SUFFICES ASSUME T # {} PROVE FALSE
  OBVIOUS
<1>1. T \subseteq Nat
  BY NamesLeft
<1>2. PICK i \in T : \A j \in T : i <= j
  BY <1>1, LeastNumber
<1>3. PICK seen \in SUBSET Names : Bad(seen) /\ i = Cardinality(Names \ seen)
  BY <1>2
<1>4. PICK current \in Names : ~Answers(seen, current, f[seen][current])
  BY <1>3
<1>5. f[seen][current] = Turn(f, seen, current)
  BY DEF AreAllTurns
<1>6. ASSUME current \notin seen, NEW next \in Names
      PROVE  Answers(seen \cup {current}, next, f[seen \cup {current}][next])
  <2>1. /\ Cardinality(Names \ seen) \in Nat
        /\ Cardinality(Names \ (seen \cup {current})) = Cardinality(Names \ seen) - 1
    BY <1>6, NamesLeft
  <2>2. Cardinality(Names \ (seen \cup {current})) \notin T
    <3> HIDE DEF T
    <3>1. ~(i <= Cardinality(Names \ (seen \cup {current})))
      BY <1>3, <2>1
    <3> QED
      BY <1>2, <3>1
  <2>3. seen \cup {current} \in SUBSET Names
    OBVIOUS
  <2>4. ~Bad(seen \cup {current})
    BY <2>2, <2>3
  <2> QED
    BY <2>4
<1>7. Answers(seen, current, Turn(f, seen, current))
  BY <1>6, TurnAnswers
<1> QED
  BY <1>4, <1>5, <1>7

\* The model's closed form of the owner at the end of a chain is what the loop of
\* the code computes, for any finite set of names, rings and dangling borrows
\* included (Environment::canonicalName).
LEMMA CanonicalNameIsTheLoop ==
  ASSUME TypeOK, IsFiniteSet(Names), NEW n \in Names
  PROVE  canonicalName(n) = LoopCanonicalName(n)
<1>1. Stack
  BY DEF TypeOK, Stack
<1>2. PICK f : AreAllTurns(f) /\ \A m : LoopCanonicalName(m) = f[{}][m]
  BY LoopTurns
<1>3. PICK r : r = f[{}][n]
  OBVIOUS
<1>4. Answers({}, n, r)
  BY <1>1, <1>2, <1>3, LoopAnswers
<1>5. PICK owners : owners = {m \in Chain(n) : hasVariable(m) /\ ~isBorrowing(m)}
  OBVIOUS
<1>6. canonicalName(n) = IF owners = {} THEN NoName ELSE CHOOSE m \in owners : TRUE
  BY <1>5 DEF canonicalName
<1>7. CASE r # NoName
  <2>1. EndsAt(n, r)
    BY <1>4, <1>7 DEF Answers
  <2>2. owners = {r}
    BY <1>5, <2>1 DEF EndsAt, Chain, IsOwner
  <2> QED
    BY <1>2, <1>3, <1>6, <2>2
<1>8. CASE r = NoName
  <2>1. EndsNowhere({}, n)
    BY <1>4, <1>8 DEF Answers
  <2>2. owners = {}
    BY <1>5, <2>1 DEF EndsNowhere, Visited, Chain, IsOwner
  <2> QED
    BY <1>2, <1>3, <1>6, <1>8, <2>2
<1> QED
  BY <1>7, <1>8

=============================================================================
