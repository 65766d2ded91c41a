----------------------------- MODULE Ownership -----------------------------
(***************************************************************************)
(* The variables of one Lynxer Environment (runtime.cpp) and the           *)
(* statements and builtins that move, lend, share and rewrite them.        *)
(*                                                                         *)
(* A scope maps names to Variable records.  A name is looked up from the   *)
(* innermost scope outwards; a borrow is recorded by NAME on both sides    *)
(* (borrowSource of the borrower, borrowers of the source), so what a      *)
(* borrow means depends on what the names resolve to when it is used.      *)
(* A statement the interpreter rejects changes nothing, except a `shared`  *)
(* declaration, which declares its name before it borrows.                 *)
(***************************************************************************)
EXTENDS Naturals, Sequences, FiniteSets

CONSTANTS
  Names,        \* variable names of the program
  Types,        \* declared types in use, a subset of TypeNames
  Values,       \* values in use, a subset of ValueKinds
  Parameters,   \* the parameter lists of the functions a program may call
  MaxDepth,     \* bound: scopes on the stack
  NoName,       \* the empty std::string of borrowSource and canonicalName
  Undeclared    \* a scope without the name

\* "small" is an integer a byte can hold, "wide" one it cannot, "text" a string
\* and "none" the value-less variant (std::monostate).
TypeNames == {"int", "byte", "str", "any"}
ValueKinds == {"small", "wide", "text"}

ASSUME NamesAssumption ==
  /\ NoName \notin Names
  /\ Types \subseteq TypeNames
  /\ Values \subseteq ValueKinds
  /\ Parameters \subseteq SUBSET Names
  /\ MaxDepth \in Nat \ {0}

Variable ==
  [type : Types, value : Values \cup {"none"}, constant : BOOLEAN,
   ownership : {"Live", "Moved"}, borrowSource : Names \cup {NoName},
   borrowMutable : BOOLEAN, borrowers : SUBSET Names]

ASSUME UndeclaredAssumption == Undeclared \notin Variable

VARIABLE scopes     \* Environment::scopes_, the innermost scope last

Scope == [Names -> Variable \cup {Undeclared}]

Init == scopes = <<[n \in Names |-> Undeclared]>>

-----------------------------------------------------------------------------
(* Types and values *)

\* Environment::convertForType accepts the value.  A fixed-width integer type
\* checks the range.
convertForType(t, v) ==
  \/ t = "any"
  \/ t = "int" /\ v \in {"small", "wide"}
  \/ t = "byte" /\ v = "small"
  \/ t = "str" /\ v = "text"

\* typeMatches (types.cpp): every numeric type answers for the whole family,
\* because the range checks come after that early return.
typeMatches(t, v) ==
  \/ t = "any"
  \/ t \in {"int", "byte"} /\ v \in {"small", "wide"}
  \/ t = "str" /\ v = "text"

\* The relaxed check of the *Mutate builtins.
mutateMatches(t, v) == t = "any" \/ typeMatches(t, v)

NewVariable(t, v, c) ==
  [type |-> t, value |-> v, constant |-> c, ownership |-> "Live",
   borrowSource |-> NoName, borrowMutable |-> FALSE, borrowers |-> {}]

-----------------------------------------------------------------------------
(* Lookup *)

ScopesOf(n) == {d \in DOMAIN scopes : scopes[d][n] # Undeclared}

hasVariable(n) == ScopesOf(n) # {}

\* The scope in which findVariable finds the name.
ScopeOf(n) == CHOOSE d \in ScopesOf(n) : \A e \in ScopesOf(n) : e <= d

findVariable(n) == scopes[ScopeOf(n)][n]

isBorrowing(n) == hasVariable(n) /\ findVariable(n).borrowSource # NoName

\* Names a chain of borrowSource fields leads to, starting with n itself: the
\* members of every set that contains n and is closed under borrowSource.
ClosedUnderSource(S) ==
  \A m \in S : isBorrowing(m) => findVariable(m).borrowSource \in S
Chain(n) ==
  {m \in Names : \A S \in SUBSET Names :
                   n \in S /\ ClosedUnderSource(S) => m \in S}

\* The owner of the storage at the end of the chain; NoName when the chain
\* runs into an undeclared name or into itself.
canonicalName(n) ==
  LET owners == {m \in Chain(n) : hasVariable(m) /\ ~isBorrowing(m)}
  IN  IF owners = {} THEN NoName ELSE CHOOSE m \in owners : TRUE

isBeingBorrowed(n) ==
  /\ canonicalName(n) # NoName
  /\ findVariable(canonicalName(n)).borrowers # {}

\* Faulty variant of ownershipError: only a read-only borrower blocks a move.
ownershipErrorMovesLent(n, operation) ==
  \/ ~hasVariable(n)
  \/ isBorrowing(n) /\ ~findVariable(n).borrowMutable /\ operation = "write to"
  \/ isBorrowing(n) /\ operation = "move"
  \/ /\ hasVariable(n) /\ ~isBorrowing(n)
     /\ \/ findVariable(n).ownership = "Moved" /\ operation # "write to"
        \/ /\ operation \in {"move", "write to"}
           /\ \E b \in findVariable(n).borrowers :
                ~hasVariable(b) \/ ~findVariable(b).borrowMutable

\* Environment::ownershipError returns a message.
ownershipError(n, operation) ==
  \/ ~hasVariable(n)
  \/ /\ isBorrowing(n)
     /\ \/ operation = "move"
        \/ operation = "write to" /\ ~findVariable(n).borrowMutable
  \/ /\ hasVariable(n) /\ ~isBorrowing(n)
     /\ findVariable(n).ownership = "Moved"
     /\ operation # "write to"
  \/ /\ hasVariable(n) /\ ~isBorrowing(n)
     /\ findVariable(n).ownership = "Live"
     /\ findVariable(n).borrowers # {}
     /\ \/ operation = "move"
        \/ /\ operation = "write to"
           /\ \E b \in findVariable(n).borrowers :
                ~hasVariable(b) \/ ~findVariable(b).borrowMutable

-----------------------------------------------------------------------------
(* Statements *)

\* Both kinds of declaration write a fresh record into the innermost scope.
declare(n, t, v, c) ==
  [scopes EXCEPT ![Len(scopes)][n] = NewVariable(t, v, c)]

\* DeclarationStatement::execute.
DeclarationStatement(n, t, v, c) ==
  /\ hasVariable(n) => ~ownershipError(n, "write to")
  /\ convertForType(t, v)
  /\ scopes' = declare(n, t, v, c)

\* A plain assignment to a variable that owns its storage reinitialises it.
AssignOwner(n, v) ==
  /\ hasVariable(n) /\ ~isBorrowing(n)
  /\ ~findVariable(n).constant
  /\ ~ownershipError(n, "write to")
  /\ convertForType(findVariable(n).type, v)
  /\ scopes' = [scopes EXCEPT ![ScopeOf(n)][n].value = v,
                              ![ScopeOf(n)][n].ownership = "Live"]

\* An assignment through a mutable borrow goes to the canonical owner.
AssignThroughBorrow(n, v) ==
  LET owner == canonicalName(n)
  IN  /\ isBorrowing(n)
      /\ findVariable(n).borrowMutable
      /\ owner # NoName
      /\ convertForType(findVariable(owner).type, v)
      /\ scopes' = [scopes EXCEPT ![ScopeOf(owner)][owner].value = v,
                                  ![ScopeOf(owner)][owner].ownership = "Live"]


\* SharedDeclarationStatement::execute, up to the point where its new variable
\* is in the innermost scope: the source is readable and its value fits.
SharedDeclarable(t, source) ==
  /\ ~ownershipError(source, "borrow from")
  /\ canonicalName(source) # NoName
  /\ convertForType(t, findVariable(canonicalName(source)).value)

\* borrowMutate then looks the source up again, past the new variable: it
\* succeeds when the new name is not on the source's chain and the owner is
\* not borrowed yet.
SharedBorrows(n, source) ==
  /\ n \notin Chain(source)
  /\ findVariable(canonicalName(source)).borrowers = {}

SharedDeclarationStatement(n, t, source) ==
  LET owner == canonicalName(source)
  IN  /\ SharedDeclarable(t, source)
      /\ SharedBorrows(n, source)
      /\ scopes' = [declare(n, t, "none", FALSE) EXCEPT
           ![Len(scopes)][n].borrowSource = owner,
           ![Len(scopes)][n].borrowMutable = TRUE,
           ![ScopeOf(owner)][owner].borrowers = {n}]

\* The borrow is rejected and the statement fails, but its declaration stays.
SharedDeclarationFails(n, t, source) ==
  /\ SharedDeclarable(t, source)
  /\ ~SharedBorrows(n, source)
  /\ scopes' =
       declare(n, t, findVariable(canonicalName(source)).value, FALSE)

-----------------------------------------------------------------------------
(* Ownership builtins *)

\* What a successful transfer writes: the destination owns a copy, the source
\* is marked moved and keeps its old value.
Move(source, destination) ==
  LET s == ScopeOf(source)
      d == ScopeOf(destination)
  IN  scopes' = [scopes EXCEPT
        ![d][destination].value = findVariable(source).value,
        ![d][destination].ownership = "Live",
        ![s][source].ownership = "Moved"]

varTransfer(n, destination) ==
  LET source == canonicalName(n)
  IN  /\ source # NoName
      /\ hasVariable(destination)
      /\ source # destination
      /\ ~isBorrowing(destination)
      /\ ~ownershipError(n, "move")
      /\ ~findVariable(source).constant
      /\ ~findVariable(destination).constant
      /\ typeMatches(findVariable(destination).type, findVariable(source).value)
      /\ Move(source, destination)

\* The relaxed form does not ask whether the destination is itself a borrower.
varTransferMutate(n, destination) ==
  LET source == canonicalName(n)
  IN  /\ source # NoName
      /\ hasVariable(destination)
      /\ source # destination
      /\ ~ownershipError(n, "move")
      /\ ~findVariable(source).constant
      /\ ~findVariable(destination).constant
      /\ mutateMatches(findVariable(destination).type, findVariable(source).value)
      /\ Move(source, destination)

\* swapReferenceError finds nothing to object to.
Swappable(n) ==
  /\ hasVariable(n)
  /\ ~isBorrowing(n)
  /\ ~findVariable(n).constant
  /\ findVariable(n).ownership = "Live"
  /\ findVariable(n).borrowers = {}

varSwapAll(a, b) ==
  /\ a # b
  /\ Swappable(a) /\ Swappable(b)
  /\ scopes' = [scopes EXCEPT
       ![ScopeOf(a)][a].value = findVariable(b).value,
       ![ScopeOf(b)][b].value = findVariable(a).value,
       ![ScopeOf(a)][a].type = findVariable(b).type,
       ![ScopeOf(b)][b].type = findVariable(a).type]

varSwapVal(a, b) ==
  /\ a # b
  /\ Swappable(a) /\ Swappable(b)
  /\ typeMatches(findVariable(a).type, findVariable(b).value)
  /\ typeMatches(findVariable(b).type, findVariable(a).value)
  /\ scopes' = [scopes EXCEPT
       ![ScopeOf(a)][a].value = findVariable(b).value,
       ![ScopeOf(b)][b].value = findVariable(a).value]

\* What a successful borrow writes: the borrower's own value is dropped and
\* the canonical owner records its name.
Lend(source, borrower, mutable) ==
  LET s == ScopeOf(source)
      d == ScopeOf(borrower)
  IN  scopes' = [scopes EXCEPT
        ![d][borrower].value = "none",
        ![d][borrower].borrowSource = source,
        ![d][borrower].borrowMutable = mutable,
        ![s][source].borrowers = @ \cup {borrower}]

\* Faulty variants of varBorrow: a constant may become a borrower; a variable
\* may borrow from itself.
varBorrowIntoConstant(n, borrower) ==
  LET source == canonicalName(n)
  IN  /\ source # NoName
      /\ hasVariable(borrower)
      /\ source # borrower
      /\ ~isBorrowing(borrower)
      /\ ~ownershipError(n, "borrow from")
      /\ Lend(source, borrower, FALSE)
varBorrowFromSelf(n, borrower) ==
  LET source == canonicalName(n)
  IN  /\ source # NoName
      /\ hasVariable(borrower)
      /\ ~isBorrowing(borrower)
      /\ ~ownershipError(n, "borrow from")
      /\ ~findVariable(borrower).constant
      /\ Lend(source, borrower, FALSE)

varBorrow(n, borrower) ==
  LET source == canonicalName(n)
  IN  /\ source # NoName
      /\ hasVariable(borrower)
      /\ source # borrower
      /\ ~isBorrowing(borrower)
      /\ ~ownershipError(n, "borrow from")
      /\ ~findVariable(borrower).constant
      /\ typeMatches(findVariable(borrower).type, findVariable(source).value)
      /\ Lend(source, borrower, FALSE)

\* The conditions under which borrowMutate succeeds.
MutablyBorrowable(n, borrower) ==
  LET source == canonicalName(n)
  IN  /\ source # NoName
      /\ hasVariable(borrower)
      /\ source # borrower
      /\ ~ownershipError(n, "borrow from")
      /\ findVariable(source).borrowers = {}
      /\ ~isBorrowing(borrower)
      /\ ~findVariable(borrower).constant
      /\ mutateMatches(findVariable(borrower).type, findVariable(source).value)

varBorrowMutate(n, borrower) ==
  /\ MutablyBorrowable(n, borrower)
  /\ Lend(canonicalName(n), borrower, TRUE)

\* Faulty variant of endBorrow: the owner forgets every borrower.
endBorrowForgetsAll(n) ==
  LET source == canonicalName(n)
  IN  /\ isBorrowing(n)
      /\ source # NoName
      /\ scopes' = [scopes EXCEPT
           ![ScopeOf(source)][source].borrowers = {},
           ![ScopeOf(n)][n].borrowSource = NoName,
           ![ScopeOf(n)][n].borrowMutable = FALSE,
           ![ScopeOf(n)][n].value = findVariable(source).value]

\* varEndBorrow and unshare: only the canonical owner forgets the borrower.
endBorrow(n) ==
  LET source == canonicalName(n)
  IN  /\ isBorrowing(n)
      /\ source # NoName
      /\ scopes' = [scopes EXCEPT
           ![ScopeOf(source)][source].borrowers = @ \ {n},
           ![ScopeOf(n)][n].borrowSource = NoName,
           ![ScopeOf(n)][n].borrowMutable = FALSE,
           ![ScopeOf(n)][n].value = findVariable(source).value,
           ![ScopeOf(n)][n].ownership = "Live"]

-----------------------------------------------------------------------------
(* Calls *)

\* invokeFunction: a scope of its own for the parameters, written without any
\* ownership check; the body sees every scope below it.
Call(arguments) ==
  /\ Len(scopes) < MaxDepth
  /\ \A p \in DOMAIN arguments :
       convertForType(arguments[p].type, arguments[p].value)
  /\ scopes' = Append(scopes,
       [n \in Names |->
          IF n \in DOMAIN arguments
          THEN NewVariable(arguments[n].type, arguments[n].value, FALSE)
          ELSE Undeclared])

\* The body returned or threw: popScope drops its variables and leaves the
\* borrowers recorded on the variables that stay.  (The body of a method that
\* throws keeps its scope: the caller goes on without this step.)
Return ==
  /\ Len(scopes) > 1
  /\ scopes' = SubSeq(scopes, 1, Len(scopes) - 1)

Arguments == UNION {[P -> [type : Types, value : Values]] : P \in Parameters}

-----------------------------------------------------------------------------

\* Everything a running function does to the variables that exist.
Use ==
  \/ \E n \in Names, v \in Values : AssignOwner(n, v)
  \/ \E n \in Names, v \in Values : AssignThroughBorrow(n, v)
  \/ \E n, m \in Names : varTransfer(n, m)
  \/ \E n, m \in Names : varTransferMutate(n, m)
  \/ \E n, m \in Names : varSwapAll(n, m)
  \/ \E n, m \in Names : varSwapVal(n, m)
  \/ \E n, m \in Names : varBorrow(n, m)
  \/ \E n, m \in Names : varBorrowMutate(n, m)
  \/ \E n \in Names : endBorrow(n)

\* A declaration of one of the names in N.
DeclareIn(N) ==
  \/ \E n \in N, t \in Types, v \in Values, c \in BOOLEAN :
       DeclarationStatement(n, t, v, c)
  \/ \E n \in N, t \in Types, m \in Names : SharedDeclarationStatement(n, t, m)
  \/ \E n \in N, t \in Types, m \in Names : SharedDeclarationFails(n, t, m)

Next ==
  \/ Use
  \/ DeclareIn(Names)
  \/ \E arguments \in Arguments : Call(arguments)
  \/ Return

Spec == Init /\ [][Next]_scopes

\* One function body that never redeclares a name which borrows or is
\* borrowed: the programs the borrowing rules of docs/language.md speak of.
Free(n) ==
  hasVariable(n) => ~isBorrowing(n) /\ findVariable(n).borrowers = {}
BodyNext == Use \/ DeclareIn({n \in Names : Free(n)})
BodySpec == Init /\ [][BodyNext]_scopes

\* Such bodies calling one another.
CallsSpec ==
  Init /\ [][\/ BodyNext
             \/ \E arguments \in Arguments : Call(arguments)
             \/ Return]_scopes

=============================================================================
