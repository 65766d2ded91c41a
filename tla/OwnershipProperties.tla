------------------------ MODULE OwnershipProperties ------------------------
(***************************************************************************)
(* What the variables of Ownership promise the programs that use them.     *)
(***************************************************************************)
EXTENDS Ownership

\* Every scope on the stack maps each name to a variable record or to nothing;
\* the global scope is never popped (Environment::popScope).
TypeOK ==
  /\ scopes \in Seq(Scope)
  /\ Len(scopes) \in 1..MaxDepth

\* A constant always owns its storage: it is never lent a name of another
\* variable, and nothing is ever moved out of it (declareConstant, transfer,
\* borrow, borrowMutate).
ConstantsOwnTheirStorage ==
  \A d \in DOMAIN scopes, n \in Names :
    scopes[d][n] # Undeclared /\ scopes[d][n].constant =>
      /\ scopes[d][n].borrowSource = NoName
      /\ scopes[d][n].ownership = "Live"

\* A name can be read: VariableExpression::evaluate raises no error for it.
Readable(n) == ~ownershipError(n, "read") /\ canonicalName(n) # NoName

\* Whatever chain of borrows a readable name goes through, the variable at its
\* end still owns its value: no statement order lets a program read storage
\* that was moved out of (VariableExpression::evaluate checks only the name it
\* is given, Environment::get follows the chain).
ReadsAreLive ==
  \A n \in Names :
    Readable(n) => /\ findVariable(canonicalName(n)).ownership = "Live"
                   /\ findVariable(canonicalName(n)).value # "none"

\* A borrower is known to the variable it borrows from, so that the variable
\* cannot be moved away under it (Environment::borrow, endBorrow).
BorrowersAreRegistered ==
  \A n \in Names :
    isBorrowing(n) =>
      /\ hasVariable(findVariable(n).borrowSource)
      /\ n \in findVariable(findVariable(n).borrowSource).borrowers

\* Every chain of borrows ends at a variable that owns storage: a borrow, a
\* chain of borrows and the end of any of them never form a ring
\* (Environment::canonicalName gives up on one).
ChainsResolve == \A n \in Names : hasVariable(n) => canonicalName(n) # NoName

-----------------------------------------------------------------------------
(* What docs/language.md says and the code does not do *)

\* A constant keeps its value for as long as it is declared ("variable is
\* constant and cannot be reassigned").
ConstantsKeepTheirValue ==
  [][\A d \in DOMAIN scopes \cap DOMAIN scopes', n \in Names :
       /\ scopes[d][n] # Undeclared
       /\ scopes'[d][n] # Undeclared
       /\ scopes[d][n].constant /\ scopes'[d][n].constant
       => \/ scopes'[d][n].value = scopes[d][n].value
          \/ \E t \in Types, v \in Values : DeclarationStatement(n, t, v, TRUE)
    ]_scopes

\* beingBorrowed reports "whether another variable is borrowing from it": some
\* variable on the stack, hidden or not, names it as its source.  (popScope drops
\* the borrowers of the scope, and their owners do not hear of it.)
BeingBorrowedIsTrue ==
  \A n \in Names :
    isBeingBorrowed(n) /\ ~isBorrowing(n) =>
      \E d \in DOMAIN scopes, m \in Names :
        scopes[d][m] # Undeclared /\ scopes[d][m].borrowSource = n

=============================================================================
