--------------------------- MODULE TemplateSyntax ----------------------------
(***************************************************************************)
(* The nodes and the expressions of the templates of the server module     *)
(* (rust/server/src/template.rs).                                          *)
(***************************************************************************)

\* An expression: an operator with the names and the operands it is given.
Expr(op, names, args) == [op |-> op, names |-> names, args |-> args]
Null == Expr("literal", <<"none">>, <<>>)

\* A node: its kind, the names, the expressions and the bodies it holds.  An
\* `if` with an else branch has one body more than conditions.
Node(node, names, exprs, bodies) ==
    [node |-> node, names |-> names, exprs |-> exprs, bodies |-> bodies]
=============================================================================
