--------------------------- MODULE MCRegisterStmt ---------------------------
(* Instances of RegisterStmt for TLC: the expressions each run draws from. *)
EXTENDS RegisterStmt, TLC

Node(tag, args) == [tag |-> tag, args |-> args]

\* An empty expression, an atom, a call with an argument: enough to have an
\* entry or none, in the same scope or with a child scope.
MCExprs == {NoExpr, Node("ExprIdentifier", <<>>),
            Node("ExprFunctionCall", <<"ExprLiteral">>)}

\* One expression of each shape: none, an atom, one with a child scope, an
\* array (which is NULL outside a typed variable), operands in place.
MCAllExprs == {NoExpr, Node("ExprIdentifier", <<>>), Node("ExprFunctionCall", <<>>),
               Node("ExprArray", <<"ExprLiteral">>),
               Node("ExprBinaryOp", <<"ExprIdentifier", "ExprLiteral">>)}

\* Only what a run about control flow needs.
MCAtoms == {NoExpr, Node("ExprLiteral", <<>>)}

\* The names play the same part everywhere.
Permuted == Permutations(Name)
=============================================================================
