------------------------------- MODULE MCLower -------------------------------
(* Instances of Lower for TLC. *)
EXTENDS Lower, TLC

Node(tag, args) == [tag |-> tag, args |-> args]

\* The struct call is the node whose argument lowering registers again.
MCExprs == {NoExpr, Node("ExprFunctionCall", <<"ExprIdentifier">>),
            Node("ExprStructCall", <<"ExprIdentifier">>)}
=============================================================================
