------------------------------ MODULE MCGeneric ------------------------------
(* Instances of Generic for TLC: the tables register_body leaves for small *)
(* programs, declaration by declaration.                                   *)
EXTENDS Generic

\* A declaration and a statement.  An expression is a call or a literal; "none"
\* is a missing one.
Decl(tag, name, generic, types, ret, body) ==
    [tag |-> tag, name |-> name, generic |-> generic, types |-> types, ret |-> ret, body |-> body]
Stmt(tag, expr, types, bodies) == [tag |-> tag, expr |-> expr, types |-> types, bodies |-> bodies]
Call(tag, name, args) ==
    [tag |-> tag, call |-> [name |-> <<name>>, args |-> [i \in DOMAIN args |-> <<args[i]>>]]]
Literal == [tag |-> "ExprLiteral", call |-> NoCall]
None == [tag |-> "none", call |-> NoCall]

PutExpr(g, s, x) ==
    IF x.tag = "none" THEN g ELSE Insert(g, s, [Blank(x.tag) EXCEPT !.call = x.call, !.was = x.call])
ExprId(g, x) == IF x.tag = "none" THEN 0 ELSE Len(g.entries)

RECURSIVE Load(_, _, _), LoadBodies(_, _, _)
\* register_stmt on the statements of one scope.
Load(g, s, stmts) ==
    IF stmts = <<>> THEN g
    ELSE LET x == Head(stmts)
             inPlace == x.tag \in {"ExprStmt", "Return"}
             K == IF inPlace THEN g ELSE MakeChild(g)
             X == PutExpr(K, IF inPlace THEN s ELSE K.scopes, x.expr)
             B == LoadBodies(X, IF inPlace THEN <<>> ELSE <<K.scopes>>, x.bodies)
             e == [Blank(x.tag) EXCEPT !.types = x.types, !.kids = B.kids,
                                       !.expr = IF x.bodies = <<>> THEN ExprId(X, x.expr) ELSE 0]
             \* a while is registered before its body
             W == MakeChild(Insert(X, s, [e EXCEPT !.kids = <<K.scopes, K.scopes + 1>>]))
         IN  Load(IF x.tag = "While" THEN Load(W, W.scopes, x.bodies[1]) ELSE Insert(B.g, s, e),
                  s, Tail(stmts))
LoadBodies(g, kids, bodies) ==
    IF bodies = <<>> THEN [g |-> g, kids |-> kids]
    ELSE LET C == MakeChild(g)
         IN  LoadBodies(Load(C, C.scopes, Head(bodies)), Append(kids, C.scopes), Tail(bodies))

\* register_function, register_struct, register_enum, register_const.
Declare(g, d) ==
    LET e == [Blank(d.tag) EXCEPT !.name = d.name, !.generic = d.generic, !.types = d.types, !.ret = d.ret]
        C == MakeChild(g)
        child == [e EXCEPT !.kids = <<C.scopes>>]
        heap == C.heap \o d.body
        fields == [v \in DOMAIN d.body |-> Len(C.heap) + v]
        params(ts) == [i \in DOMAIN ts |-> [Blank("Param") EXCEPT !.types = <<ts[i]>>]]
        variants == [v \in DOMAIN d.body |->
                        Append(params(d.body[v]), [Blank("EnumVariant") EXCEPT !.fields = <<fields[v]>>])]
    IN  CASE d.tag = "Struct" -> Insert(g, Globals, e)
          [] d.tag = "Function" ->
               Load(InsertChildren(Insert(C, Globals, child), C.scopes, params(d.types)), C.scopes, d.body)
          [] d.tag = "Enum" ->
               Insert(InsertChildren([C EXCEPT !.heap = heap, !.declared = heap], C.scopes,
                                     FlattenSeq(variants)),
                      Globals, [child EXCEPT !.fields = fields])
          [] OTHER -> Load(g, Globals, d.body)

Empty == [entries |-> <<>>, scopes |-> Globals, names |-> <<>>, heap |-> <<>>, declared |-> <<>>,
          seen |-> <<>>, made |-> <<>>, wild |-> FALSE, lost |-> FALSE]
Program(ds) == FoldLeft(Declare, Empty, ds)

-----------------------------------------------------------------------------
T == Custom(<<"T">>, <<>>)
U == Custom(<<"U">>, <<>>)
IntType == Word(<<"int">>)
Void == NoType
BoxOf(w) == Custom(<<"Box">>, <<<<w>>>>)
OptOf(w) == Custom(<<"Opt">>, <<<<w>>>>)
Gen(names) == [i \in DOMAIN names |-> [name |-> <<names[i]>>, bound |-> <<>>]]
F(args) == Call("ExprFunctionCall", "f", args)

Box == Decl("Struct", <<"Box">>, Gen(<<"T">>), <<T, IntType>>, Void, <<>>)
Pair == Decl("Struct", <<"Pair">>, Gen(<<"T">>), <<BoxOf("T"), T>>, Void, <<>>)
Opt == Decl("Enum", <<"Opt">>, Gen(<<"T">>), <<>>, Void, <<<<>>, <<T, BoxOf("T")>>>>)
Id0 == Decl("Function", <<"g">>, Gen(<<"T">>), <<T>>, T, <<Stmt("Return", Literal, <<>>, <<>>)>>)
Const == Decl("Const", <<>>, <<>>, <<>>, Void, <<Stmt("Const", Literal, <<OptOf("int")>>, <<>>)>>)
Taken(name) == Decl("Function", name, <<>>, <<>>, IntType, <<>>)

Return(x) == Stmt("Return", x, <<>>, <<>>)
Expr(x) == Stmt("ExprStmt", x, <<>>, <<>>)
\* Only an elif is registered of what follows the body of an if.
If(cond, then, else) == Stmt("If", cond, <<>>, IF else = <<>> THEN <<then>> ELSE <<then, else>>)
Elif(cond, then) == Stmt("Elif", cond, <<>>, <<then, <<>>>>)
EnumVar(w) == Stmt("Var", Call("ExprEnumCall", "Opt", <<w>>), <<OptOf(w)>>, <<>>)
\* The bodies of the template, which may call itself.
TBodies == { <<Return(Literal)>>, <<Return(F(<<"T">>))>>, <<Return(None)>>,
             <<Return(F(<<"int">>))>>,
             <<If(Literal, <<Return(Literal)>>, <<>>), Return(Call("ExprFunctionCall", "g", <<"int">>))>>,
             <<Expr(F(<<"bool">>)), Stmt("Match", F(<<"T">>), <<>>, <<<<Return(Literal)>>>>)>>,
             <<If(Literal, <<>>, <<Elif(Literal, <<Expr(Call("ExprStructCall", "Pair", <<"T">>))>>)>>)>> }
Templates ==
    { Decl("Function", <<"f">>, Gen(<<"T">>), ps, r, b) :
          ps \in {<<>>, <<T>>, <<Custom(<<"Pair">>, <<<<"T">>>>), IntType>>},
          r \in {T, OptOf("T"), Void}, b \in TBodies }
    \cup { Decl("Function", <<"f">>, [Gen(<<"T", "U">>) EXCEPT ![1].bound = b], <<T, U, Ptr(<<"T">>)>>, r,
                <<Return(Literal)>>) : b \in {<<>>, <<"g">>}, r \in {T, U, BoxOf("U")} }
Branch == If(F(<<"int">>), <<Expr(F(<<"bool">>))>>,
             <<Elif(F(<<"bool">>), <<Return(Call("ExprStructCall", "Pair", <<"int">>))>>)>>)
MainStmts ==
    { Expr(F(<<"int">>)), Expr(F(<<"int32">>)), Return(F(<<"bool">>)), Expr(F(<<"bool", "int">>)),
      Stmt("Var", F(<<"int">>), <<IntType>>, <<>>), Stmt("Let", F(<<"bool">>), <<OptOf("int")>>, <<>>),
      EnumVar("bool"),
      Stmt("Var", Literal, <<BoxOf("int")>>, <<>>), Expr(Call("ExprStructCall", "Box", <<"int">>)),
      Branch,
      Stmt("Match", Call("ExprFunctionCall", "absent", <<"int">>), <<>>, << <<>>, <<Expr(F(<<"int">>))>> >>),
      Stmt("While", Literal, <<>>, <<<<Expr(F(<<"int">>))>>>>) }
Main(body) == Decl("Function", <<"main">>, <<>>, <<>>, IntType, body)
First == { Expr(F(<<"int">>)), Stmt("Var", Literal, <<BoxOf("int")>>, <<>>) }

\* A function that calls itself, or its sibling, at fixed types, with and without
\* a declaration that has the name of an instance.
Caller(name, body) == Decl("Function", <<name>>, Gen(<<"T">>), <<T>>, Void, body)
Loops(words) ==
    { Program(<<Caller("f", <<Expr(Call("ExprFunctionCall", callee, <<a>>))>>),
                Caller("g", <<Expr(F(<<"int">>))>>), Main(<<Expr(F(<<b>>))>>)>> \o taken) :
          callee \in {"f", "g"}, a \in words, b \in {"int", "bool"},
          taken \in {<<>>} \cup {<<Taken(<<"f", w>>)>> : w \in {"bool", "int", "T"}} }
LoopPrograms == Loops({"int"})

\* With and without a function that has the name of an instance; the callers
\* before the templates they use, and after them.
Programs ==
    { Program(<<Box, Pair, Opt, Id0, t, Main(<<a, b>>), Const>>) :
          t \in Templates, a \in First, b \in MainStmts }
    \cup { Program(<<Opt, Taken(<<"f", "int">>), Main(<<a, b>>), Taken(<<"Opt", "bool">>), Box, t, Pair,
                     Id0>>) :
               t \in {u \in Templates : u.ret = T}, b \in MainStmts \ First,
               a \in {Return(F(<<"bool">>)), Expr(F(<<"bool", "int">>)), EnumVar("bool"), Branch} }
    \cup Loops({"int", "T"})

\* The enum of two fields, used at two types.
EnumPrograms ==
    { Program(<<Box, Opt, Main(<<EnumVar(a), EnumVar(b)>>)>>) : a, b \in {"int", "bool", "char"} }
=============================================================================
