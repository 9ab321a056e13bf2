---------------------------- MODULE RegisterStmt ----------------------------
(***************************************************************************)
(* The walk that fills the symbol tables: register_body, register_stmt and *)
(* the handlers of src/register/stmt.c and src/register/expr.c.            *)
(*                                                                         *)
(* The handlers recurse over the AST.  Here the C stack is explicit: every *)
(* handler that has called REG_STMTS (or loops over parameters, methods,   *)
(* variants or arms) and not yet returned is a frame of `stack', the       *)
(* innermost at the top.  A handler with no nested statements is one       *)
(* action; the others are the action that runs up to the loop, one action  *)
(* per iteration, and the action that runs from the loop to the return.    *)
(* The source program is any program of the grammar: it is chosen          *)
(* statement by statement, in the order the parser lists them.             *)
(***************************************************************************)
EXTENDS Register

CONSTANTS
    Kinds,      \* the statement tags the source program uses
    PatternKinds, \* the forms of if-pattern it uses; see Patterns below
    Exprs,      \* the expressions it uses; see Expr below
    MaxStmt,    \* bound: statements in the program
    MaxIter     \* bound: parameters, methods, variants, functions or arms in one list

\* Bound: an expression is an atom, or one node over atoms: of two operands or
\* of one, and of at most one where the code takes a list.  "none" is the empty
\* expression.  Identifier entries carry no declared name, so which identifier
\* it is does not show in the tables.
Expr ==      [tag : AtomTags \cup {"none"}, args : {<<>>}]
        \cup [tag : {"ExprFunctionCall", "ExprArray", "ExprTuple", "ExprStructCall"},
              args : {<<>>} \cup {<<a>> : a \in AtomTags}]
        \cup [tag : {"ExprField", "ExprUnary", "ExprAddrOf", "ExprCast"},
              args : {<<a>> : a \in AtomTags}]
        \cup [tag : {"ExprBinaryOp", "ExprIdx"}, args : {<<a, b>> : a, b \in AtomTags}]
NoExpr == [tag |-> "none", args |-> <<>>]

ASSUME KindsAssumption == Kinds \subseteq StmtTags
ASSUME PatternAssumption == PatternKinds \subseteq {"Enum", "Var", "Let"}
ASSUME ExprsAssumption == Exprs \subseteq Expr /\ NoExpr \in Exprs
ASSUME BoundAssumption == MaxStmt \in Nat /\ MaxIter \in Nat

VARIABLES
    reg,     \* the registers: the record of module Register
    stack,   \* the handlers in progress, the innermost last
    src      \* auxiliary: the statements met so far, in order

vars == <<reg, stack, src>>

\* Bug for the mutation runs: the loop registers into the handler's Register.
FrameFlat(kind, scope, r, entry, dflt) ==
    [kind |-> kind, scope |-> r, reg |-> r, entry |-> entry,
     dflt |-> dflt, iter |-> 0]

(***************************************************************************)
(* A frame: kind says which loop the handler is in, scope is the Register  *)
(* the loop registers into, reg the handler's own Register, entry what the *)
(* handler inserts there when the loop is over, dflt the default value of  *)
(* a parameter (NoExpr when the parameters have none), and iter how many   *)
(* iterations are done when the loop is not REG_STMTS.                     *)
(***************************************************************************)
Frame(kind, scope, r, entry, dflt) ==
    [kind |-> kind, scope |-> scope, reg |-> r, entry |-> entry,
     dflt |-> dflt, iter |-> 0]

NoEntry == D("none", NoName, 0, <<>>, 0)

\* A body whose handler inserts nothing after it: functions, loops, match arms.
Body(s) == Frame("body", s, s, NoEntry, NoExpr)

\* The loops that are REG_STMTS: only in them may the next item be a statement.
StmtLoops == {"body", "then", "then-else", "module"}

Top == stack[Len(stack)]
Push(f) == Append(stack, f)
Pop == SubSeq(stack, 1, Len(stack) - 1)
SetTop(f) == [stack EXCEPT ![Len(stack)] = f]

In(kind) == stack # <<>> /\ Top.kind = kind
Room == Len(src) < MaxStmt

\* One more iteration of the loop the top frame is in.
More(kind) == In(kind) /\ Top.iter < MaxIter
Stepped == [Top EXCEPT !.iter = @ + 1]

\* A new statement of tag t in scope s is the one at position Pos.  bind is the
\* name an if-pattern declares, NoName for the other statements.
Pos == Len(src) + 1
Meet(t, s, bind) == src' = Append(src, [tag |-> t, scope |-> s, bind |-> bind])

\* register_stmt is called on a statement of tag t, in the scope Here.
Here == Top.scope
CanStart(t) == stack # <<>> /\ Top.kind \in StmtLoops /\ Room /\ t \in Kinds
Stmt(t) == CanStart(t) /\ Meet(t, Here, NoName)

-----------------------------------------------------------------------------
(* Expressions: register_expr.  The root is the last entry inserted, so    *)
(* the id the handler stores is ExprId of the register it returns.         *)

\* Bug for the mutation runs: the entry goes to the global scope.
AtomGlobal(R, s, t, p) == RegisterInsert(R, 1, D(t, NoName, p, <<>>, 0))

Atom(R, s, t, p) == RegisterInsert(R, s, D(t, NoName, p, <<>>, 0))

\* A node whose arguments go to a child scope: a call, a field, an array, an
\* enum call.
\* The array case is resolve_array, where the child is array_child.
CallIn(R, s, c, t, args, p) ==
    LET C == MakeChild(R, c)
        A == IF args = <<>> THEN C ELSE Atom(C, C.scopes, args[1], p)
    IN RegisterInsert(A, s, D(t, NoName, p, <<C.scopes>>, 0))

\* The nodes whose operands go to the same scope, left first.
Operators == {"ExprBinaryOp", "ExprIdx", "ExprUnary", "ExprAddrOf", "ExprCast", "ExprTuple",
              "ExprStructCall"}
Operator(R, s, x, p) ==
    LET A == IF x.args = <<>> THEN R ELSE Atom(R, s, x.args[1], p)
        B == IF Len(x.args) < 2 THEN A ELSE Atom(A, s, x.args[2], p)
    IN RegisterInsert(B, s, D(x.tag, NoName, p, <<>>, 0))

\* Expr_Array has no case in register_expr: outside a typed var it is NULL.
RegisterExpr(R, s, x, p) ==
    CASE x.tag \in AtomTags                           -> Atom(R, s, x.tag, p)
      [] x.tag \in {"ExprFunctionCall", "ExprField"}  -> CallIn(R, s, s, x.tag, x.args, p)
      [] x.tag \in Operators                          -> Operator(R, s, x, p)
      [] OTHER                                        -> R

IsNull(x) == x.tag \in {"none", "ExprArray"}
ExprId(R, x) == IF IsNull(x) THEN 0 ELSE LastId(R)

-----------------------------------------------------------------------------
(* Statements without nested statements.                                   *)

RegisterStruct(n) ==
    /\ Stmt("Struct")
    /\ reg' = RegisterInsert(reg, Here, D("Struct", n, Pos, <<>>, 0))
    /\ UNCHANGED stack

(***************************************************************************)
(* register_var.  ty is the declared type when it names one; fits says     *)
(* that a called function has the name of a variant of ty, or that the     *)
(* type is an array when the initialiser is.  resolve_enum_call and        *)
(* resolve_classcall rewrite the initialiser to an enum call when ty is an *)
(* enum visible from the scope, but register_expr then looks ty up in the  *)
(* global scope only and returns NULL when it is not there.  An array is   *)
(* for resolve_array under an array type, and NULL under any other.        *)
(***************************************************************************)
IsEnumType(ty) ==
    LET id == RegisterGet(reg, Here, ty)
    IN ty \in Name /\ id # 0 /\ reg.flat[id].tag = "Enum"

Rewritten(x, ty, fits) ==
    /\ IsEnumType(ty)
    /\ x.tag = "ExprIdentifier" \/ (x.tag = "ExprFunctionCall" /\ fits)
ArrayFits(ty, fits) == ty = NoName /\ fits

RegisterVar(n, x, ty, fits) ==
    /\ Stmt("Var")
    /\ LET C == IF x = NoExpr THEN reg ELSE MakeChild(reg, Here)
           c == C.scopes
           enum == Rewritten(x, ty, fits)
           null == \/ x.tag = "none"
                   \/ enum /\ RegisterByName(reg, ty) = 0
                   \/ x.tag = "ExprArray" /\ ~ArrayFits(ty, fits)
           I == CASE null -> C
                  [] x.tag = "ExprArray" /\ ~null ->
                       CallIn(C, Here, c, "ExprArray", x.args, Pos)
                  [] enum /\ ~null -> CallIn(C, c, c, "ExprEnumCall", x.args, Pos)
                  [] OTHER -> RegisterExpr(C, c, x, Pos)
       IN reg' = RegisterInsert(I, Here,
                     D("Var", n, Pos, IF x = NoExpr THEN <<>> ELSE <<c>>,
                       IF null THEN 0 ELSE LastId(I)))
    /\ UNCHANGED stack

\* register_let and register_const: the child is made even without a value.
Binding(t, n, x) ==
    /\ Stmt(t)
    /\ LET C == MakeChild(reg, Here)
           I == RegisterExpr(C, C.scopes, x, Pos)
       IN reg' = RegisterInsert(I, Here, D(t, n, Pos, <<C.scopes>>, ExprId(I, x)))
    /\ UNCHANGED stack

RegisterLet(n, x) == Binding("Let", n, x)
RegisterConst(n, x) == Binding("Const", n, x)

\* register_return and register_expr_stmt: the expression is in the same scope.
InPlace(t, x) ==
    /\ Stmt(t)
    /\ LET I == RegisterExpr(reg, Here, x, Pos)
       IN reg' = RegisterInsert(I, Here, D(t, NoName, Pos, <<>>, ExprId(I, x)))
    /\ UNCHANGED stack

RegisterReturn(x) == InPlace("Return", x)
RegisterExprStmt(x) == InPlace("ExprStmt", x)

\* register_atomic: the arguments are registered, their ids are not stored.
\* Bound: one argument at most.
RegisterAtomic(x) ==
    /\ Stmt("Atomic")
    /\ reg' = RegisterInsert(RegisterExpr(reg, Here, x, Pos), Here,
                             D("Atomic", NoName, Pos, <<>>, 0))
    /\ UNCHANGED stack

-----------------------------------------------------------------------------
(* if, elif, else.                                                         *)

\* `if Variant(n) = x', `if var n = x', `if let n = x'.  The parser puts the
\* name in inner_bind for the first form only; the other two fill bind_name,
\* which nothing reads.
Patterns == [kind : {"None"}, name : {NoName}]
       \cup [kind : PatternKinds, name : Name]
InnerBind(pat) == IF pat.kind = "Enum" THEN pat.name ELSE NoName
BindTag(pat) == IF pat.kind = "Let" THEN "Let" ELSE "Var"

\* The bindings of a pattern: the temporary, under a name tmp_.. that is no
\* member of Name, the inner name, the tag field, the variant, and their
\* comparison.
Bindings(R, s, pat, p) ==
    LET T == RegisterInsert(R, s, D(BindTag(pat), NoName, p, <<s>>, LastId(R)))
        V == RegisterInsert(T, s, D("Var", InnerBind(pat), p, <<s>>, LastId(T)))
        F == RegisterInsert(V, s, D("ExprField", NoName, p, <<>>, LastId(T)))
        G == Atom(F, s, "ExprIdentifier", p)
    IN RegisterInsert(G, s, D("ExprBinaryOp", NoName, p, <<>>, 0))

\* register_pattern_condition: only a call gets the bindings.  The id returned
\* is the comparison's, or else the condition's: the last one in either case.
RegisterPatternCondition(R, s, x, pat, p) ==
    LET C == RegisterExpr(R, s, x, p)
    IN IF pat.kind # "None" /\ x.tag = "ExprFunctionCall"
       THEN Bindings(C, s, pat, p) ELSE C

\* register_if and register_elif, from the entry to the loop over the body; s
\* is the handler's Register and below the frames under its own.  hasElse says
\* that else_body is not empty: the parser puts there one elif or one else.
\* An elif makes the else scope in any case, an if only when there is a body.
BeginIf(t, s, below, x, pat, hasElse) ==
    LET C == MakeChild(reg, s)
        T == MakeChild(C, s)
        hasChild == hasElse \/ t = "Elif"
        E == IF hasChild THEN MakeChild(T, s) ELSE T
        I == RegisterPatternCondition(E, C.scopes, x, pat, Pos)
        kids == IF hasChild THEN <<C.scopes, T.scopes, E.scopes>>
                ELSE <<C.scopes, T.scopes>>
        done == D(t, NoName, Pos, kids, ExprId(I, x))
        kind == IF hasElse THEN "then-else" ELSE "then"
    IN /\ Meet(t, s, pat.name)
       /\ reg' = I
       /\ stack' = Append(below, Frame(kind, T.scopes, s, done, NoExpr))

RegisterIf(x, pat, hasElse) ==
    CanStart("If") /\ BeginIf("If", Here, stack, x, pat, hasElse)

\* The loop over the body is over; what else_body holds goes to else_child.
ElseChild == Top.entry.kids[3]

AfterElse == SetTop([Top EXCEPT !.kind = "tail"])

RegisterElif(x, pat, hasElse) ==
    /\ In("then-else") /\ Room /\ "Elif" \in Kinds
    /\ BeginIf("Elif", ElseChild, AfterElse, x, pat, hasElse)

\* register_stmt has no case for Stmt_Elses: the clause and the statements in
\* it register nothing.  No bound applies: the clause was promised by the if.
SkipElse ==
    /\ In("then-else")
    /\ Meet("Else", ElseChild, NoName)
    /\ stack' = AfterElse
    /\ UNCHANGED reg

\* Bug for the mutation runs: the entry goes to the scope of the loop.
FinishInside ==
    /\ reg' = RegisterInsert(reg, Top.scope, Top.entry)
    /\ stack' = Pop
    /\ UNCHANGED src

\* The end of a handler that inserts its own entry last.
Finish ==
    /\ reg' = RegisterInsert(reg, Top.reg, Top.entry)
    /\ stack' = Pop
    /\ UNCHANGED src

EndIf == (In("then") \/ In("tail")) /\ Finish

-----------------------------------------------------------------------------
(* Loops and match.                                                        *)

\* register_while and register_for: the entry is inserted before the body and
\* becomes the owner of the body scope.  The loop variable of a for is not
\* registered.
BeginLoop(t, x) ==
    /\ Stmt(t)
    /\ LET C == MakeChild(reg, Here)
           B == MakeChild(C, Here)
           I == RegisterExpr(B, C.scopes, x, Pos)
           L == RegisterInsert(I, Here, D(t, NoName, Pos, <<C.scopes, B.scopes>>,
                                          ExprId(I, x)))
       IN /\ reg' = SetOwner(L, B.scopes, LastId(L))
          /\ stack' = Push(Body(B.scopes))

RegisterWhile(x) == BeginLoop("While", x)
RegisterFor(x) == BeginLoop("For", x)

\* register_match: the parser gives every arm the wildcard pattern and never a
\* default body, so no guard is registered and default_child stays empty.
RegisterMatch(x) ==
    /\ Stmt("Match")
    /\ LET C == MakeChild(reg, Here)
           E == MakeChild(C, Here)
           I == RegisterExpr(E, C.scopes, x, Pos)
       IN /\ reg' = I
          /\ stack' = Push(Frame("match", Here, Here,
                                 D("Match", NoName, Pos, <<C.scopes, E.scopes>>,
                                   ExprId(I, x)), NoExpr))

\* One iteration of the loop over the cases: arm_children[i] = make_child(reg).
BeginArm ==
    /\ More("match")
    /\ reg' = MakeChild(reg, Top.reg)
    /\ stack' = Append(SetTop([Stepped EXCEPT !.entry.kids =
                                                  Append(@, reg'.scopes)]),
                       Body(reg'.scopes))
    /\ UNCHANGED src

EndMatch == In("match") /\ Finish

\* The end of a body whose handler inserts nothing after it: a function, a
\* method, a loop, an arm, or register_body itself at the bottom of the stack.
EndBody == In("body") /\ stack' = Pop /\ UNCHANGED <<reg, src>>

-----------------------------------------------------------------------------
(* Functions, classes and traits.                                          *)

\* Bug for the mutation runs: the owner of the scope around the function.
BeginCallableAround(R, s, n, p) ==
    LET C == MakeChild(R, s)
        F == RegisterInsert(C, s, D("Function", n, p, <<C.scopes>>, 0))
    IN SetOwner(F, s, LastId(F))

\* make_child, the function's entry, and its id as the owner of the child.
BeginCallable(R, s, n, p) ==
    LET C == MakeChild(R, s)
        F == RegisterInsert(C, s, D("Function", n, p, <<C.scopes>>, 0))
    IN SetOwner(F, C.scopes, LastId(F))

\* dflt is the default value of a parameter.  Bound: one of them has one.
RegisterFunction(n, dflt) ==
    /\ Stmt("Function")
    /\ reg' = BeginCallable(reg, Here, n, Pos)
    /\ stack' = Push(Frame("params", reg'.scopes, Here,
                           D("none", NoName, Pos, <<>>, 0), dflt))

RegisterClass(n) ==
    /\ Stmt("Class")
    /\ reg' = RegisterInsert(reg, Here, D("Class", n, Pos, <<>>, 0))
    /\ stack' = Push(Frame("class", Here, Here, D("none", NoName, Pos, <<>>, 0),
                           NoExpr))

\* The methods of a trait come before the trait's own entry.
RegisterTrait(n) ==
    /\ Stmt("Trait")
    /\ stack' = Push(Frame("trait", Here, Here, D("Trait", n, Pos, <<>>, 0),
                           NoExpr))
    /\ UNCHANGED reg

\* Bug for the mutation runs: only the global scope is asked.
UniqueNameGlobal(n) == RegisterByName(reg, n) = 0

\* mangle_name_unique tries suffixes until register_get finds nothing.
UniqueName(n) == RegisterGet(reg, Top.reg, n) = 0

\* One iteration over the methods of a class.
RegisterMethod(n, dflt) ==
    /\ More("class")
    /\ UniqueName(n)
    /\ reg' = BeginCallable(reg, Top.reg, n, Top.entry.pos)
    /\ stack' = Append(SetTop(Stepped),
                       Frame("method", reg'.scopes, Top.reg, Top.entry, dflt))
    /\ UNCHANGED src

EndClass == In("class") /\ stack' = Pop /\ UNCHANGED <<reg, src>>

\* One iteration over the methods of a trait; the name is not mangled.
RegisterTraitMethod(n, dflt) ==
    /\ More("trait")
    /\ reg' = BeginCallable(reg, Top.reg, n, Top.entry.pos)
    /\ stack' = Append(SetTop(Stepped),
                       Frame("signature", reg'.scopes, Top.reg,
                             D("none", NoName, Top.entry.pos, <<>>, 0), dflt))
    /\ UNCHANGED src

EndTrait == In("trait") /\ Finish

\* One iteration over the parameters.  A function uses register_insert_child,
\* a method register_insert, after owner_id is set.  A trait method registers
\* the default values of all its parameters again after every parameter.
RegisterParam(n) ==
    LET d == D("Param", n, Top.entry.pos, <<>>, 0)
    IN /\ \/ More("params") /\ reg' = RegisterInsertChild(reg, Top.scope, d)
          \/ More("method") /\ reg' = RegisterInsert(reg, Top.scope, d)
          \/ /\ More("signature")
             /\ reg' = RegisterExpr(RegisterInsert(reg, Top.scope, d), Top.scope,
                                    Top.dflt, Top.entry.pos)
       /\ stack' = SetTop(Stepped)
       /\ UNCHANGED src

\* The parameters are over: a function or a method now registers the default
\* values, in the child scope, and goes on to the statements of its body.
EnterBody ==
    /\ In("params") \/ In("method") \/ In("signature")
    /\ Top.dflt # NoExpr => Top.iter > 0
    /\ \/ /\ Top.kind # "signature"
          /\ reg' = RegisterExpr(reg, Top.scope, Top.dflt, Top.entry.pos)
       \/ Top.kind = "signature" /\ UNCHANGED reg
    /\ stack' = SetTop(Body(Top.scope))
    /\ UNCHANGED src

-----------------------------------------------------------------------------
(* Enums, extern blocks and modules.                                       *)

RegisterEnum(n) ==
    /\ Stmt("Enum")
    /\ reg' = MakeChild(reg, Here)
    /\ stack' = Push(Frame("enum", reg'.scopes, Here,
                           D("Enum", n, Pos, <<reg'.scopes>>, 0), NoExpr))

\* One iteration over the variants: the fields go to a child of the enum's
\* child, the variant to the scope the enum is declared in.  Bound: f is the
\* only field, or NoName when there is none.
RegisterVariant(n, f) ==
    /\ More("enum")
    /\ LET C == MakeChild(reg, Top.scope)
           p == Top.entry.pos
           F == IF f = NoName THEN C
                ELSE RegisterInsert(C, C.scopes, D("Param", f, p, <<>>, 0))
       IN reg' = RegisterInsert(F, Top.reg,
                                D("EnumVariant", n, p, <<C.scopes>>, 0))
    /\ stack' = SetTop(Stepped)
    /\ UNCHANGED src

EndEnum == In("enum") /\ Finish

\* register_extern: n is the ABI name.
RegisterExtern(n) ==
    /\ Stmt("Extern")
    /\ reg' = MakeChild(reg, Here)
    /\ stack' = Push(Frame("extern", reg'.scopes, Here,
                           D("Extern", n, Pos, <<reg'.scopes>>, 0), NoExpr))

\* One iteration over the functions of the block: all of them, and all their
\* parameters, share the block's child.  Bound: one parameter at most.
RegisterExternFunc(n, f) ==
    /\ More("extern")
    /\ LET p == Top.entry.pos
           F == IF f = NoName THEN reg
                ELSE RegisterInsert(reg, Top.scope, D("Param", f, p, <<>>, 0))
       IN reg' = RegisterInsert(F, Top.scope, D("ExternFunc", n, p, <<>>, 0))
    /\ stack' = SetTop(Stepped)
    /\ UNCHANGED src

EndExtern == In("extern") /\ Finish

\* register_module: the entry does not keep the child.
RegisterModule(n) ==
    /\ Stmt("Module")
    /\ reg' = MakeChild(reg, Here)
    /\ stack' = Push(Frame("module", reg'.scopes, Here,
                           D("Module", n, Pos, <<>>, 0), NoExpr))

EndModule == In("module") /\ Finish

-----------------------------------------------------------------------------

\* main: register_new(NULL, &counter), then register_body on the program.
Init ==
    /\ reg = RegisterNew
    /\ stack = <<Body(1)>>
    /\ src = <<>>

\* The parser leaves no condition and no expression statement empty.
Conds == Exprs \ {NoExpr}

\* A default value needs a parameter to stand by.
Defaults == IF MaxIter = 0 THEN {NoExpr} ELSE Exprs

Leaf ==
    \/ \E n \in Name : RegisterStruct(n)
    \/ \E n \in Name, x \in Exprs, ty \in NameOpt, fits \in BOOLEAN :
           RegisterVar(n, x, ty, fits)
    \/ \E n \in Name, x \in Exprs : RegisterLet(n, x) \/ RegisterConst(n, x)
    \/ \E x \in Exprs : RegisterReturn(x) \/ RegisterAtomic(x)
    \/ \E x \in Conds : RegisterExprStmt(x)

Branch ==
    \/ \E x \in Conds, pat \in Patterns, hasElse \in BOOLEAN :
           RegisterIf(x, pat, hasElse) \/ RegisterElif(x, pat, hasElse)
    \/ SkipElse \/ EndIf
    \/ \E x \in Conds : RegisterWhile(x) \/ RegisterFor(x) \/ RegisterMatch(x)
    \/ BeginArm \/ EndMatch \/ EndBody

Callable ==
    \/ \E n \in Name, dflt \in Defaults :
           \/ RegisterFunction(n, dflt)
           \/ RegisterMethod(n, dflt)
           \/ RegisterTraitMethod(n, dflt)
    \/ \E n \in Name : RegisterClass(n) \/ RegisterTrait(n) \/ RegisterParam(n)
    \/ EndClass \/ EndTrait \/ EnterBody

Block ==
    \/ \E n \in Name : RegisterEnum(n) \/ RegisterExtern(n) \/ RegisterModule(n)
    \/ \E n \in Name, f \in NameOpt : RegisterVariant(n, f) \/ RegisterExternFunc(n, f)
    \/ EndEnum \/ EndExtern \/ EndModule

\* register_body has returned.
Returned == stack = <<>> /\ UNCHANGED vars

Next == Leaf \/ Branch \/ Callable \/ Block \/ Returned

Spec == Init /\ [][Next]_vars

-----------------------------------------------------------------------------
(* Properties.                                                             *)

FrameKinds == StmtLoops \cup {"tail", "match", "params", "class", "method",
                              "trait", "signature", "enum", "extern"}
FrameType == [kind : FrameKinds, scope : Nat, reg : Nat, entry : DescType,
              dflt : Exprs, iter : Nat]

Ids == IdsOf(reg)
Scopes == 1..reg.scopes

StackOK ==
    /\ stack \in Seq(FrameType)
    /\ \A k \in 1..Len(stack) : stack[k].scope \in Scopes /\ stack[k].reg \in Scopes

\* The registers and the handlers in progress are well formed.
TypeOK ==
    /\ RegisterOK(reg)
    /\ StackOK
    /\ src \in Seq([tag : StmtTags, scope : Nat, bind : NameOpt])

\* What the frames must satisfy for the actions to preserve WellFormed: a
\* handler that inserts on return has an entry to insert, and one that waits
\* for an else_body has made the else scope.
Inserting == {"then", "then-else", "tail", "match", "trait", "enum", "extern",
              "module"}
FramesOK ==
    \A k \in 1..Len(stack) :
        LET f == stack[k]
        IN /\ f.kind \in Inserting => f.entry.tag # "none"
           /\ f.kind = "then-else" => /\ Len(f.entry.kids) = 3
                                      /\ f.entry.kids[3] \in Scopes

\* The inductive invariant of the registers; WalkInv below is that of the walk.
IndInv == TypeOK /\ FramesOK /\ WellFormed(reg)

\* global_flat_insert writes inside the array: one doubling is enough, because
\* the ids come one after another (register.c:125-131).
FlatInBounds == BoundsOK(reg)

\* The name key of a scope leads to the first entry declared there under that
\* name, and is absent when there is none (register.c:106-111).
NameTableOK == NamesOK(reg)

\* An entry that names a function names the innermost one its scope is in,
\* through any nesting of loops, methods and declarations (register.c:83-91).
OwnerSound == OwnersOK(reg)

\* A scope gets its owner before anything is inserted in it: what was stamped
\* on an entry is what register_insert would stamp now.  The parameters of a
\* plain function are stored by register_insert_child, which stamps nothing.
OwnerCurrent == StampsOK(reg)

\* The statements of one scope are in the order of the source: lower_stmt, which
\* visits them by id, so emits the statements of a body in order.
SourceOrder ==
    \A i, j \in Ids :
        /\ i < j /\ reg.flat[i].scope = reg.flat[j].scope
        /\ {reg.flat[i].tag, reg.flat[j].tag} \subseteq StmtTags
        => reg.flat[i].pos <= reg.flat[j].pos

\* Every statement met has exactly one entry of its own, in the scope of the
\* body it stands in, once its handler has returned; an else clause has none.
Pending(p) == \E k \in DOMAIN stack :
                  stack[k].entry.tag # "none" /\ stack[k].entry.pos = p
EntriesOf(p) == {i \in Ids : /\ reg.flat[i].pos = p
                             /\ reg.flat[i].tag = src[p].tag
                             /\ reg.flat[i].scope = src[p].scope}
RegisteredOnce(p) == IF Pending(p) THEN EntriesOf(p) = {}
                     ELSE \E i \in Ids : EntriesOf(p) = {i}
StatementsRegistered ==
    \A p \in DOMAIN src : src[p].tag # "Else" => RegisteredOnce(p)

\* A method of a class keeps its mangled name: whatever is declared before or
\* after it, the name leads to the method from the scope of the class
\* (mangle_name_unique, helper.c:313-339, called at stmt.c:167).
MethodNamesOwn ==
    \A i \in Ids :
        LET e == reg.flat[i]
        IN e.tag = "Function" /\ src[e.pos].tag = "Class"
               => RegisterGet(reg, e.scope, e.name) = i

\* The ids that lowering looks up in one given scope are there: the condition
\* of an if or a loop and the subject of a match in the first child scope, the
\* expression of an expression statement in the scope of the statement.
LookedUpIn(e) == IF e.tag = "ExprStmt" THEN e.scope ELSE e.kids[1]
RefsResolve ==
    \A i \in Ids :
        LET e == reg.flat[i]
        IN /\ e.tag \in {"If", "Elif", "While", "For", "Match", "ExprStmt"}
           /\ e.expr # 0
           => RegisterFromScope(reg, LookedUpIn(e), e.expr) # 0

\* No entry is forgotten or altered, no scope is moved, and neither a name nor
\* an owner, once set, changes.
BindingsStable ==
    [][Follows(reg', reg)]_vars

\* What a name means in a scope changes only when a nearer scope declares it:
\* a later declaration never takes a name over in the same scope.
ResolutionStable ==
    [][\A s \in Scopes, n \in Name :
           LET old == RegisterGet(reg, s, n)
               new == RegisterGet(reg', s, n)
           IN old # 0 /\ new # old
                  => /\ new >= reg.next
                     /\ reg'.flat[new].scope > reg.flat[old].scope]_vars

-----------------------------------------------------------------------------
(* What the order of the statements rests on: where the handlers in        *)
(* progress may still insert, and where a name may still be declared.      *)

\* Frames that insert in their own Register when the loop is over, or, for a
\* class, between the iterations.
Holding == Inserting \cup {"class"}

\* The oldest scope a frame may still register a statement in.
First(f) == IF f.kind \in Holding THEN f.reg ELSE f.scope

\* The id an entry has lowering look up is that of an entry of the scope it
\* will be looked up in.
RefFound(R, e, s) ==
    e.tag \in {"If", "Elif", "While", "For", "Match", "ExprStmt"} /\ e.expr # 0
        => /\ e.expr \in IdsOf(R)
           /\ R.flat[e.expr].scope = IF e.tag = "ExprStmt" THEN s ELSE e.kids[1]

\* A handler in progress belongs to a statement met, and the entry it has yet to
\* insert is that statement's; the scopes it fills are younger than the scope it
\* inserts that entry in.
FramePlaced(f, R, q) ==
    /\ f.kind # "body" => f.entry.pos \in 1..Len(q)
    /\ IF f.kind \in Inserting
       THEN /\ f.entry.tag \notin {"Function", "Class", "ExprStmt"}
            /\ q[f.entry.pos].tag = f.entry.tag /\ q[f.entry.pos].scope = f.reg
       ELSE f.entry.tag = "none"
    /\ f.kind \in {"class", "method"} => q[f.entry.pos].tag = "Class"
    /\ f.kind \in {"then", "then-else", "module"} => f.scope > f.reg
    /\ f.kind = "then-else" => f.entry.kids[3] > f.reg
    /\ f.kind = "match" => f.entry.kids # <<>>
    /\ f.kind = "extern" => R.owner[f.scope] = 0
    /\ RefFound(R, f.entry, f.reg)

\* The scope s is younger than every scope a handler still inserts its entry in.
Above(s, st) == \A k \in 1..Len(st) : st[k].kind \in Holding => s > st[k].reg

\* What is registered above a frame goes to younger scopes than that frame's own
\* entry, and no two handlers hold an entry for the same statement.
Nested(st) ==
    \A j, k \in 1..Len(st) :
        j < k => /\ st[j].kind \in Holding => First(st[k]) > st[j].reg
                 /\ st[j].entry.tag # "none" /\ st[k].entry.tag # "none"
                        => st[j].entry.pos # st[k].entry.pos

\* No statement behind the one a handler still has to insert is in its scope.
HeldInOrder(R, st) ==
    \A k \in 1..Len(st) : st[k].kind \in Holding =>
        \A i \in IdsOf(R) :
            R.flat[i].tag \in StmtTags /\ R.flat[i].scope = st[k].reg
                => R.flat[i].pos <= st[k].entry.pos

\* Every entry comes from a statement met.
Placed(R, q) == \A i \in IdsOf(R) : R.flat[i].pos \in 1..Len(q)

\* A method of a class holds the key of its name in the scope of the class.
MethodsKeyed(R, q) ==
    \A i \in IdsOf(R) :
        LET e == R.flat[i]
        IN e.tag = "Function" /\ q[e.pos].tag = "Class"
               => e.name \in Name /\ R.names[e.scope][e.name] = i

\* Nothing but parameters is declared in the scope s.
ParamsOnly(R, s) ==
    \A i \in IdsOf(R) :
        R.flat[i].scope = s /\ R.flat[i].name \in Name => R.flat[i].tag = "Param"

\* A body declares nothing before the parameters of its function, and they
\* all have names.
ParamsFirst(R) ==
    \A i \in IdsOf(R) :
        LET e == R.flat[i]
        IN e.tag = "Param" /\ R.owner[e.scope] # 0
               => /\ e.name \in Name
                  /\ \A j \in 1..(i - 1) :
                         R.flat[j].scope = e.scope /\ R.flat[j].name \in Name
                             => R.flat[j].tag = "Param"

\* Only the innermost handler can be at the parameters of a function, and it
\* has declared nothing else in its scope.
Parametric == {"params", "method", "signature"}
ParamFrames(R, st) ==
    \A k \in 1..Len(st) :
        st[k].kind \in Parametric => k = Len(st) /\ ParamsOnly(R, st[k].scope)

WalkOK ==
    /\ Placed(reg, src)
    /\ \A k \in 1..Len(stack) : FramePlaced(stack[k], reg, src)
    /\ Nested(stack) /\ HeldInOrder(reg, stack)
    /\ \A i \in Ids : RefFound(reg, reg.flat[i], reg.flat[i].scope)
    /\ MethodsKeyed(reg, src) /\ ParamsFirst(reg) /\ ParamFrames(reg, stack)

\* The inductive invariant of the walk.
WalkInv == IndInv /\ WalkOK /\ SourceOrder /\ StatementsRegistered

-----------------------------------------------------------------------------
(* What the notes of the project say of the register, and the code does    *)
(* not do.                                                                 *)

\* register_get_function "Used for stuff like return stmts. Uses the child's id
\* and return the function's id back": a return in a function has its function.
ReturnHasFunction ==
    \A i \in Ids :
        reg.flat[i].tag = "Return" /\ reg.encl[reg.flat[i].scope] # 0
            => RegisterGetFunction(reg, i) # 0

\* Every statement is registered, the else clause too.
ElseRegistered ==
    \A p \in DOMAIN src : src[p].tag = "Else" => RegisteredOnce(p)

\* `if var i = example() then return i end': the name an if-pattern declares is
\* visible in the body of that if.
PatternVisible ==
    \A i \in Ids :
        LET e == reg.flat[i]
        IN e.tag \in {"If", "Elif"} /\ src[e.pos].bind # NoName
               => LET id == RegisterGet(reg, e.kids[2], src[e.pos].bind)
                  IN id # 0 /\ reg.flat[id].pos = e.pos
=============================================================================
