----------------------------- MODULE WalkProofs -----------------------------
(***************************************************************************)
(* What ties the entries the walk registers to the source: statements of a *)
(* scope stand in its order, every statement has one entry of its own in   *)
(* its scope, the ids lowering looks up in a scope are there, a method of  *)
(* a class keeps its name, and a body declares nothing before the          *)
(* parameters of its function.  All of it rests on WalkInv, which says     *)
(* where the handlers in progress may still insert.                        *)
(***************************************************************************)
EXTENDS RegisterStmtProofs

\* The ids Q has and R has not.
New(Q, R) == IdsOf(Q) \ IdsOf(R)

\* The entries that can have a name.
Declaring == StmtTags \cup {"Param", "EnumVariant", "ExternFunc"}

\* An entry with a tag in T, or one of an expression.
Either(e, T) == e.tag \in T \/ (e.tag \notin Declaring /\ e.name = NoName)

\* A step within scope s that registers for the statement p only; what it
\* declares has tags in T.
Brings(Q, R, s, p, T) ==
    /\ Within(Q, R, s)
    /\ \A i \in New(Q, R) : Q.flat[i].pos = p /\ Either(Q.flat[i], T)

\* The last entry is in scope s.
Rooted(Q, s) == LastId(Q) \in IdsOf(Q) /\ Q.flat[LastId(Q)].scope = s

LEMMA BringsFacts ==
    ASSUME NEW R, WellFormed(R), NEW Q, NEW s, NEW p, NEW T, Brings(Q, R, s, p, T)
    PROVE  /\ Within(Q, R, s) /\ Grows(Q, R)
           /\ WellFormed(Q) /\ Q.scopes \in Nat \ {0} /\ Q.scopes >= R.scopes
           /\ Q.next \in Nat \ {0} /\ Q.next >= R.next
           /\ 1..R.scopes \subseteq 1..Q.scopes /\ IdsOf(R) \subseteq IdsOf(Q)
BY WithinSizes, WithinGrows DEF Brings

LEMMA BringsNothing ==
    ASSUME NEW R, WellFormed(R), NEW s, NEW p, NEW T PROVE Brings(R, R, s, p, T)
BY WithinSelf DEF Brings, New

LEMMA BringsTransitive ==
    ASSUME NEW R, WellFormed(R), NEW Q, NEW P, NEW s, NEW t \in Nat, NEW p, NEW T,
           Brings(Q, R, s, p, T), Brings(P, Q, t, p, T), t = s \/ t > R.scopes
    PROVE  Brings(P, R, s, p, T)
<1>1. Within(P, R, s)
  BY WithinTransitive DEF Brings
<1>2. ASSUME NEW i \in New(P, R)
      PROVE  P.flat[i].pos = p /\ Either(P.flat[i], T)
  <2>1. CASE i \in IdsOf(Q)
    <3>1. P.flat[i] = Q.flat[i]
      BY <2>1 DEF Brings, Within, Follows
    <3> QED
      BY <1>2, <2>1, <3>1 DEF Brings, New
  <2>2. CASE i \notin IdsOf(Q)
    BY <1>2, <2>2 DEF Brings, New
  <2> QED
    BY <2>1, <2>2
<1> QED
  BY <1>1, <1>2 DEF Brings

\* What is brought may be of more tags than said.
LEMMA BringsMore ==
    ASSUME NEW Q, NEW R, NEW s, NEW p, NEW T, NEW U, Brings(Q, R, s, p, T), T \subseteq U
    PROVE  Brings(Q, R, s, p, U)
BY DEF Brings, Either

-----------------------------------------------------------------------------
(* The operations of the registers.                                        *)

\* register_insert
LEMMA InsertBrings ==
    ASSUME NEW R, WellFormed(R), NEW s \in 1..R.scopes, NEW d \in Insertable, NEW T,
           Either(d, T)
    PROVE  LET Q == RegisterInsert(R, s, d) IN
           /\ Brings(Q, R, s, d.pos, T)
           /\ New(Q, R) = {R.next} /\ LastId(Q) = R.next /\ Rooted(Q, s)
           /\ Q.scopes = R.scopes /\ Q.flat[R.next] = Entry(d, s, OwnerFn(R, s))
<1> DEFINE Q == RegisterInsert(R, s, d)
<1>1. /\ Within(Q, R, s) /\ Q.next = R.next + 1 /\ Q.scopes = R.scopes
      /\ Q.flat[R.next] = Entry(d, s, OwnerFn(R, s)) /\ R.next \in Nat \ {0}
  BY InsertWithin, Sizes
<1> HIDE DEF Q
<1>2. New(Q, R) = {R.next} /\ LastId(Q) = R.next /\ R.next \in IdsOf(Q)
  BY <1>1 DEF New, IdsOf, LastId
<1>3. /\ Q.flat[R.next].pos = d.pos /\ Either(Q.flat[R.next], T)
      /\ Q.flat[R.next].scope = s
  BY <1>1 DEF Entry, Either
<1>4. Brings(Q, R, s, d.pos, T)
  BY <1>1, <1>2, <1>3 DEF Brings
<1>5. Rooted(Q, s)
  BY <1>2, <1>3 DEF Rooted
<1> QED
  BY <1>1, <1>2, <1>4, <1>5 DEF Q

\* An insert after a step for the same statement.
LEMMA InsertAfterBrings ==
    ASSUME NEW R, WellFormed(R), NEW s \in 1..R.scopes, NEW I, NEW T,
           NEW d \in Insertable, Brings(I, R, s, d.pos, T),
           Either(d, T)
    PROVE  Brings(RegisterInsert(I, s, d), R, s, d.pos, T)
<1>1. WellFormed(I) /\ s \in 1..I.scopes /\ s \in Nat
  BY BringsFacts, Sizes
<1> QED
  BY <1>1, InsertBrings, BringsTransitive

LEMMA InsertChildBrings ==
    ASSUME NEW R, WellFormed(R), NEW s \in 1..R.scopes, NEW d \in Insertable,
           d.tag = "Param"
    PROVE  LET Q == RegisterInsertChild(R, s, d) IN
           /\ Brings(Q, R, s, d.pos, {"Param"}) /\ New(Q, R) = {R.next}
           /\ Q.flat[R.next].name = d.name
<1> DEFINE Q == RegisterInsertChild(R, s, d)
<1>1. RegisterOK(R) /\ R.next \in Nat \ {0} /\ 0 \in 0..(R.next - 1)
  BY Sizes
<1>2. Q.next = R.next + 1 /\ Q.flat[R.next] = Entry(d, s, 0)
  BY <1>1, StoreFields DEF RegisterInsertChild
<1>3. Within(Q, R, s)
  BY InsertChildWithin
<1> HIDE DEF Q
<1>4. New(Q, R) = {R.next}
  BY <1>1, <1>2 DEF New, IdsOf
<1>5. /\ Q.flat[R.next].pos = d.pos /\ Q.flat[R.next].name = d.name
      /\ Either(Q.flat[R.next], {"Param"})
  BY <1>2 DEF Entry, Either
<1> QED
  BY <1>3, <1>4, <1>5 DEF Brings, Q

\* make_child brings nothing.
LEMMA MakeChildBrings ==
    ASSUME NEW R, WellFormed(R), NEW s \in 1..R.scopes, NEW t, NEW p, NEW T
    PROVE  LET Q == MakeChild(R, s) IN
           /\ Brings(Q, R, t, p, T) /\ New(Q, R) = {}
           /\ Q.scopes = R.scopes + 1 /\ Q.scopes \in 1..Q.scopes
           /\ Q.scopes \in Nat /\ Q.scopes > R.scopes
           /\ WellFormed(Q) /\ s \in 1..Q.scopes
<1> DEFINE Q == MakeChild(R, s)
<1>1. Within(Q, R, t) /\ Q.scopes = R.scopes + 1 /\ Q.next = R.next
  BY MakeChildWithin
<1> HIDE DEF Q
<1>2. New(Q, R) = {}
  BY <1>1 DEF New, IdsOf
<1>3. Brings(Q, R, t, p, T)
  BY <1>1, <1>2 DEF Brings
<1>4. WellFormed(Q) /\ R.scopes \in Nat \ {0} /\ s \in Nat
  BY <1>1, WithinSizes, Sizes
<1> QED
  BY <1>1, <1>2, <1>3, <1>4 DEF Q

-----------------------------------------------------------------------------
(* Expressions.                                                            *)

\* A descriptor of an expression.
LEMMA ExprDesc ==
    ASSUME NEW t \in Tags \ Declaring, NEW p \in Nat, NEW kids \in Seq(Nat), NEW e \in Nat
    PROVE  LET d == D(t, NoName, p, kids, e)
           IN d \in Insertable /\ d.pos = p /\ \A T : Either(d, T)
BY DescTyped, NoNameTyped DEF D, Either

LEMMA AtomBrings ==
    ASSUME NEW R, WellFormed(R), NEW s \in 1..R.scopes, NEW t \in AtomTags,
           NEW p \in Nat
    PROVE  /\ Brings(Atom(R, s, t, p), R, s, p, {}) /\ Rooted(Atom(R, s, t, p), s)
           /\ Atom(R, s, t, p).scopes = R.scopes
<1> DEFINE d == D(t, NoName, p, <<>>, 0)
<1>1. t \in Tags \ Declaring
  BY DEF Tags, StmtTags, AtomTags, Declaring
<1>2. d \in Insertable /\ d.pos = p /\ \A T : Either(d, T)
  BY <1>1, ExprDesc, KidsTyped
<1> HIDE DEF d
<1>3. /\ Brings(RegisterInsert(R, s, d), R, s, p, {})
      /\ Rooted(RegisterInsert(R, s, d), s)
      /\ RegisterInsert(R, s, d).scopes = R.scopes
  BY <1>2, InsertBrings
<1> QED
  BY <1>3 DEF Atom, d

LEMMA CallInBrings ==
    ASSUME NEW R, WellFormed(R), NEW s \in 1..R.scopes, NEW c \in 1..R.scopes,
           NEW t \in Tags \ Declaring, NEW args, args = <<>> \/ args[1] \in AtomTags,
           NEW p \in Nat
    PROVE  /\ Brings(CallIn(R, s, c, t, args, p), R, s, p, {})
           /\ Rooted(CallIn(R, s, c, t, args, p), s)
<1> DEFINE C == MakeChild(R, c)
           A == IF args = <<>> THEN C ELSE Atom(C, C.scopes, args[1], p)
           d == D(t, NoName, p, <<C.scopes>>, 0)
<1>1. s \in Nat /\ R.scopes \in Nat
  BY Sizes
<1>2. /\ Brings(C, R, s, p, {}) /\ C.scopes \in 1..C.scopes /\ C.scopes \in Nat
      /\ C.scopes > R.scopes /\ WellFormed(C)
  BY MakeChildBrings
<1> HIDE DEF C
<1>3. Brings(A, C, C.scopes, p, {})
  BY <1>2, AtomBrings, BringsNothing
<1> HIDE DEF A
<1>4. Brings(A, R, s, p, {})
  BY <1>2, <1>3, BringsTransitive
<1>5. WellFormed(A) /\ s \in 1..A.scopes
  BY <1>4, BringsFacts
<1>6. d \in Insertable /\ d.pos = p /\ \A T : Either(d, T)
  BY <1>2, ExprDesc, KidsTyped
<1> HIDE DEF d
<1>7. Brings(RegisterInsert(A, s, d), A, s, p, {}) /\ Rooted(RegisterInsert(A, s, d), s)
  BY <1>5, <1>6, InsertBrings
<1>8. Brings(RegisterInsert(A, s, d), R, s, p, {})
  BY <1>1, <1>4, <1>7, BringsTransitive
<1> QED
  BY <1>7, <1>8 DEF CallIn, A, C, d

LEMMA OperatorBrings ==
    ASSUME NEW R, WellFormed(R), NEW s \in 1..R.scopes, NEW x \in Exprs,
           x.tag \in Operators, NEW p \in Nat
    PROVE  Brings(Operator(R, s, x, p), R, s, p, {}) /\ Rooted(Operator(R, s, x, p), s)
<1> DEFINE A == IF x.args = <<>> THEN R ELSE Atom(R, s, x.args[1], p)
           B == IF Len(x.args) < 2 THEN A ELSE Atom(A, s, x.args[2], p)
           d == D(x.tag, NoName, p, <<>>, 0)
<1>1. /\ x.tag \in Tags \ Declaring
      /\ x.args = <<>> \/ x.args[1] \in AtomTags
      /\ Len(x.args) < 2 \/ x.args[2] \in AtomTags
  <2>1. Len(x.args) \in Nat
    BY ExprsAssumption DEF Expr, AtomTags
  <2> QED
    BY <2>1, ExprShape DEF Operators, Tags, StmtTags, OtherTags, Declaring
<1>2. s \in Nat
  BY Sizes
<1>3. Brings(A, R, s, p, {})
  BY <1>1, AtomBrings, BringsNothing
<1>4. WellFormed(A) /\ s \in 1..A.scopes
  BY <1>3, BringsFacts
<1> HIDE DEF A
<1>5. Brings(B, A, s, p, {})
  BY <1>1, <1>4, AtomBrings, BringsNothing
<1>6. WellFormed(B) /\ s \in 1..B.scopes
  BY <1>4, <1>5, BringsFacts
<1> HIDE DEF B
<1>7. d \in Insertable /\ d.pos = p /\ \A T : Either(d, T)
  BY <1>1, ExprDesc, KidsTyped
<1> HIDE DEF d
<1>8. Brings(B, R, s, p, {})
  BY <1>2, <1>3, <1>5, BringsTransitive
<1>9. Brings(RegisterInsert(B, s, d), R, s, p, {})
  BY <1>7, <1>8, InsertAfterBrings
<1>10. Rooted(RegisterInsert(B, s, d), s)
  BY <1>6, <1>7, InsertBrings
<1> QED
  BY <1>9, <1>10 DEF Operator, A, B, d

\* register_expr inserts no statement, and its root last, in the scope it is given.
LEMMA ExprBrings ==
    ASSUME NEW R, WellFormed(R), NEW s \in 1..R.scopes, NEW x \in Exprs,
           NEW p \in Nat
    PROVE  /\ Brings(RegisterExpr(R, s, x, p), R, s, p, {})
           /\ ~IsNull(x) => Rooted(RegisterExpr(R, s, x, p), s)
<1>1. CASE x.tag \in AtomTags
  <2>1. RegisterExpr(R, s, x, p) = Atom(R, s, x.tag, p)
    BY <1>1 DEF RegisterExpr, AtomTags, Operators
  <2> QED
    BY <1>1, <2>1, AtomBrings
<1>2. CASE x.tag \in {"ExprFunctionCall", "ExprField"}
  <2>1. x.tag \in Tags \ Declaring /\ (x.args = <<>> \/ x.args[1] \in AtomTags)
    BY <1>2, ExprShape DEF Tags, StmtTags, OtherTags, Declaring
  <2>2. RegisterExpr(R, s, x, p) = CallIn(R, s, s, x.tag, x.args, p)
    BY <1>2 DEF RegisterExpr, AtomTags, Operators
  <2> QED
    BY <2>1, <2>2, CallInBrings
<1>3. CASE x.tag \in Operators
  BY <1>3, OperatorBrings DEF RegisterExpr, AtomTags, Operators
<1>4. CASE x.tag \notin AtomTags \cup {"ExprFunctionCall", "ExprField"} \cup Operators
  <2>1. IsNull(x)
    BY <1>4, ExprShape DEF IsNull
  <2> QED
    BY <1>4, <2>1, BringsNothing DEF RegisterExpr
<1> QED
  BY <1>1, <1>2, <1>3, <1>4

\* The id a handler stores for an expression is that of an entry of its scope.
LEMMA ExprIdFound ==
    ASSUME NEW R, NEW s, NEW x, ~IsNull(x) => Rooted(R, s), ExprId(R, x) # 0
    PROVE  ExprId(R, x) \in IdsOf(R) /\ R.flat[ExprId(R, x)].scope = s
BY DEF ExprId, Rooted

-----------------------------------------------------------------------------
(* Patterns.                                                               *)

\* Only the temporary and the inner name of a pattern are statements' entries.
LEMMA BindingsBrings ==
    ASSUME NEW R, WellFormed(R), NEW s \in 1..R.scopes, NEW pat \in Patterns,
           NEW p \in Nat
    PROVE  /\ Brings(Bindings(R, s, pat, p), R, s, p, {"Var", "Let"})
           /\ Rooted(Bindings(R, s, pat, p), s)
<1> DEFINE K == {"Var", "Let"}
           t == D(BindTag(pat), NoName, p, <<s>>, LastId(R))
           T == RegisterInsert(R, s, t)
           v == D("Var", InnerBind(pat), p, <<s>>, LastId(T))
           V == RegisterInsert(T, s, v)
           f == D("ExprField", NoName, p, <<>>, LastId(T))
           F == RegisterInsert(V, s, f)
           G == Atom(F, s, "ExprIdentifier", p)
           o == D("ExprBinaryOp", NoName, p, <<>>, 0)
<1>1. s \in Nat /\ InnerBind(pat) \in NameOpt
  BY Sizes DEF Patterns, InnerBind, NameOpt
<1>2. t \in Insertable /\ t.pos = p /\ Either(t, K)
  <2>1. BindTag(pat) \in Tags /\ BindTag(pat) \in K
    BY DEF BindTag, Tags, StmtTags
  <2> QED
    BY <2>1, <1>1, DescTyped, NoNameTyped, KidsTyped, ExprIdTyped DEF D, Either
<1>3. Brings(T, R, s, p, K)
  BY <1>2, InsertBrings
<1>4. WellFormed(T) /\ s \in 1..T.scopes
  BY <1>3, BringsFacts
<1> HIDE DEF t, T
<1>5. v \in Insertable /\ v.pos = p /\ Either(v, K)
  BY <1>1, <1>4, DescTyped, KidsTyped, ExprIdTyped DEF Tags, StmtTags, D, Either
<1>6. Brings(V, R, s, p, K)
  BY <1>3, <1>5, InsertAfterBrings
<1>7. WellFormed(V) /\ s \in 1..V.scopes
  BY <1>6, BringsFacts
<1> HIDE DEF v, V
<1>8. f \in Insertable /\ f.pos = p /\ \A X : Either(f, X)
  BY <1>4, ExprDesc, KidsTyped, ExprIdTyped DEF Tags, OtherTags, StmtTags, Declaring
<1>9. Brings(F, R, s, p, K)
  BY <1>6, <1>8, InsertAfterBrings
<1>10. WellFormed(F) /\ s \in 1..F.scopes
  BY <1>9, BringsFacts
<1> HIDE DEF f, F
<1>11. Brings(G, F, s, p, K)
  BY <1>10, AtomBrings, BringsMore DEF AtomTags
<1> HIDE DEF G
<1>12. Brings(G, R, s, p, K)
  BY <1>1, <1>9, <1>11, BringsTransitive
<1>13. WellFormed(G) /\ s \in 1..G.scopes
  BY <1>12, BringsFacts
<1>14. o \in Insertable /\ o.pos = p /\ \A X : Either(o, X)
  BY ExprDesc, KidsTyped DEF Tags, OtherTags, StmtTags, Declaring
<1> HIDE DEF o
<1>15. Brings(RegisterInsert(G, s, o), R, s, p, K)
  BY <1>12, <1>14, InsertAfterBrings
<1>16. Rooted(RegisterInsert(G, s, o), s)
  BY <1>13, <1>14, InsertBrings
<1> QED
  BY <1>15, <1>16 DEF Bindings, t, T, v, V, f, F, G, o

LEMMA PatternBrings ==
    ASSUME NEW R, WellFormed(R), NEW s \in 1..R.scopes, NEW x \in Exprs,
           NEW pat \in Patterns, NEW p \in Nat
    PROVE  LET Q == RegisterPatternCondition(R, s, x, pat, p) IN
           Brings(Q, R, s, p, {"Var", "Let"}) /\ (~IsNull(x) => Rooted(Q, s))
<1> DEFINE C == RegisterExpr(R, s, x, p)
<1>1. Brings(C, R, s, p, {"Var", "Let"}) /\ (~IsNull(x) => Rooted(C, s)) /\ s \in Nat
  BY ExprBrings, BringsMore, Sizes
<1> HIDE DEF C
<1>2. WellFormed(C) /\ s \in 1..C.scopes
  BY <1>1, BringsFacts
<1>3. /\ Brings(Bindings(C, s, pat, p), R, s, p, {"Var", "Let"})
      /\ Rooted(Bindings(C, s, pat, p), s)
  BY <1>1, <1>2, BindingsBrings, BringsTransitive
<1> QED
  BY <1>1, <1>3 DEF RegisterPatternCondition, C

-----------------------------------------------------------------------------
(* What a step registers.                                                  *)

\* No scope that existed gets or loses its owner.
OwnersKept(Q, R) == \A t \in 1..R.scopes : Q.owner[t] = R.owner[t]

\* A parameter of a function is declared before anything else in its scope.
ParamPlaced(Q, R, i) ==
    Q.flat[i].tag = "Param" /\ Q.owner[Q.flat[i].scope] # 0
        => i = R.next /\ Q.flat[i].name \in Name /\ ParamsOnly(R, Q.flat[i].scope)

\* A step for the statement p registers in scope s and in scopes it makes, and
\* the ids its entries have looked up are there.
Registers(Q, R, s, p) ==
    /\ Grows(Q, R) /\ OwnersKept(Q, R)
    /\ \A i \in New(Q, R) :
           /\ Q.flat[i].pos = p
           /\ Q.flat[i].scope = s \/ Q.flat[i].scope > R.scopes
           /\ RefFound(Q, Q.flat[i], Q.flat[i].scope)
           /\ ParamPlaced(Q, R, i)

\* The statements' entries among the new ones have tags in T.
Statements(Q, R, T) ==
    \A i \in New(Q, R) : Q.flat[i].tag \in StmtTags => Q.flat[i].tag \in T

\* The only new entry of a statement is o, which is in s and has tag t.
OwnEntry(Q, R, s, p, t, o) ==
    /\ o \in New(Q, R)
    /\ Q.flat[o].tag = t /\ Q.flat[o].pos = p /\ Q.flat[o].scope = s
    /\ \A i \in New(Q, R) \ {o} : Q.flat[i].tag \notin StmtTags

LEMMA RegistersFacts ==
    ASSUME NEW R, WellFormed(R), NEW Q, NEW s, NEW p, Registers(Q, R, s, p)
    PROVE  /\ WellFormed(Q) /\ Follows(Q, R)
           /\ IdsOf(R) \subseteq IdsOf(Q) /\ IdsOf(Q) = IdsOf(R) \cup New(Q, R)
           /\ \A i \in IdsOf(R) : Q.flat[i] = R.flat[i]
           /\ \A i \in IdsOf(R) : R.flat[i].scope \in 1..R.scopes
<1>1. WellFormed(Q) /\ Follows(Q, R) /\ RegisterOK(R)
  BY Sizes DEF Registers, Grows
<1>2. Q.next \in Nat /\ R.next \in Nat /\ Q.next >= R.next
  BY <1>1, Sizes DEF Follows
<1>3. IdsOf(R) \subseteq IdsOf(Q)
  BY <1>2 DEF IdsOf
<1>4. IdsOf(Q) = IdsOf(R) \cup New(Q, R)
  BY <1>3 DEF New
<1> QED
  BY <1>1, <1>3, <1>4, EntryFacts DEF Follows

LEMMA BringsRegisters ==
    ASSUME NEW R, WellFormed(R), NEW Q, NEW s, NEW p, NEW T, Brings(Q, R, s, p, T),
           T \subseteq {"Var", "Let", "Const", "Param", "EnumVariant", "ExternFunc"},
           "Param" \in T => \A i \in New(Q, R) : ParamPlaced(Q, R, i)
    PROVE  Registers(Q, R, s, p) /\ Statements(Q, R, T)
<1>1. Grows(Q, R) /\ OwnersKept(Q, R)
  BY BringsFacts DEF Within, OwnersKept
<1>2. ASSUME NEW i \in New(Q, R)
      PROVE  /\ Q.flat[i].pos = p /\ Either(Q.flat[i], T)
             /\ Q.flat[i].scope = s \/ Q.flat[i].scope > R.scopes
  BY <1>2 DEF Brings, Within, New
<1>3. ASSUME NEW i \in New(Q, R) PROVE RefFound(Q, Q.flat[i], Q.flat[i].scope)
  <2>1. Q.flat[i].tag \notin {"If", "Elif", "While", "For", "Match", "ExprStmt"}
    BY <1>2 DEF Either, Declaring, StmtTags
  <2> QED
    BY <2>1 DEF RefFound
<1>4. ASSUME NEW i \in New(Q, R) PROVE ParamPlaced(Q, R, i)
  BY <1>2, <1>4 DEF Either, Declaring, ParamPlaced
<1>5. Statements(Q, R, T)
  BY <1>2 DEF Statements, Either, Declaring
<1> QED
  BY <1>1, <1>2, <1>3, <1>4, <1>5 DEF Registers

\* What an entry has looked up stays where it was.
LEMMA RefStays ==
    ASSUME NEW R, WellFormed(R), NEW Q, Grows(Q, R), NEW e, NEW s, RefFound(R, e, s)
    PROVE  RefFound(Q, e, s)
<1>1. Q.next \in Nat /\ R.next \in Nat /\ Q.next >= R.next
  BY Sizes DEF Grows, Follows
<1>2. IdsOf(R) \subseteq IdsOf(Q) /\ \A i \in IdsOf(R) : Q.flat[i] = R.flat[i]
  BY <1>1 DEF Grows, Follows, IdsOf
<1> QED
  BY <1>2 DEF RefFound

\* A statement's own entry, inserted after its expressions.
LEMMA OwnInsert ==
    ASSUME NEW R, WellFormed(R), NEW s \in 1..R.scopes, NEW p, NEW I,
           Brings(I, R, s, p, {}), NEW d \in Insertable, d.tag \in StmtTags, d.pos = p,
           RefFound(I, d, s)
    PROVE  LET Q == RegisterInsert(I, s, d) IN
           /\ Registers(Q, R, s, p) /\ OwnEntry(Q, R, s, p, d.tag, I.next)
           /\ New(Q, R) = New(I, R) \cup {I.next} /\ Q.flat[I.next].name = d.name
           /\ \A i \in New(Q, R) : Q.flat[i].tag # "Param"
<1> DEFINE Q == RegisterInsert(I, s, d)
           o == I.next
<1>1. /\ WellFormed(I) /\ s \in 1..I.scopes /\ IdsOf(R) \subseteq IdsOf(I)
      /\ o \in Nat \ {0} /\ Within(I, R, s)
  BY BringsFacts
<1>2. /\ Brings(Q, I, s, p, {d.tag}) /\ New(Q, I) = {o}
      /\ Q.flat[o] = Entry(d, s, OwnerFn(I, s))
  BY <1>1, InsertBrings DEF Either
<1> HIDE DEF Q
<1>3. Brings(Q, R, s, p, {d.tag})
  <2>1. Brings(I, R, s, p, {d.tag})
    BY BringsMore
  <2>2. s \in Nat
    BY Sizes
  <2> QED
    BY <2>1, <2>2, <1>2, BringsTransitive
<1>4. Grows(Q, R) /\ Grows(Q, I) /\ IdsOf(I) \subseteq IdsOf(Q) /\ OwnersKept(Q, R)
  BY <1>1, <1>2, <1>3, BringsFacts DEF Within, OwnersKept
<1>5. o \in IdsOf(Q) /\ o \notin IdsOf(I) /\ New(Q, R) = New(I, R) \cup {o}
  BY <1>1, <1>2, <1>4 DEF New
<1>6. /\ Q.flat[o].tag = d.tag /\ Q.flat[o].pos = p /\ Q.flat[o].scope = s
      /\ Q.flat[o].name = d.name /\ Q.flat[o].expr = d.expr /\ Q.flat[o].kids = d.kids
  BY <1>2 DEF Entry
<1>7. ASSUME NEW i \in New(I, R)
      PROVE  i # o /\ Q.flat[i].tag \notin StmtTags /\ Q.flat[i].tag # "Param"
  <2>1. i \in IdsOf(I) /\ I.flat[i].tag \notin Declaring
    BY <1>7 DEF Brings, New, Either
  <2>2. Q.flat[i] = I.flat[i]
    BY <2>1, <1>4 DEF Grows, Follows
  <2> QED
    BY <2>1, <2>2, <1>5 DEF Declaring
<1>8. RefFound(Q, Q.flat[o], s)
  <2>1. RefFound(Q, d, s)
    BY <1>1, <1>4, RefStays
  <2> QED
    BY <2>1, <1>6 DEF RefFound
<1>9. ASSUME NEW i \in New(Q, R)
      PROVE  /\ Q.flat[i].pos = p
             /\ Q.flat[i].scope = s \/ Q.flat[i].scope > R.scopes
             /\ RefFound(Q, Q.flat[i], Q.flat[i].scope)
  <2>1. /\ Q.flat[i].pos = p
        /\ Q.flat[i].scope = s \/ Q.flat[i].scope > R.scopes
    BY <1>3, <1>9 DEF Brings, Within, New
  <2>2. CASE i = o
    BY <2>1, <2>2, <1>6, <1>8
  <2>3. CASE i # o
    <3>1. Q.flat[i].tag \notin StmtTags
      BY <2>3, <1>5, <1>7, <1>9
    <3> QED
      BY <2>1, <3>1 DEF RefFound, StmtTags
  <2> QED
    BY <2>2, <2>3
<1>12. \A i \in New(Q, R) : Q.flat[i].tag # "Param"
  BY <1>5, <1>6, <1>7 DEF StmtTags
<1>10. Registers(Q, R, s, p)
  BY <1>4, <1>9, <1>12 DEF Registers, ParamPlaced
<1>11. OwnEntry(Q, R, s, p, d.tag, o)
  BY <1>5, <1>6, <1>7 DEF OwnEntry, New
<1> QED
  BY <1>5, <1>6, <1>10, <1>11, <1>12 DEF Q

\* Setting an owner, or anything else that leaves the entries alone.
LEMMA SameEntries ==
    ASSUME NEW R, NEW Q, NEW P, NEW s, NEW p, Registers(Q, R, s, p), Grows(P, R),
           P.flat = Q.flat, P.next = Q.next, OwnersKept(P, R),
           \A i \in New(Q, R) : Q.flat[i].tag # "Param"
    PROVE  /\ Registers(P, R, s, p) /\ New(P, R) = New(Q, R)
           /\ \A t, o : OwnEntry(Q, R, s, p, t, o) => OwnEntry(P, R, s, p, t, o)
<1>1. IdsOf(P) = IdsOf(Q) /\ New(P, R) = New(Q, R)
  BY DEF IdsOf, New
<1>2. \A e, u : RefFound(Q, e, u) => RefFound(P, e, u)
  BY <1>1 DEF RefFound
<1> QED
  BY <1>1, <1>2 DEF Registers, OwnEntry, ParamPlaced

-----------------------------------------------------------------------------
(* The invariant by its parts, with the state as parameters.               *)

FramesPlaced(st, R, q) == \A k \in 1..Len(st) : FramePlaced(st[k], R, q)
RefsFound(R) == \A i \in IdsOf(R) : RefFound(R, R.flat[i], R.flat[i].scope)
Ordered(R) ==
    \A i, j \in IdsOf(R) :
        /\ i < j /\ R.flat[i].scope = R.flat[j].scope
        /\ {R.flat[i].tag, R.flat[j].tag} \subseteq StmtTags
        => R.flat[i].pos <= R.flat[j].pos
Waits(st, p) == \E k \in DOMAIN st : st[k].entry.tag # "none" /\ st[k].entry.pos = p
Entries(R, q, p) == {i \in IdsOf(R) : /\ R.flat[i].pos = p
                                      /\ R.flat[i].tag = q[p].tag
                                      /\ R.flat[i].scope = q[p].scope}
Once(R, st, q, p) == IF Waits(st, p) THEN Entries(R, q, p) = {}
                     ELSE \E i \in IdsOf(R) : Entries(R, q, p) = {i}
AllOnce(R, st, q) == \A p \in DOMAIN q : q[p].tag # "Else" => Once(R, st, q, p)

Walking ==
    /\ Good
    /\ Placed(reg, src) /\ RefsFound(reg) /\ Ordered(reg)
    /\ FramesPlaced(stack, reg, src) /\ Nested(stack) /\ HeldInOrder(reg, stack)
    /\ AllOnce(reg, stack, src)
    /\ MethodsKeyed(reg, src) /\ ParamsFirst(reg) /\ ParamFrames(reg, stack)

\* What every action must guarantee besides Kept, and of the parameters besides
\* ParamFrames, which has lemmas of its own.
Walked ==
    /\ Placed(reg', src') /\ RefsFound(reg') /\ Ordered(reg')
    /\ FramesPlaced(stack', reg', src') /\ Nested(stack') /\ HeldInOrder(reg', stack')
    /\ AllOnce(reg', stack', src')
    /\ MethodsKeyed(reg', src') /\ ParamsFirst(reg')
Framed == ParamFrames(reg', stack')

LEMMA WalkingIsWalkInv == WalkInv => Walking
<1>1. ASSUME WalkInv PROVE Walking
  <2>1. Good
    BY <1>1, GoodIsIndInv DEF WalkInv
  <2>2. AllOnce(reg, stack, src)
    BY <1>1 DEF WalkInv, StatementsRegistered, RegisteredOnce, Pending, EntriesOf,
                AllOnce, Once, Waits, Entries, Ids
  <2> QED
    BY <1>1, <2>1, <2>2 DEF WalkInv, WalkOK, SourceOrder, Ids, Walking, FramesPlaced,
                            RefsFound, Ordered
<1> QED
  BY <1>1

LEMMA WalkedIsWalkInv == Kept /\ Walked /\ Framed => WalkInv'
<1>1. ASSUME Kept, Walked, Framed PROVE WalkInv'
  <2>1. IndInv'
    BY <1>1, KeptIsIndInv
  <2>2. StatementsRegistered'
    BY <1>1 DEF Walked, StatementsRegistered, RegisteredOnce, Pending, EntriesOf,
                AllOnce, Once, Waits, Entries, Ids
  <2>3. SourceOrder' /\ WalkOK'
    BY <1>1 DEF Walked, Framed, WalkOK, SourceOrder, Ids, FramesPlaced, RefsFound,
                Ordered
  <2> QED
    BY <2>1, <2>2, <2>3 DEF WalkInv
<1> QED
  BY <1>1

-----------------------------------------------------------------------------
(* The registers.                                                          *)

\* The source is only ever extended.
Extends(q2, q) ==
    /\ SrcGood(q) /\ SrcGood(q2) /\ Len(q2) >= Len(q)
    /\ \A p \in 1..Len(q) : q2[p] = q[p]

LEMMA StatementTyped ==
    ASSUME NEW q, SrcGood(q), NEW p \in 1..Len(q) PROVE q[p].tag \in StmtTags
<1> DEFINE T == [tag : StmtTags, scope : Nat, bind : NameOpt]
<1>1. \A r \in T : r.tag \in StmtTags
  OBVIOUS
<1>2. q \in Seq(T)
  BY DEF SrcGood
<1> HIDE DEF T
<1>3. q[p] \in T
  BY <1>2, ElementOfSeq
<1> QED
  BY <1>1, <1>3

LEMMA PlacedKept ==
    ASSUME NEW R, WellFormed(R), NEW Q, NEW s, NEW p, Registers(Q, R, s, p),
           NEW q, NEW q2, Extends(q2, q), Placed(R, q), p \in 1..Len(q2)
    PROVE  Placed(Q, q2)
<1>1. 1..Len(q) \subseteq 1..Len(q2)
  BY DEF Extends, SrcGood
<1>2. ASSUME NEW i \in IdsOf(Q) PROVE Q.flat[i].pos \in 1..Len(q2)
  <2>1. CASE i \in IdsOf(R)
    BY <1>1, <2>1, RegistersFacts DEF Placed
  <2>2. CASE i \notin IdsOf(R)
    BY <1>2, <2>2 DEF Registers, New
  <2> QED
    BY <2>1, <2>2
<1> QED
  BY <1>2 DEF Placed

LEMMA RefsKept ==
    ASSUME NEW R, WellFormed(R), NEW Q, NEW s, NEW p, Registers(Q, R, s, p), RefsFound(R)
    PROVE  RefsFound(Q)
<1>1. ASSUME NEW i \in IdsOf(Q) PROVE RefFound(Q, Q.flat[i], Q.flat[i].scope)
  <2>1. CASE i \in IdsOf(R)
    <3>1. RefFound(R, R.flat[i], R.flat[i].scope) /\ Grows(Q, R)
      BY <2>1 DEF RefsFound, Registers
    <3>2. RefFound(Q, R.flat[i], R.flat[i].scope)
      BY <3>1, RefStays
    <3> QED
      BY <2>1, <3>2, RegistersFacts
  <2>2. CASE i \notin IdsOf(R)
    BY <1>1, <2>2 DEF Registers, New
  <2> QED
    BY <2>1, <2>2
<1> QED
  BY <1>1 DEF RefsFound

\* What the positions of the statements in a scope are bounded by.
LastIn(R, s, p) ==
    \A i \in IdsOf(R) : R.flat[i].tag \in StmtTags /\ R.flat[i].scope = s
                            => R.flat[i].pos <= p

LEMMA OrderKept ==
    ASSUME NEW R, WellFormed(R), NEW Q, NEW s, NEW p \in Nat, Registers(Q, R, s, p),
           Ordered(R), Statements(Q, R, {}) \/ LastIn(R, s, p)
    PROVE  Ordered(Q)
<1>1. /\ IdsOf(R) \subseteq IdsOf(Q) /\ IdsOf(Q) = IdsOf(R) \cup New(Q, R)
      /\ \A i \in IdsOf(R) : Q.flat[i] = R.flat[i] /\ R.flat[i].scope \in 1..R.scopes
      /\ WellFormed(Q)
  BY RegistersFacts
<1>2. R.scopes \in Nat /\ R.next \in Nat /\ Q.next \in Nat
  BY <1>1, Sizes
<1>3. SUFFICES ASSUME NEW i \in IdsOf(Q), NEW j \in IdsOf(Q), i < j,
                      Q.flat[i].scope = Q.flat[j].scope,
                      Q.flat[i].tag \in StmtTags, Q.flat[j].tag \in StmtTags
               PROVE  Q.flat[i].pos <= Q.flat[j].pos
  BY DEF Ordered
<1>4. CASE j \in IdsOf(R)
  <2>1. i \in IdsOf(R)
    BY <1>2, <1>3, <1>4 DEF IdsOf
  <2>2. Q.flat[i] = R.flat[i] /\ Q.flat[j] = R.flat[j]
    BY <1>1, <1>4, <2>1
  <2> QED
    BY <1>3, <1>4, <2>1, <2>2 DEF Ordered
<1>5. CASE j \notin IdsOf(R)
  <2>1. /\ j \in New(Q, R) /\ Q.flat[j].pos = p
        /\ Q.flat[j].scope = s \/ Q.flat[j].scope > R.scopes
    BY <1>5 DEF New, Registers
  <2>2. LastIn(R, s, p)
    BY <1>3, <2>1 DEF Statements
  <2>3. CASE i \in IdsOf(R)
    <3>1. Q.flat[i] = R.flat[i] /\ R.flat[i].scope \in 1..R.scopes
      BY <1>1, <2>3
    <3>2. R.flat[i].scope = s
      BY <1>2, <1>3, <2>1, <3>1
    <3> QED
      BY <1>3, <2>1, <2>2, <2>3, <3>1, <3>2 DEF LastIn
  <2>4. CASE i \notin IdsOf(R)
    <3>1. Q.flat[i].pos = p
      BY <2>4 DEF New, Registers
    <3> QED
      BY <2>1, <3>1
  <2> QED
    BY <2>3, <2>4
<1> QED
  BY <1>4, <1>5

LEMMA KeysKept ==
    ASSUME NEW R, WellFormed(R), NEW Q, NEW s, NEW p, Registers(Q, R, s, p),
           NEW q, NEW q2, Extends(q2, q), Placed(R, q), MethodsKeyed(R, q),
           \A i \in New(Q, R) :
               Q.flat[i].tag = "Function" /\ q2[p].tag = "Class"
                   => /\ Q.flat[i].name \in Name
                      /\ Q.names[Q.flat[i].scope][Q.flat[i].name] = i
    PROVE  MethodsKeyed(Q, q2)
<1>1. ASSUME NEW i \in IdsOf(Q), Q.flat[i].tag = "Function",
             q2[Q.flat[i].pos].tag = "Class"
      PROVE  /\ Q.flat[i].name \in Name
             /\ Q.names[Q.flat[i].scope][Q.flat[i].name] = i
  <2>1. CASE i \in IdsOf(R)
    <3>1. /\ Q.flat[i] = R.flat[i] /\ R.flat[i].scope \in 1..R.scopes /\ Follows(Q, R)
          /\ i # 0
      BY <2>1, RegistersFacts DEF IdsOf
    <3>2. q2[R.flat[i].pos] = q[R.flat[i].pos]
      BY <2>1 DEF Placed, Extends
    <3>3. R.flat[i].name \in Name /\ R.names[R.flat[i].scope][R.flat[i].name] = i
      BY <1>1, <2>1, <3>1, <3>2 DEF MethodsKeyed
    <3> QED
      BY <3>1, <3>3 DEF Follows
  <2>2. CASE i \notin IdsOf(R)
    <3>1. i \in New(Q, R) /\ Q.flat[i].pos = p
      BY <1>1, <2>2 DEF New, Registers
    <3> QED
      BY <1>1, <3>1
  <2> QED
    BY <2>1, <2>2
<1> QED
  BY <1>1 DEF MethodsKeyed

LEMMA ParamsKept ==
    ASSUME NEW R, WellFormed(R), NEW Q, NEW s, NEW p, Registers(Q, R, s, p),
           ParamsFirst(R)
    PROVE  ParamsFirst(Q)
<1>1. /\ R.next \in Nat \ {0} /\ IdsOf(R) = 1..(R.next - 1)
      /\ \A i \in IdsOf(R) : Q.flat[i] = R.flat[i] /\ R.flat[i].scope \in 1..R.scopes
  BY Sizes, RegistersFacts DEF IdsOf
<1>2. SUFFICES ASSUME NEW i \in IdsOf(Q), Q.flat[i].tag = "Param",
                      Q.owner[Q.flat[i].scope] # 0
               PROVE  /\ Q.flat[i].name \in Name
                      /\ \A j \in 1..(i - 1) :
                             Q.flat[j].scope = Q.flat[i].scope /\ Q.flat[j].name \in Name
                                 => Q.flat[j].tag = "Param"
  BY DEF ParamsFirst
<1>3. CASE i \in IdsOf(R)
  <2>1. \A j \in 1..(i - 1) : j \in IdsOf(R)
    BY <1>1, <1>3
  <2>2. R.owner[R.flat[i].scope] # 0
    BY <1>1, <1>2, <1>3 DEF Registers, OwnersKept
  <2> QED
    BY <1>1, <1>2, <1>3, <2>1, <2>2 DEF ParamsFirst
<1>4. CASE i \notin IdsOf(R)
  <2>1. i = R.next /\ Q.flat[i].name \in Name /\ ParamsOnly(R, Q.flat[i].scope)
    BY <1>2, <1>4 DEF Registers, New, ParamPlaced
  <2>2. \A j \in 1..(i - 1) : j \in IdsOf(R)
    BY <1>1, <2>1
  <2> QED
    BY <1>1, <1>2, <2>1, <2>2 DEF ParamsOnly
<1> QED
  BY <1>3, <1>4

\* No statement goes to a scope a handler inserts in later, unless it comes
\* from that handler.
LEMMA HeldKept ==
    ASSUME NEW R, WellFormed(R), NEW Q, NEW s, NEW p \in Nat, Registers(Q, R, s, p),
           NEW st, StackGood(st, R), HeldInOrder(R, st),
           \/ Statements(Q, R, {})
           \/ \A k \in 1..Len(st) : st[k].kind \in Holding =>
                  st[k].reg # s \/ p <= st[k].entry.pos
    PROVE  HeldInOrder(Q, st)
<1>1. /\ IdsOf(Q) = IdsOf(R) \cup New(Q, R)
      /\ \A i \in IdsOf(R) : Q.flat[i] = R.flat[i]
      /\ R.scopes \in Nat
  BY RegistersFacts, Sizes
<1>2. SUFFICES ASSUME NEW k \in 1..Len(st), st[k].kind \in Holding, NEW i \in IdsOf(Q),
                      Q.flat[i].tag \in StmtTags, Q.flat[i].scope = st[k].reg
               PROVE  Q.flat[i].pos <= st[k].entry.pos
  BY DEF HeldInOrder
<1>3. CASE i \in IdsOf(R)
  BY <1>1, <1>2, <1>3 DEF HeldInOrder
<1>4. CASE i \notin IdsOf(R)
  <2>1. /\ i \in New(Q, R) /\ Q.flat[i].pos = p
        /\ Q.flat[i].scope = s \/ Q.flat[i].scope > R.scopes
    BY <1>4 DEF New, Registers
  <2>2. st[k].reg \in 1..R.scopes
    BY DEF StackGood, FrameOK
  <2>3. st[k].reg = s
    BY <1>1, <1>2, <2>1, <2>2
  <2> QED
    BY <1>2, <2>1, <2>3 DEF Statements
<1> QED
  BY <1>3, <1>4

LEMMA EntriesKept ==
    ASSUME NEW R, WellFormed(R), NEW Q, NEW s, NEW p, Registers(Q, R, s, p),
           NEW q, NEW q2, NEW x, q2[x] = q[x],
           \A i \in New(Q, R) : Q.flat[i].pos = x => Q.flat[i].tag # q[x].tag
    PROVE  Entries(Q, q2, x) = Entries(R, q, x)
<1>1. /\ IdsOf(Q) = IdsOf(R) \cup New(Q, R)
      /\ \A i \in IdsOf(R) : Q.flat[i] = R.flat[i]
  BY RegistersFacts
<1> QED
  BY <1>1 DEF Entries

-----------------------------------------------------------------------------
(* The stack.                                                              *)

LEMMA FramePlacedKept ==
    ASSUME NEW R, WellFormed(R), NEW Q, Grows(Q, R), OwnersKept(Q, R), NEW q, NEW q2, Extends(q2, q),
           NEW f, f.scope \in 1..R.scopes, FramePlaced(f, R, q)
    PROVE  FramePlaced(f, Q, q2)
<1>1. RefFound(Q, f.entry, f.reg)
  BY RefStays DEF FramePlaced
<1>2. f.kind # "body" => /\ f.entry.pos \in 1..Len(q2)
                         /\ q2[f.entry.pos] = q[f.entry.pos]
  BY DEF FramePlaced, Extends, SrcGood
<1>3. f.kind \in Inserting \cup {"class", "method"} => f.kind # "body"
  BY DEF Inserting
<1> QED
  BY <1>1, <1>2, <1>3 DEF FramePlaced, OwnersKept

LEMMA FramesPlacedKept ==
    ASSUME NEW R, WellFormed(R), NEW Q, Grows(Q, R), OwnersKept(Q, R), NEW q, NEW q2, Extends(q2, q),
           NEW st, \A k \in 1..Len(st) : st[k].scope \in 1..R.scopes,
           FramesPlaced(st, R, q)
    PROVE  FramesPlaced(st, Q, q2)
BY FramePlacedKept DEF FramesPlaced

\* All that is asked of the stack.
StackWalk(st, R, q) == FramesPlaced(st, R, q) /\ Nested(st) /\ HeldInOrder(R, st)

LEMMA AppendFacts ==
    ASSUME NEW st \in Seq(FrameType), NEW f \in FrameType
    PROVE  /\ Len(st) \in Nat /\ Len(Append(st, f)) = Len(st) + 1
           /\ \A k \in 1..Len(st) : Append(st, f)[k] = st[k]
           /\ Append(st, f)[Len(st) + 1] = f
           /\ DOMAIN st = 1..Len(st) /\ DOMAIN Append(st, f) = 1..(Len(st) + 1)
           /\ 1..(Len(st) + 1) = (1..Len(st)) \cup {Len(st) + 1}
<1>1. /\ Append(st, f) \in Seq(FrameType) /\ Len(Append(st, f)) = Len(st) + 1
      /\ \A k \in 1..Len(st) : Append(st, f)[k] = st[k]
      /\ Append(st, f)[Len(st) + 1] = f /\ Len(st) \in Nat
  BY AppendProperties
<1> QED
  BY <1>1

LEMMA StackWalkPush ==
    ASSUME NEW R, NEW q, NEW st \in Seq(FrameType), NEW f \in FrameType,
           StackWalk(st, R, q), FramePlaced(f, R, q), Above(First(f), st),
           f.entry.tag # "none" => ~Waits(st, f.entry.pos),
           f.kind \in Holding => LastIn(R, f.reg, f.entry.pos)
    PROVE  StackWalk(Append(st, f), R, q)
<1> DEFINE new == Append(st, f)
           n == Len(st) + 1
<1>1. /\ Len(st) \in Nat /\ Len(new) = n /\ new[n] = f
      /\ \A k \in 1..Len(st) : new[k] = st[k]
      /\ DOMAIN st = 1..Len(st)
      /\ \A k \in 1..n : k \in 1..Len(st) \/ k = n
  BY AppendFacts
<1> HIDE DEF new
<1>2. FramesPlaced(new, R, q)
  BY <1>1 DEF StackWalk, FramesPlaced
<1>3. HeldInOrder(R, new)
  BY <1>1 DEF StackWalk, HeldInOrder, LastIn
<1>4. ASSUME NEW j \in 1..n, NEW k \in 1..n, j < k
      PROVE  /\ new[j].kind \in Holding => First(new[k]) > new[j].reg
             /\ new[j].entry.tag # "none" /\ new[k].entry.tag # "none"
                    => new[j].entry.pos # new[k].entry.pos
  <2>1. j \in 1..Len(st)
    BY <1>1, <1>4
  <2>2. CASE k \in 1..Len(st)
    <3>1. new[j] = st[j] /\ new[k] = st[k]
      BY <1>1, <2>1, <2>2
    <3> QED
      BY <3>1, <1>4, <2>1, <2>2 DEF StackWalk, Nested
  <2>3. CASE k = n
    <3>1. new[j] = st[j] /\ new[k] = f
      BY <1>1, <2>1, <2>3
    <3>2. f.entry.tag # "none" /\ st[j].entry.tag # "none"
              => st[j].entry.pos # f.entry.pos
      BY <1>1, <2>1, SMTT(30) DEF Waits
    <3> QED
      BY <3>1, <3>2, <2>1 DEF Above
  <2> QED
    BY <1>1, <2>2, <2>3
<1>5. Nested(new)
  BY <1>1, <1>4 DEF Nested
<1> QED
  BY <1>2, <1>3, <1>5 DEF StackWalk, new

LEMMA PopFacts ==
    ASSUME NEW st \in Seq(FrameType), st # <<>>
    PROVE  LET new == SubSeq(st, 1, Len(st) - 1) IN
           /\ Len(st) \in Nat \ {0} /\ Len(new) = Len(st) - 1
           /\ \A k \in 1..(Len(st) - 1) : new[k] = st[k] /\ k \in 1..Len(st)
           /\ DOMAIN st = 1..Len(st) /\ DOMAIN new = 1..(Len(st) - 1)
           /\ \A k \in 1..Len(st) : k \in 1..(Len(st) - 1) \/ k = Len(st)
<1> DEFINE n == Len(st) - 1
           new == SubSeq(st, 1, n)
<1>1. n \in Nat /\ \A k \in 1..n : k \in 1..Len(st)
  BY EmptySeq
<1>2. \A k \in 1..n : st[k] \in FrameType
  BY <1>1
<1>3. new \in Seq(FrameType) /\ Len(new) = n /\ \A k \in 1..n : new[k] = st[k]
  <2> HIDE DEF n
  <2>1. 1 \in Int /\ n \in Int /\ n - 1 + 1 = n /\ (n = 0 <=> ~(1 <= n))
    BY <1>1
  <2>2. /\ SubSeq(st, 1, n) \in Seq(FrameType)
        /\ Len(SubSeq(st, 1, n)) = IF 1 <= n THEN n - 1 + 1 ELSE 0
        /\ \A k \in 1..(n - 1 + 1) : SubSeq(st, 1, n)[k] = st[1 + k - 1]
    BY <1>2, <2>1, SubSeqProperties
  <2>3. \A k \in 1..n : 1 + k - 1 = k
    BY <1>1
  <2> QED
    BY <2>1, <2>2, <2>3
<1> HIDE DEF new
<1>4. DOMAIN new = 1..n /\ DOMAIN st = 1..Len(st) /\ Len(st) \in Nat \ {0}
  BY <1>1, <1>3
<1>5. \A k \in 1..Len(st) : k \in 1..n \/ k = Len(st)
  <2>1. \A m \in Nat \ {0} : \A k \in 1..m : k \in 1..(m - 1) \/ k = m
    BY SMTT(30)
  <2> QED
    BY <1>4, <2>1, Zenon
<1> HIDE DEF n
<1>6. /\ Len(st) \in Nat \ {0} /\ Len(new) = n
      /\ \A k \in 1..n : new[k] = st[k] /\ k \in 1..Len(st)
      /\ DOMAIN st = 1..Len(st) /\ DOMAIN new = 1..n
      /\ \A k \in 1..Len(st) : k \in 1..n \/ k = Len(st)
  BY <1>1, <1>3, <1>4, <1>5
<1> QED
  BY <1>6 DEF new, n

LEMMA StackWalkPop ==
    ASSUME NEW R, NEW q, NEW st \in Seq(FrameType), st # <<>>, StackWalk(st, R, q)
    PROVE  StackWalk(SubSeq(st, 1, Len(st) - 1), R, q)
<1> DEFINE new == SubSeq(st, 1, Len(st) - 1)
           n == Len(st) - 1
<1>1. Len(new) = n /\ \A k \in 1..n : new[k] = st[k] /\ k \in 1..Len(st)
  BY PopFacts
<1> HIDE DEF new, n
<1> QED
  BY <1>1 DEF StackWalk, FramesPlaced, Nested, HeldInOrder, new

\* The top frame may become one that inserts in the same scopes and for the
\* same statement.
Alike(f, g) ==
    /\ f.kind \in Holding <=> g.kind \in Holding
    /\ First(f) = First(g) /\ f.entry.tag = g.entry.tag
    /\ f.kind \in Holding \/ f.entry.tag # "none" => f.entry.pos = g.entry.pos
    /\ f.kind \in Holding => f.reg = g.reg

LEMMA SetFacts ==
    ASSUME NEW st \in Seq(FrameType), st # <<>>, NEW f \in FrameType
    PROVE  LET new == [st EXCEPT ![Len(st)] = f] IN
           /\ new \in Seq(FrameType) /\ Len(new) = Len(st) /\ Len(st) \in 1..Len(st)
           /\ \A k \in 1..Len(st) : new[k] = IF k = Len(st) THEN f ELSE st[k]
           /\ DOMAIN st = 1..Len(st) /\ DOMAIN new = 1..Len(st)
BY EmptySeq, ExceptSeq

LEMMA StackWalkSet ==
    ASSUME NEW R, NEW q, NEW st \in Seq(FrameType), st # <<>>, NEW f \in FrameType,
           StackWalk(st, R, q), FramePlaced(f, R, q), Alike(f, st[Len(st)])
    PROVE  StackWalk([st EXCEPT ![Len(st)] = f], R, q)
<1> DEFINE new == [st EXCEPT ![Len(st)] = f]
<1>1. /\ Len(new) = Len(st)
      /\ \A k \in 1..Len(st) : new[k] = IF k = Len(st) THEN f ELSE st[k]
  BY SetFacts
<1> HIDE DEF new
<1>2. \A k \in 1..Len(st) : Alike(new[k], st[k])
  BY <1>1 DEF Alike
<1>3. FramesPlaced(new, R, q)
  BY <1>1 DEF StackWalk, FramesPlaced
<1>4. ASSUME NEW j \in 1..Len(st), NEW k \in 1..Len(st), j < k
      PROVE  /\ new[j].kind \in Holding => First(new[k]) > new[j].reg
             /\ new[j].entry.tag # "none" /\ new[k].entry.tag # "none"
                    => new[j].entry.pos # new[k].entry.pos
  <2>1. Alike(new[j], st[j]) /\ Alike(new[k], st[k])
    BY <1>2
  <2>2. /\ st[j].kind \in Holding => First(st[k]) > st[j].reg
        /\ st[j].entry.tag # "none" /\ st[k].entry.tag # "none"
               => st[j].entry.pos # st[k].entry.pos
    BY <1>4 DEF StackWalk, Nested
  <2> QED
    BY <2>1, <2>2 DEF Alike
<1>5. ASSUME NEW k \in 1..Len(st), new[k].kind \in Holding
      PROVE  \A i \in IdsOf(R) :
                 R.flat[i].tag \in StmtTags /\ R.flat[i].scope = new[k].reg
                     => R.flat[i].pos <= new[k].entry.pos
  <2>1. Alike(new[k], st[k])
    BY <1>2
  <2>2. st[k].kind \in Holding /\ st[k].reg = new[k].reg /\ st[k].entry.pos = new[k].entry.pos
    BY <1>5, <2>1 DEF Alike
  <2> QED
    BY <2>2 DEF StackWalk, HeldInOrder
<1>6. Nested(new) /\ HeldInOrder(R, new)
  BY <1>1, <1>4, <1>5 DEF Nested, HeldInOrder
<1> QED
  BY <1>3, <1>6 DEF StackWalk, new

-----------------------------------------------------------------------------
(* Which statements have a handler that holds their entry.                 *)

LEMMA WaitsPush ==
    ASSUME NEW st \in Seq(FrameType), NEW f \in FrameType, NEW p
    PROVE  Waits(Append(st, f), p)
               <=> Waits(st, p) \/ (f.entry.tag # "none" /\ f.entry.pos = p)
<1> DEFINE new == Append(st, f)
           n == Len(st) + 1
<1>1. /\ new[n] = f /\ \A k \in 1..Len(st) : new[k] = st[k]
      /\ DOMAIN st = 1..Len(st) /\ DOMAIN new = (1..Len(st)) \cup {n}
  BY AppendFacts, SMTT(30)
<1> HIDE DEF new, n
<1> QED
  BY <1>1 DEF Waits, new

LEMMA WaitsPop ==
    ASSUME NEW st \in Seq(FrameType), st # <<>>, NEW p
    PROVE  LET f == st[Len(st)] IN
           Waits(st, p) <=> \/ Waits(SubSeq(st, 1, Len(st) - 1), p)
                            \/ f.entry.tag # "none" /\ f.entry.pos = p
<1> DEFINE new == SubSeq(st, 1, Len(st) - 1)
           n == Len(st) - 1
<1>1. /\ \A k \in 1..n : new[k] = st[k] /\ k \in 1..Len(st)
      /\ DOMAIN st = 1..Len(st) /\ DOMAIN new = 1..n /\ Len(st) \in 1..Len(st)
      /\ \A k \in 1..Len(st) : k \in 1..n \/ k = Len(st)
  BY PopFacts
<1> HIDE DEF new, n
<1> QED
  BY <1>1, ZenonT(30) DEF Waits, new

LEMMA WaitsSet ==
    ASSUME NEW st \in Seq(FrameType), st # <<>>, NEW f \in FrameType,
           Alike(f, st[Len(st)]), NEW p
    PROVE  Waits([st EXCEPT ![Len(st)] = f], p) <=> Waits(st, p)
<1> DEFINE new == [st EXCEPT ![Len(st)] = f]
<1>1. /\ \A k \in 1..Len(st) : new[k] = IF k = Len(st) THEN f ELSE st[k]
      /\ DOMAIN st = 1..Len(st) /\ DOMAIN new = 1..Len(st)
  BY SetFacts
<1> HIDE DEF new
<1>2. \A k \in 1..Len(st) : Alike(new[k], st[k])
  BY <1>1 DEF Alike
<1>3. \A k \in 1..Len(st) : /\ new[k].entry.tag = st[k].entry.tag
                            /\ new[k].entry.tag # "none"
                                   => new[k].entry.pos = st[k].entry.pos
  BY <1>2 DEF Alike
<1> QED
  BY <1>1, <1>3, ZenonT(30) DEF Waits, new

\* Nobody holds an entry for a statement not met yet.
LEMMA NobodyWaits ==
    ASSUME NEW R, NEW q, SrcGood(q), NEW st \in Seq(FrameType), FramesPlaced(st, R, q),
           NEW p \in Nat, p > Len(q)
    PROVE  ~Waits(st, p)
<1>1. SUFFICES ASSUME NEW k \in 1..Len(st), st[k].entry.tag # "none", st[k].entry.pos = p
               PROVE  FALSE
  BY DEF Waits
<1>2. FramePlaced(st[k], R, q)
  BY DEF FramesPlaced
<1>3. st[k].kind \in Inserting
  BY <1>1, <1>2 DEF FramePlaced
<1>4. st[k].kind # "body"
  BY <1>3 DEF Inserting
<1> QED
  BY <1>1, <1>2, <1>4 DEF FramePlaced, SrcGood

-----------------------------------------------------------------------------
(* Where a handler may register without getting in front of the entry of   *)
(* another one.                                                            *)

LEMMA WalkingStack ==
    ASSUME Walking
    PROVE  /\ WellFormed(reg) /\ StackGood(stack, reg) /\ SrcGood(src)
           /\ stack \in Seq(FrameType) /\ StackWalk(stack, reg, src)
           /\ Len(src) \in Nat /\ Pos = Len(src) + 1 /\ Pos \in Nat
BY DEF Walking, Good, StackGood, StackWalk, SrcGood, Pos

LEMMA WalkingTop ==
    ASSUME Walking, stack # <<>>
    PROVE  /\ Top \in FrameType /\ FramePlaced(Top, reg, src) /\ Top = stack[Len(stack)]
           /\ Top.scope \in 1..reg.scopes /\ Top.reg \in 1..reg.scopes
           /\ Len(stack) \in 1..Len(stack)
<1>1. stack \in Seq(FrameType) /\ Len(stack) \in 1..Len(stack)
  BY WalkingStack, EmptySeq
<1>2. Top \in FrameType /\ Top.scope \in 1..reg.scopes /\ Top.reg \in 1..reg.scopes
  BY TopFacts DEF Walking
<1>3. FramePlaced(stack[Len(stack)], reg, src)
  BY <1>1 DEF Walking, FramesPlaced
<1> QED
  BY <1>1, <1>2, <1>3 DEF Top

\* A scope made after the handlers in progress began.
LEMMA FreshAbove ==
    ASSUME NEW R, WellFormed(R), NEW st, StackGood(st, R), NEW s \in Nat, s > R.scopes
    PROVE  Above(s, st)
<1>1. \A k \in 1..Len(st) : st[k].reg \in 1..R.scopes
  BY DEF StackGood, FrameOK
<1> QED
  BY <1>1, Sizes DEF Above

\* A scope of the innermost handler.
LEMMA TopAbove ==
    ASSUME Walking, stack # <<>>, NEW s \in Nat, s >= First(Top),
           Top.kind \in Holding => s > Top.reg
    PROVE  Above(s, stack)
<1>1. /\ Top \in FrameType /\ Top = stack[Len(stack)] /\ Len(stack) \in 1..Len(stack)
      /\ StackGood(stack, reg) /\ WellFormed(reg)
  BY WalkingTop, WalkingStack
<1>2. First(Top) \in Nat
  BY <1>1 DEF First, FrameType
<1>3. ASSUME NEW k \in 1..Len(stack), stack[k].kind \in Holding
      PROVE  s > stack[k].reg
  <2>1. CASE k = Len(stack)
    BY <1>1, <1>3, <2>1
  <2>2. CASE k # Len(stack)
    <3>1. k < Len(stack)
      BY <1>1, <2>2
    <3>2. First(stack[Len(stack)]) > stack[k].reg
      BY <1>1, <1>3, <3>1 DEF Walking, Nested
    <3>3. stack[k].reg \in Nat
      BY <1>1, Sizes DEF StackGood, FrameOK
    <3> QED
      BY <1>1, <1>2, <3>2, <3>3
  <2> QED
    BY <2>1, <2>2
<1> QED
  BY <1>3 DEF Above

\* A statement is only met in the loops over statements, which are in scopes
\* younger than the Register their handler inserts in.
LEMMA HereAbove ==
    ASSUME Walking, NEW t, CanStart(t) PROVE Above(Here, stack)
<1>1. stack # <<>> /\ Top.kind \in StmtLoops
  BY DEF CanStart
<1>2. /\ Top \in FrameType /\ FramePlaced(Top, reg, src)
      /\ Here \in Nat /\ Top.reg \in Nat
  BY <1>1, WalkingTop DEF Here, FrameType
<1>3. CASE Top.kind = "body"
  BY <1>1, <1>2, <1>3, TopAbove DEF First, Holding, Inserting, Here
<1>4. CASE Top.kind \in {"then", "then-else", "module"}
  <2>1. Here > Top.reg /\ First(Top) = Top.reg
    BY <1>2, <1>4 DEF FramePlaced, First, Holding, Inserting, Here
  <2> QED
    BY <1>1, <1>2, <2>1, TopAbove
<1> QED
  BY <1>1, <1>3, <1>4 DEF StmtLoops

\* An if that waits for its else_body, and what it becomes afterwards.
LEMMA ElseWalks ==
    ASSUME Walking, In("then-else")
    PROVE  /\ StackGood(AfterElse, reg) /\ AfterElse \in Seq(FrameType)
           /\ ElseChild \in 1..reg.scopes
           /\ StackWalk(AfterElse, reg, src) /\ Above(ElseChild, AfterElse)
           /\ \A p : Waits(AfterElse, p) <=> Waits(stack, p)
<1> DEFINE f == [Top EXCEPT !.kind = "tail"]
<1>1. stack # <<>> /\ Top.kind = "then-else"
  BY DEF In
<1>2. /\ Top \in FrameType /\ FramePlaced(Top, reg, src) /\ Top = stack[Len(stack)]
      /\ stack \in Seq(FrameType) /\ StackWalk(stack, reg, src) /\ Len(stack) \in Nat
  BY <1>1, WalkingTop, WalkingStack
<1>3. /\ f \in FrameType /\ f.kind = "tail" /\ f.scope = Top.scope
      /\ f.reg = Top.reg /\ f.entry = Top.entry
  BY <1>2 DEF FrameType, FrameKinds
<1> HIDE DEF f
<1>4. StackGood(AfterElse, reg) /\ ElseChild \in 1..reg.scopes /\ ElseChild \in Nat
  BY <1>1, AfterElseGood, Sizes DEF Walking, Good
<1>5. FramePlaced(f, reg, src) /\ Alike(f, Top)
  BY <1>1, <1>2, <1>3 DEF FramePlaced, Alike, First, Holding, Inserting
<1>6. AfterElse = [stack EXCEPT ![Len(stack)] = f]
  BY DEF AfterElse, SetTop, f
<1>7. StackWalk(AfterElse, reg, src)
  BY <1>1, <1>2, <1>3, <1>5, <1>6, StackWalkSet
<1>8. \A p : Waits(AfterElse, p) <=> Waits(stack, p)
  BY <1>1, <1>2, <1>3, <1>5, <1>6, WaitsSet
<1>9. Above(ElseChild, stack)
  <2>1. ElseChild > Top.reg /\ First(Top) = Top.reg /\ Top.reg \in Nat
    BY <1>1, <1>2 DEF FramePlaced, ElseChild, First, Holding, Inserting, FrameType
  <2> QED
    BY <1>1, <1>4, <2>1, TopAbove
<1>10. Above(ElseChild, AfterElse)
  <2>1. /\ Len(AfterElse) = Len(stack)
        /\ \A k \in 1..Len(stack) : AfterElse[k] = IF k = Len(stack) THEN f ELSE stack[k]
    BY <1>1, <1>2, <1>3, <1>6, SetFacts
  <2>2. f.kind \in Holding /\ Top.kind \in Holding
    BY <1>1, <1>3 DEF Holding, Inserting
  <2>3. ASSUME NEW k \in 1..Len(stack), AfterElse[k].kind \in Holding
        PROVE  ElseChild > AfterElse[k].reg
    <3>1. CASE k = Len(stack)
      BY <1>2, <1>3, <1>9, <2>1, <2>2, <3>1 DEF Above
    <3>2. CASE k # Len(stack)
      BY <1>9, <2>1, <2>3, <3>2 DEF Above
    <3> QED
      BY <3>1, <3>2
  <2> QED
    BY <2>1, <2>3 DEF Above
<1>11. AfterElse \in Seq(FrameType)
  BY <1>4 DEF StackGood
<1> QED
  BY <1>4, <1>7, <1>8, <1>10, <1>11

-----------------------------------------------------------------------------
(* A statement is met: below is the stack its handler may push on.         *)

LEMMA MetExtends ==
    ASSUME Walking, NEW t \in StmtTags, NEW s \in 1..reg.scopes, NEW n \in NameOpt,
           Meet(t, s, n)
    PROVE  /\ Extends(src', src) /\ SrcGood(src') /\ Len(src') = Pos
           /\ src'[Pos].tag = t /\ src'[Pos].scope = s
           /\ DOMAIN src' = (1..Len(src)) \cup {Pos}
<1> DEFINE r == [tag |-> t, scope |-> s, bind |-> n]
           T == [tag : StmtTags, scope : Nat, bind : NameOpt]
<1>1. src \in Seq(T) /\ Pos = Len(src) + 1 /\ Len(src) \in Nat /\ SrcGood(src)
  BY WalkingStack DEF SrcGood
<1>2. SrcGood(src') /\ src' = Append(src, r)
  BY MeetTyped DEF Walking, Meet
<1>3. r \in T
  <2>1. s \in Nat
    BY Sizes, WalkingStack
  <2> QED
    BY <2>1
<1>4. r.tag = t /\ r.scope = s
  OBVIOUS
<1> HIDE DEF r, T
<1>5. /\ Len(Append(src, r)) = Len(src) + 1 /\ Append(src, r)[Len(src) + 1] = r
      /\ \A k \in 1..Len(src) : Append(src, r)[k] = src[k]
      /\ Append(src, r) \in Seq(T)
  BY <1>1, <1>3, AppendProperties
<1>6. DOMAIN src' = 1..Pos
  BY <1>1, <1>2, <1>5
<1>7. 1..Pos = (1..Len(src)) \cup {Pos}
  BY <1>1
<1> QED
  BY <1>1, <1>2, <1>4, <1>5, <1>6, <1>7 DEF Extends

LEMMA MeetWalks ==
    ASSUME Walking, NEW t \in StmtTags, NEW s \in 1..reg.scopes, NEW n \in NameOpt,
           Meet(t, s, n), NEW below, StackGood(below, reg), StackWalk(below, reg, src),
           \A p : Waits(below, p) <=> Waits(stack, p),
           Above(s, below), Registers(reg', reg, s, Pos)
    PROVE  /\ Placed(reg', src') /\ RefsFound(reg') /\ Ordered(reg')
           /\ StackWalk(below, reg', src') /\ ~Waits(below, Pos)
           /\ \A p \in 1..Len(src) : src[p].tag # "Else" => Once(reg', below, src', p)
           /\ LastIn(reg', s, Pos) /\ ParamsFirst(reg')
<1>1. /\ WellFormed(reg) /\ SrcGood(src) /\ Pos = Len(src) + 1 /\ Len(src) \in Nat
      /\ Pos \in Nat /\ stack \in Seq(FrameType) /\ FramesPlaced(stack, reg, src)
  BY WalkingStack DEF StackWalk
<1>2. Extends(src', src) /\ Len(src') = Pos
  BY MetExtends
<1>3. Grows(reg', reg) /\ OwnersKept(reg', reg)
  BY DEF Registers
<1>4. Placed(reg', src')
  BY <1>1, <1>2, PlacedKept DEF Walking
<1>5. RefsFound(reg')
  BY <1>1, RefsKept DEF Walking
<1>6. LastIn(reg, s, Pos) /\ \A i \in IdsOf(reg) : reg.flat[i].pos # Pos
  BY <1>1 DEF Walking, Placed, LastIn
<1>7. Ordered(reg')
  BY <1>1, <1>6, OrderKept DEF Walking
<1>8. HeldInOrder(reg', below)
  <2>1. \A k \in 1..Len(below) : below[k].kind \in Holding => below[k].reg # s
    <3>1. \A k \in 1..Len(below) : below[k].reg \in 1..reg.scopes
      BY DEF StackGood, FrameOK
    <3> QED
      BY <3>1, <1>1, Sizes DEF Above
  <2> QED
    BY <1>1, <2>1, HeldKept DEF StackWalk
<1>9. StackWalk(below, reg', src')
  <2>1. \A k \in 1..Len(below) : below[k].scope \in 1..reg.scopes
    BY DEF StackGood, FrameOK
  <2> QED
    BY <1>1, <1>2, <1>3, <1>8, <2>1, FramesPlacedKept DEF StackWalk
<1>10. ~Waits(below, Pos)
  BY <1>1, NobodyWaits
<1>11. ASSUME NEW p \in 1..Len(src), src[p].tag # "Else"
       PROVE  Once(reg', below, src', p)
  <2>1. Once(reg, stack, src, p)
    BY <1>1, <1>11 DEF Walking, AllOnce, SrcGood
  <2>2. src'[p] = src[p] /\ p # Pos
    BY <1>1, <1>2 DEF Extends
  <2>3. \A i \in New(reg', reg) : reg'.flat[i].pos # p
    BY <2>2 DEF Registers
  <2>4. Entries(reg', src', p) = Entries(reg, src, p)
    BY <1>1, <2>2, <2>3, EntriesKept
  <2>5. IdsOf(reg) \subseteq IdsOf(reg')
    BY <1>1, RegistersFacts
  <2> QED
    BY <2>1, <2>4, <2>5 DEF Once
<1>12. LastIn(reg', s, Pos)
  <2>1. ASSUME NEW i \in IdsOf(reg') PROVE reg'.flat[i].pos <= Pos
    <3>1. reg'.flat[i].pos \in 1..Pos
      BY <1>2, <1>4 DEF Placed
    <3> QED
      BY <3>1, <1>1
  <2> QED
    BY <2>1 DEF LastIn
<1>13. ParamsFirst(reg')
  BY <1>1, ParamsKept DEF Walking
<1> QED
  BY <1>13, <1>4, <1>5, <1>7, <1>9, <1>10, <1>11, <1>12

\* The only entry of the statement just met is its own.
LEMMA OwnOnce ==
    ASSUME NEW R, WellFormed(R), NEW Q, NEW s, NEW p, Registers(Q, R, s, p), NEW t, NEW o,
           OwnEntry(Q, R, s, p, t, o), NEW q, q[p].tag = t, q[p].scope = s, t \in StmtTags,
           Entries(R, q, p) = {}
    PROVE  Entries(Q, q, p) = {o} /\ o \in IdsOf(Q)
<1>1. /\ IdsOf(Q) = IdsOf(R) \cup New(Q, R)
      /\ \A i \in IdsOf(R) : Q.flat[i] = R.flat[i]
  BY RegistersFacts
<1>2. /\ o \in New(Q, R) /\ Q.flat[o].tag = t /\ Q.flat[o].pos = p
      /\ Q.flat[o].scope = s /\ \A i \in New(Q, R) \ {o} : Q.flat[i].tag \notin StmtTags
  BY DEF OwnEntry
<1>3. o \in Entries(Q, q, p)
  BY <1>1, <1>2 DEF Entries
<1>4. ASSUME NEW i \in Entries(Q, q, p) PROVE i = o
  <2>1. i \in IdsOf(Q) /\ Q.flat[i].pos = p /\ Q.flat[i].tag = t /\ Q.flat[i].scope = s
    BY <1>4 DEF Entries
  <2>2. i \notin IdsOf(R)
    BY <1>1, <2>1 DEF Entries
  <2> QED
    BY <1>1, <1>2, <2>1, <2>2
<1> QED
  BY <1>1, <1>2, <1>3, <1>4

LEMMA NoEntriesYet ==
    ASSUME Walking, NEW q PROVE Entries(reg, q, Pos) = {}
<1>1. \A i \in IdsOf(reg) : reg.flat[i].pos # Pos
  BY WalkingStack DEF Walking, Placed
<1> QED
  BY <1>1 DEF Entries

\* The handler returns at once: it has inserted the statement's entry, or the
\* statement is an else clause.
LEMMA MetLeaf ==
    ASSUME Walking, NEW t \in StmtTags, NEW s \in 1..reg.scopes, NEW n \in NameOpt,
           Meet(t, s, n), StackGood(stack', reg), StackWalk(stack', reg, src),
           \A p : Waits(stack', p) <=> Waits(stack, p),
           Above(s, stack'), Registers(reg', reg, s, Pos),
           t = "Else" \/ \E o : OwnEntry(reg', reg, s, Pos, t, o)
    PROVE  Walked
<1>1. /\ Placed(reg', src') /\ RefsFound(reg') /\ Ordered(reg')
      /\ StackWalk(stack', reg', src') /\ ~Waits(stack', Pos)
      /\ \A p \in 1..Len(src) : src[p].tag # "Else" => Once(reg', stack', src', p)
      /\ ParamsFirst(reg') /\ WellFormed(reg)
  BY MeetWalks, WalkingStack
<1>2. /\ Extends(src', src) /\ src'[Pos].tag = t /\ src'[Pos].scope = s
      /\ DOMAIN src' = (1..Len(src)) \cup {Pos}
  BY MetExtends
<1>3. ASSUME t # "Else" PROVE Once(reg', stack', src', Pos)
  <2>1. PICK o : OwnEntry(reg', reg, s, Pos, t, o)
    BY <1>3
  <2>2. Entries(reg', src', Pos) = {o} /\ o \in IdsOf(reg')
    BY <1>2, <2>1, OwnOnce, NoEntriesYet, WalkingStack
  <2> QED
    BY <1>1, <2>2 DEF Once
<1>4. AllOnce(reg', stack', src')
  BY <1>1, <1>2, <1>3 DEF AllOnce, Extends
<1>5. MethodsKeyed(reg', src')
  <2>1. \A i \in New(reg', reg) : reg'.flat[i].tag = "Function" => src'[Pos].tag # "Class"
    BY <1>2 DEF OwnEntry, StmtTags
  <2> QED
    BY <1>1, <1>2, <2>1, KeysKept DEF Walking
<1> QED
  BY <1>1, <1>4, <1>5 DEF Walked, StackWalk

\* The handler goes on in a frame f, which holds the entry of the statement or
\* is left after it has been inserted.
LEMMA MetPush ==
    ASSUME Walking, NEW t \in StmtTags, NEW s \in 1..reg.scopes, NEW n \in NameOpt,
           Meet(t, s, n), NEW below, StackGood(below, reg), StackWalk(below, reg, src),
           \A p : Waits(below, p) <=> Waits(stack, p),
           Above(s, below), Registers(reg', reg, s, Pos),
           NEW f \in FrameType, stack' = Append(below, f),
           FramePlaced(f, reg', src'), Above(First(f), below),
           f.kind \in Holding => f.reg = s /\ f.entry.pos = Pos,
           \/ f.entry.tag = "none" /\ \E o : OwnEntry(reg', reg, s, Pos, t, o)
           \/ /\ f.entry.tag # "none" /\ f.entry.pos = Pos
              /\ \A i \in New(reg', reg) : reg'.flat[i].tag # t
    PROVE  Walked
<1>1. /\ Placed(reg', src') /\ RefsFound(reg') /\ Ordered(reg')
      /\ StackWalk(below, reg', src') /\ ~Waits(below, Pos)
      /\ \A p \in 1..Len(src) : src[p].tag # "Else" => Once(reg', below, src', p)
      /\ LastIn(reg', s, Pos) /\ ParamsFirst(reg')
  BY MeetWalks
<1>2. /\ Extends(src', src) /\ src'[Pos].tag = t /\ src'[Pos].scope = s
      /\ DOMAIN src' = (1..Len(src)) \cup {Pos}
  BY MetExtends
<1>3. below \in Seq(FrameType) /\ WellFormed(reg) /\ Len(src) \in Nat /\ Pos = Len(src) + 1
  BY WalkingStack DEF StackGood
<1>4. StackWalk(stack', reg', src')
  BY <1>1, <1>3, StackWalkPush
<1>5. \A p : Waits(stack', p)
                 <=> Waits(below, p) \/ (f.entry.tag # "none" /\ f.entry.pos = p)
  BY <1>3, WaitsPush
<1>6. ASSUME NEW p \in 1..Len(src), src[p].tag # "Else"
      PROVE  Once(reg', stack', src', p)
  <2>1. p # Pos
    BY <1>3
  <2> QED
    BY <1>1, <1>5, <1>6, <2>1 DEF Once
<1>7. Once(reg', stack', src', Pos)
  <2>1. CASE f.entry.tag = "none"
    <3>1. PICK o : OwnEntry(reg', reg, s, Pos, t, o)
      BY <2>1
    <3>2. Entries(reg', src', Pos) = {o} /\ o \in IdsOf(reg')
      BY <1>2, <1>3, <3>1, OwnOnce, NoEntriesYet
    <3> QED
      BY <1>1, <1>5, <2>1, <3>2 DEF Once
  <2>2. CASE f.entry.tag # "none"
    <3>1. Entries(reg', src', Pos) = Entries(reg, src', Pos)
      BY <1>2, <1>3, <2>2, EntriesKept
    <3> QED
      BY <1>5, <2>2, <3>1, NoEntriesYet DEF Once
  <2> QED
    BY <2>1, <2>2
<1>8. AllOnce(reg', stack', src')
  BY <1>2, <1>6, <1>7 DEF AllOnce, Extends
<1>9. MethodsKeyed(reg', src')
  <2>1. f.entry.tag # "none" => t \notin {"Function", "Class"}
    BY <1>2 DEF FramePlaced
  <2>2. \A i \in New(reg', reg) : reg'.flat[i].tag = "Function" => src'[Pos].tag # "Class"
    BY <1>2, <2>1 DEF OwnEntry, StmtTags
  <2> QED
    BY <1>2, <1>3, <2>2, KeysKept DEF Walking
<1> QED
  BY <1>1, <1>4, <1>8, <1>9 DEF Walked, StackWalk

-----------------------------------------------------------------------------
(* A handler in progress goes on, or returns.                              *)

LEMMA ContinueWalks ==
    ASSUME Walking, stack # <<>>, Top.kind # "body", src' = src, NEW s,
           Registers(reg', reg, s, Top.entry.pos),
           \/ Statements(reg', reg, {})
           \/ s = Top.reg /\ Top.kind \in Holding
    PROVE  /\ Placed(reg', src') /\ RefsFound(reg') /\ Ordered(reg')
           /\ StackWalk(stack, reg', src') /\ ParamsFirst(reg') /\ Extends(src', src)
<1> DEFINE p == Top.entry.pos
<1>1. /\ WellFormed(reg) /\ StackGood(stack, reg) /\ StackWalk(stack, reg, src)
      /\ SrcGood(src) /\ Len(src) \in Nat
  BY WalkingStack
<1>2. /\ FramePlaced(Top, reg, src) /\ Top \in FrameType /\ Top = stack[Len(stack)]
      /\ Len(stack) \in 1..Len(stack)
  BY WalkingTop
<1>3. p \in 1..Len(src') /\ p \in Nat
  BY <1>2, <1>1 DEF FramePlaced
<1>4. Extends(src', src)
  BY <1>1 DEF Extends
<1>5. Grows(reg', reg) /\ OwnersKept(reg', reg)
  BY DEF Registers
<1>6. Placed(reg', src')
  BY <1>1, <1>3, <1>4, PlacedKept DEF Walking
<1>7. RefsFound(reg')
  BY <1>1, RefsKept DEF Walking
<1>8. Ordered(reg')
  <2>1. s = Top.reg /\ Top.kind \in Holding => LastIn(reg, s, p)
    BY <1>2 DEF Walking, HeldInOrder, LastIn
  <2> QED
    BY <1>1, <1>3, <2>1, OrderKept DEF Walking
<1>9. HeldInOrder(reg', stack)
  <2>1. ASSUME s = Top.reg, Top.kind \in Holding, NEW k \in 1..Len(stack),
               stack[k].kind \in Holding
        PROVE  stack[k].reg # s \/ p <= stack[k].entry.pos
    <3>1. CASE k = Len(stack)
      BY <1>2, <1>3, <3>1
    <3>2. CASE k # Len(stack)
      <4>1. k < Len(stack)
        BY <1>2, <3>2
      <4>2. First(stack[Len(stack)]) > stack[k].reg
        BY <1>2, <2>1, <4>1 DEF Walking, Nested
      <4>3. First(stack[Len(stack)]) = s
        BY <1>2, <2>1 DEF First
      <4>4. stack[k].reg \in Nat
        BY <1>1, Sizes DEF StackGood, FrameOK
      <4> QED
        BY <4>2, <4>3, <4>4
    <3> QED
      BY <3>1, <3>2
  <2> QED
    BY <1>1, <1>3, <2>1, HeldKept DEF StackWalk
<1>10. StackWalk(stack, reg', src')
  <2>1. \A k \in 1..Len(stack) : stack[k].scope \in 1..reg.scopes
    BY <1>1 DEF StackGood, FrameOK
  <2> QED
    BY <1>1, <1>4, <1>5, <1>9, <2>1, FramesPlacedKept DEF StackWalk
<1>11. ParamsFirst(reg')
  BY <1>1, ParamsKept DEF Walking
<1> QED
  BY <1>4, <1>11, <1>6, <1>7, <1>8, <1>10

\* What is registered in between is not the statement's own entry.
LEMMA OthersOnce ==
    ASSUME Walking, stack # <<>>, src' = src, NEW s,
           Registers(reg', reg, s, Top.entry.pos),
           \A i \in New(reg', reg) : reg'.flat[i].tag # src[Top.entry.pos].tag,
           \A p : Waits(stack', p) <=> Waits(stack, p)
    PROVE  AllOnce(reg', stack', src')
<1>1. WellFormed(reg)
  BY WalkingStack
<1>2. IdsOf(reg) \subseteq IdsOf(reg')
  BY <1>1, RegistersFacts
<1>3. ASSUME NEW p \in DOMAIN src, src[p].tag # "Else"
      PROVE  Once(reg', stack', src', p)
  <2>1. Once(reg, stack, src, p)
    BY <1>3 DEF Walking, AllOnce
  <2>2. \A i \in New(reg', reg) : reg'.flat[i].pos = p => reg'.flat[i].tag # src[p].tag
    BY DEF Registers
  <2>3. Entries(reg', src', p) = Entries(reg, src, p)
    BY <1>1, <2>2, EntriesKept
  <2> QED
    BY <1>2, <2>1, <2>3 DEF Once
<1> QED
  BY <1>3 DEF AllOnce

\* One iteration, or the last one: the top frame changes and stays alike.
LEMMA IterWalks ==
    ASSUME Walking, stack # <<>>, Top.kind # "body", src' = src, NEW s,
           Registers(reg', reg, s, Top.entry.pos), Statements(reg', reg, {}),
           NEW f \in FrameType, stack' = SetTop(f), Alike(f, Top),
           FramePlaced(f, reg', src')
    PROVE  Walked
<1>1. /\ Placed(reg', src') /\ RefsFound(reg') /\ Ordered(reg')
      /\ StackWalk(stack, reg', src') /\ ParamsFirst(reg') /\ Extends(src', src)
  BY ContinueWalks
<1>2. stack \in Seq(FrameType) /\ Top = stack[Len(stack)] /\ SrcGood(src)
  BY WalkingStack, WalkingTop
<1>3. StackWalk(stack', reg', src')
  BY <1>1, <1>2, StackWalkSet DEF SetTop
<1>4. \A p : Waits(stack', p) <=> Waits(stack, p)
  BY <1>2, WaitsSet DEF SetTop
<1>5. \A i \in New(reg', reg) : reg'.flat[i].tag # src[Top.entry.pos].tag
  <2>1. Top.entry.pos \in 1..Len(src)
    BY WalkingTop DEF FramePlaced
  <2>2. src[Top.entry.pos].tag \in StmtTags
    BY <1>2, <2>1, StatementTyped
  <2> QED
    BY <2>2 DEF Statements
<1>6. AllOnce(reg', stack', src')
  BY <1>4, <1>5, OthersOnce
<1>7. MethodsKeyed(reg', src')
  <2>1. \A i \in New(reg', reg) : reg'.flat[i].tag # "Function"
    BY DEF Statements, StmtTags
  <2> QED
    BY <1>1, <2>1, KeysKept, WalkingStack DEF Walking
<1> QED
  BY <1>1, <1>3, <1>6, <1>7 DEF Walked, StackWalk

\* One iteration that pushes a frame which inserts nothing later.
LEMMA IterPushWalks ==
    ASSUME Walking, stack # <<>>, Top.kind # "body", src' = src, NEW s,
           Registers(reg', reg, s, Top.entry.pos),
           \/ Statements(reg', reg, {})
           \/ s = Top.reg /\ Top.kind \in Holding,
           \A i \in New(reg', reg) : reg'.flat[i].tag # src[Top.entry.pos].tag,
           \A i \in New(reg', reg) :
               reg'.flat[i].tag = "Function" /\ src[Top.entry.pos].tag = "Class"
                   => /\ reg'.flat[i].name \in Name
                      /\ reg'.names[reg'.flat[i].scope][reg'.flat[i].name] = i,
           NEW f \in FrameType, Alike(f, Top), FramePlaced(f, reg', src'),
           NEW g \in FrameType, FramePlaced(g, reg', src'), g.entry.tag = "none",
           g.kind \notin Holding, First(g) > reg.scopes,
           stack' = Append(SetTop(f), g), StackGood(SetTop(f), reg)
    PROVE  Walked
<1>1. /\ Placed(reg', src') /\ RefsFound(reg') /\ Ordered(reg')
      /\ StackWalk(stack, reg', src') /\ ParamsFirst(reg') /\ Extends(src', src)
  BY ContinueWalks
<1>2. stack \in Seq(FrameType) /\ Top = stack[Len(stack)] /\ WellFormed(reg)
  BY WalkingStack, WalkingTop
<1>3. StackWalk(SetTop(f), reg', src') /\ SetTop(f) \in Seq(FrameType)
  BY <1>1, <1>2, StackWalkSet DEF SetTop, StackGood
<1>4. Above(First(g), SetTop(f))
  <2>1. First(g) \in Nat
    BY DEF First, FrameType
  <2> QED
    BY <1>2, <2>1, FreshAbove
<1>5. StackWalk(stack', reg', src')
  BY <1>3, <1>4, StackWalkPush
<1>6. \A p : Waits(stack', p) <=> Waits(stack, p)
  <2>1. \A p : Waits(SetTop(f), p) <=> Waits(stack, p)
    BY <1>2, WaitsSet DEF SetTop
  <2>2. \A p : Waits(stack', p) <=> Waits(SetTop(f), p)
    BY <1>3, WaitsPush
  <2> QED
    BY <2>1, <2>2
<1>7. AllOnce(reg', stack', src')
  BY <1>6, OthersOnce, SMTT(30)
<1>8. MethodsKeyed(reg', src')
  BY <1>1, <1>2, KeysKept DEF Walking
<1> QED
  BY <1>1, <1>5, <1>7, <1>8 DEF Walked, StackWalk

\* A handler returns and inserts the entry it holds.
LEMMA FinishWalks ==
    ASSUME Walking, stack # <<>>, Top.kind \in Inserting, Finish PROVE Walked
<1> DEFINE d == Top.entry
           p == Top.entry.pos
           s == Top.reg
           o == reg.next
<1>1. reg' = RegisterInsert(reg, s, d) /\ stack' = Pop /\ src' = src
  BY DEF Finish
<1>2. /\ WellFormed(reg) /\ SrcGood(src) /\ stack \in Seq(FrameType)
      /\ StackWalk(stack, reg, src) /\ FramesPlaced(stack, reg, src)
  BY WalkingStack DEF StackWalk
<1>3. /\ FramePlaced(Top, reg, src) /\ Top = stack[Len(stack)] /\ s \in 1..reg.scopes
      /\ Top.kind # "body" /\ Len(stack) \in 1..Len(stack)
  BY WalkingTop DEF Inserting
<1>4. /\ p \in 1..Len(src) /\ src[p].tag = d.tag /\ src[p].scope = s
      /\ RefFound(reg, d, s)
  BY <1>3 DEF FramePlaced
<1>5. src[p].tag \in StmtTags
  BY <1>2, <1>4, StatementTyped
<1>6. d.tag \in StmtTags
  BY <1>4, <1>5
<1>7. d \in Insertable
  <2>1. d \in DescType
    BY TopFacts DEF Walking
  <2> QED
    BY <1>6, <2>1 DEF Insertable, StmtTags
<1>8. Registers(reg', reg, s, p) /\ OwnEntry(reg', reg, s, p, d.tag, o)
  <2>1. Brings(reg, reg, s, p, {})
    BY <1>2, BringsNothing
  <2> QED
    BY <1>1, <1>2, <1>3, <1>4, <1>6, <1>7, <2>1, OwnInsert
<1>9. s = Top.reg /\ Top.kind \in Holding
  BY DEF Holding
<1> HIDE DEF s
<1>10. /\ Placed(reg', src') /\ RefsFound(reg') /\ Ordered(reg')
       /\ StackWalk(stack, reg', src') /\ ParamsFirst(reg') /\ Extends(src', src)
  BY <1>1, <1>3, <1>8, <1>9, ContinueWalks
<1>11. StackWalk(stack', reg', src')
  BY <1>1, <1>2, <1>10, StackWalkPop DEF Pop
<1>12. \A x : Waits(stack, x) <=> Waits(stack', x) \/ x = p
  <2>1. d.tag # "none"
    BY <1>6 DEF StmtTags
  <2> QED
    BY <1>1, <1>2, <1>3, <2>1, WaitsPop DEF Pop
<1>13. ~Waits(stack', p)
  <2>1. SUFFICES ASSUME NEW k \in 1..(Len(stack) - 1), stack[k].entry.tag # "none",
                        stack[k].entry.pos = p
                 PROVE  FALSE
    <3>1. /\ DOMAIN stack' = 1..(Len(stack) - 1)
          /\ \A k \in 1..(Len(stack) - 1) : stack'[k] = stack[k]
      BY <1>1, <1>2, PopFacts DEF Pop
    <3> QED
      BY <3>1 DEF Waits
  <2>2. k \in 1..Len(stack) /\ k < Len(stack) /\ d.tag # "none"
    BY <1>2, <1>6 DEF StmtTags
  <2> QED
    BY <1>3, <2>1, <2>2 DEF Walking, Nested
<1>14. ASSUME NEW x \in DOMAIN src, src[x].tag # "Else"
       PROVE  Once(reg', stack', src', x)
  <2>1. Once(reg, stack, src, x) /\ IdsOf(reg) \subseteq IdsOf(reg')
    BY <1>2, <1>8, <1>14, RegistersFacts DEF Walking, AllOnce
  <2>2. CASE x = p
    <3>1. Entries(reg, src, p) = {}
      BY <1>12, <2>1, <2>2 DEF Once
    <3>2. Entries(reg', src', p) = {o} /\ o \in IdsOf(reg')
      BY <1>1, <1>2, <1>4, <1>6, <1>8, <3>1, OwnOnce
    <3> QED
      BY <1>13, <2>2, <3>2 DEF Once
  <2>3. CASE x # p
    <3>1. \A i \in New(reg', reg) : reg'.flat[i].pos # x
      BY <1>8, <2>3 DEF Registers
    <3>2. Entries(reg', src', x) = Entries(reg, src, x)
      BY <1>1, <1>2, <1>8, <3>1, EntriesKept
    <3> QED
      BY <1>12, <2>1, <2>3, <3>2 DEF Once
  <2> QED
    BY <2>2, <2>3
<1>15. AllOnce(reg', stack', src')
  BY <1>1, <1>14 DEF AllOnce
<1>16. MethodsKeyed(reg', src')
  <2>1. \A i \in New(reg', reg) : reg'.flat[i].tag = "Function" => src'[p].tag # "Class"
    BY <1>1, <1>4, <1>8 DEF OwnEntry, StmtTags
  <2> QED
    BY <1>2, <1>8, <1>10, <2>1, KeysKept DEF Walking
<1> QED
  BY <1>10, <1>11, <1>15, <1>16 DEF Walked, StackWalk

\* A handler that holds no entry returns.
LEMMA PopWalks ==
    ASSUME Walking, stack # <<>>, Top.kind \notin Inserting, stack' = Pop,
           UNCHANGED <<reg, src>>
    PROVE  Walked
<1>1. reg' = reg /\ src' = src
  OBVIOUS
<1>2. /\ stack \in Seq(FrameType) /\ StackWalk(stack, reg, src)
  BY WalkingStack
<1>3. Top.entry.tag = "none" /\ Top = stack[Len(stack)]
  BY WalkingTop DEF FramePlaced
<1>4. StackWalk(stack', reg', src')
  BY <1>1, <1>2, StackWalkPop DEF Pop
<1>5. \A p : Waits(stack', p) <=> Waits(stack, p)
  BY <1>2, <1>3, WaitsPop DEF Pop
<1>6. AllOnce(reg', stack', src')
  BY <1>1, <1>5 DEF Walking, AllOnce, Once
<1> QED
  BY <1>1, <1>4, <1>6 DEF Walked, Walking, StackWalk

-----------------------------------------------------------------------------
(* One lemma per action, or per family of actions that share a definition. *)

\* A statement whose handler inserts its entry after its expressions.
LEMMA LeafWalks ==
    ASSUME Walking, NEW t, Stmt(t), UNCHANGED stack, NEW I,
           Brings(I, reg, Here, Pos, {}), NEW d \in Insertable, d.tag = t, d.pos = Pos,
           RefFound(I, d, Here), reg' = RegisterInsert(I, Here, d)
    PROVE  Walked
<1>1. /\ WellFormed(reg) /\ Here \in 1..reg.scopes /\ t \in StmtTags
      /\ CanStart(t) /\ Meet(t, Here, NoName) /\ NoName \in NameOpt
  BY StmtFacts, NoNameTyped DEF Walking, Stmt
<1>2. Registers(reg', reg, Here, Pos) /\ OwnEntry(reg', reg, Here, Pos, t, I.next)
  BY <1>1, OwnInsert
<1>3. /\ StackGood(stack, reg) /\ StackWalk(stack, reg, src) /\ Above(Here, stack)
  BY <1>1, WalkingStack, HereAbove
<1> QED
  BY <1>1, <1>2, <1>3, MetLeaf

\* What the guard of a statement gives.
LEMMA StmtWalks ==
    ASSUME Walking, NEW t, Stmt(t)
    PROVE  /\ Here \in 1..reg.scopes /\ Here \in Nat /\ Pos \in Nat /\ WellFormed(reg)
           /\ t \in StmtTags /\ t \in Tags /\ reg.scopes \in Nat \ {0}
           /\ Brings(reg, reg, Here, Pos, {})
           /\ CanStart(t) /\ Meet(t, Here, NoName) /\ NoName \in NameOpt
           /\ Above(Here, stack)
<1>1. CanStart(t) /\ Meet(t, Here, NoName)
  BY DEF Stmt
<1>2. /\ Here \in 1..reg.scopes /\ Pos \in Nat /\ WellFormed(reg) /\ t \in StmtTags
      /\ t \in Tags
  BY StmtFacts DEF Walking
<1> QED
  BY <1>1, <1>2, Sizes, BringsNothing, HereAbove, NoNameTyped

LEMMA StructWalks ==
    ASSUME Walking, NEW n \in Name, RegisterStruct(n) PROVE Walked
<1> DEFINE d == D("Struct", n, Pos, <<>>, 0)
<1>1. Stmt("Struct") /\ UNCHANGED stack /\ reg' = RegisterInsert(reg, Here, d)
  BY DEF RegisterStruct
<1>2. Pos \in Nat /\ Brings(reg, reg, Here, Pos, {})
  BY <1>1, StmtWalks
<1>3. d \in Insertable /\ d.tag = "Struct" /\ d.pos = Pos /\ RefFound(reg, d, Here)
  BY <1>2, DescTyped, KidsTyped DEF Tags, StmtTags, NameOpt, D, RefFound
<1> HIDE DEF d
<1> QED
  BY <1>1, <1>2, <1>3, LeafWalks

LEMMA VarWalks ==
    ASSUME Walking, NEW n \in Name, NEW x \in Exprs, NEW ty \in NameOpt, NEW fits,
           RegisterVar(n, x, ty, fits)
    PROVE  Walked
<1> DEFINE C == IF x = NoExpr THEN reg ELSE MakeChild(reg, Here)
           c == C.scopes
           enum == Rewritten(x, ty, fits)
           null == \/ x.tag = "none"
                   \/ enum /\ RegisterByName(reg, ty) = 0
                   \/ x.tag = "ExprArray" /\ ~ArrayFits(ty, fits)
           A == CallIn(C, Here, c, "ExprArray", x.args, Pos)
           E == CallIn(C, c, c, "ExprEnumCall", x.args, Pos)
           X == RegisterExpr(C, c, x, Pos)
           I == CASE null -> C
                  [] x.tag = "ExprArray" /\ ~null -> A
                  [] enum /\ ~null -> E
                  [] OTHER -> X
           d == D("Var", n, Pos, IF x = NoExpr THEN <<>> ELSE <<c>>,
                  IF null THEN 0 ELSE LastId(I))
<1>1. Stmt("Var") /\ UNCHANGED stack /\ reg' = RegisterInsert(I, Here, d)
  BY DEF RegisterVar
<1>2. /\ Here \in 1..reg.scopes /\ Here \in Nat /\ Pos \in Nat /\ WellFormed(reg)
      /\ reg.scopes \in Nat \ {0}
  BY <1>1, StmtWalks
<1>3. /\ Brings(C, reg, Here, Pos, {}) /\ WellFormed(C) /\ Here \in 1..C.scopes
      /\ c \in 1..C.scopes /\ c \in Nat
      /\ x # NoExpr => c > reg.scopes
  <2>1. CASE x = NoExpr
    BY <2>1, <1>2, BringsNothing
  <2>2. CASE x # NoExpr
    <3>1. C = MakeChild(reg, Here)
      BY <2>2
    <3> HIDE DEF C
    <3> QED
      BY <3>1, <1>2, MakeChildBrings
  <2> QED
    BY <2>1, <2>2
<1> HIDE DEF C
<1>4. x.tag = "none" <=> x = NoExpr
  BY ExprShape
<1>5. /\ x.args = <<>> \/ x.args[1] \in AtomTags
      /\ "ExprArray" \in Tags \ Declaring /\ "ExprEnumCall" \in Tags \ Declaring
  BY ExprShape DEF Tags, OtherTags, StmtTags, Declaring
<1>6. enum => x.tag # "ExprArray"
  BY DEF Rewritten
<1>7. Brings(I, reg, Here, Pos, {})
  <2>1. CASE null
    <3>1. I = C
      BY <2>1, <1>6
    <3> QED
      BY <3>1, <1>3
  <2>2. CASE ~null /\ x.tag = "ExprArray"
    <3>1. Brings(A, C, Here, Pos, {})
      BY <2>2, <1>2, <1>3, <1>5, CallInBrings
    <3>2. I = A
      BY <2>2, <1>6
    <3> QED
      BY <3>1, <3>2, <1>2, <1>3, BringsTransitive
  <2>3. CASE ~null /\ x.tag # "ExprArray" /\ enum
    <3>1. Brings(E, C, c, Pos, {}) /\ c > reg.scopes
      BY <2>3, <1>2, <1>3, <1>4, <1>5, <1>6, CallInBrings
    <3>2. I = E
      BY <2>3
    <3> QED
      BY <3>1, <3>2, <1>2, <1>3, BringsTransitive
  <2>4. CASE ~null /\ x.tag # "ExprArray" /\ ~enum
    <3>1. Brings(X, C, c, Pos, {}) /\ c > reg.scopes
      BY <2>4, <1>2, <1>3, <1>4, ExprBrings
    <3>2. I = X
      BY <2>4
    <3> QED
      BY <3>1, <3>2, <1>2, <1>3, BringsTransitive
  <2> QED
    BY <2>1, <2>2, <2>3, <2>4
<1> HIDE DEF I, null
<1>8. d \in Insertable
  <2>1. (IF x = NoExpr THEN <<>> ELSE <<c>>) \in Seq(Nat)
    BY <1>3, KidsTyped
  <2>2. (IF null THEN 0 ELSE LastId(I)) \in Nat
    BY <1>2, <1>7, ExprIdTyped, BringsFacts
  <2>3. n \in NameOpt /\ "Var" \in Tags
    BY DEF NameOpt, Tags, StmtTags
  <2> QED
    BY <2>1, <2>2, <2>3, <1>2, DescTyped
<1>9. d.tag = "Var" /\ d.pos = Pos /\ RefFound(I, d, Here)
  BY DEF D, RefFound
<1> HIDE DEF d
<1> QED
  BY <1>1, <1>7, <1>8, <1>9, LeafWalks

\* let and const
LEMMA BindingWalks ==
    ASSUME Walking, NEW t \in {"Let", "Const"}, NEW n \in Name, NEW x \in Exprs,
           Binding(t, n, x)
    PROVE  Walked
<1> DEFINE C == MakeChild(reg, Here)
           I == RegisterExpr(C, C.scopes, x, Pos)
           d == D(t, n, Pos, <<C.scopes>>, ExprId(I, x))
<1>1. Stmt(t) /\ UNCHANGED stack /\ reg' = RegisterInsert(I, Here, d)
  BY DEF Binding
<1>2. Here \in 1..reg.scopes /\ Here \in Nat /\ Pos \in Nat /\ WellFormed(reg) /\ t \in Tags
  BY <1>1, StmtWalks
<1>3. /\ Brings(C, reg, Here, Pos, {}) /\ C.scopes \in 1..C.scopes /\ C.scopes \in Nat
      /\ C.scopes > reg.scopes /\ WellFormed(C)
  BY <1>2, MakeChildBrings
<1> HIDE DEF C
<1>4. Brings(I, C, C.scopes, Pos, {})
  BY <1>2, <1>3, ExprBrings
<1>5. Brings(I, reg, Here, Pos, {}) /\ WellFormed(I)
  BY <1>2, <1>3, <1>4, BringsTransitive, BringsFacts
<1> HIDE DEF I
<1>6. d \in Insertable
  BY <1>2, <1>3, <1>5, DescTyped, KidsTyped, ExprIdTyped DEF NameOpt
<1>7. d.tag = t /\ d.pos = Pos /\ RefFound(I, d, Here)
  BY DEF D, RefFound
<1> HIDE DEF d
<1> QED
  BY <1>1, <1>5, <1>6, <1>7, LeafWalks

\* return and expression statements: the expression goes to the same scope.
LEMMA InPlaceWalks ==
    ASSUME Walking, NEW t \in {"Return", "ExprStmt"}, NEW x \in Exprs, InPlace(t, x)
    PROVE  Walked
<1> DEFINE I == RegisterExpr(reg, Here, x, Pos)
           d == D(t, NoName, Pos, <<>>, ExprId(I, x))
<1>1. Stmt(t) /\ UNCHANGED stack /\ reg' = RegisterInsert(I, Here, d)
  BY DEF InPlace
<1>2. Here \in 1..reg.scopes /\ Pos \in Nat /\ WellFormed(reg) /\ t \in Tags
  BY <1>1, StmtWalks
<1>3. Brings(I, reg, Here, Pos, {}) /\ WellFormed(I) /\ (~IsNull(x) => Rooted(I, Here))
  BY <1>2, ExprBrings, BringsFacts
<1> HIDE DEF I
<1>4. d \in Insertable
  BY <1>2, <1>3, DescTyped, NoNameTyped, KidsTyped, ExprIdTyped
<1>5. d.tag = t /\ d.pos = Pos /\ d.expr = ExprId(I, x)
  BY DEF D
<1>6. RefFound(I, d, Here)
  <2>1. d.tag \in {"If", "Elif", "While", "For", "Match", "ExprStmt"} => d.tag = "ExprStmt"
    BY <1>5
  <2> HIDE DEF d
  <2>2. ASSUME ExprId(I, x) # 0
        PROVE  ExprId(I, x) \in IdsOf(I) /\ I.flat[ExprId(I, x)].scope = Here
    BY <1>3, <2>2, ExprIdFound
  <2> QED
    BY <1>5, <2>1, <2>2 DEF RefFound
<1> HIDE DEF d
<1> QED
  BY <1>1, <1>3, <1>4, <1>5, <1>6, LeafWalks

LEMMA AtomicWalks ==
    ASSUME Walking, NEW x \in Exprs, RegisterAtomic(x) PROVE Walked
<1> DEFINE I == RegisterExpr(reg, Here, x, Pos)
           d == D("Atomic", NoName, Pos, <<>>, 0)
<1>1. Stmt("Atomic") /\ UNCHANGED stack /\ reg' = RegisterInsert(I, Here, d)
  BY DEF RegisterAtomic
<1>2. Here \in 1..reg.scopes /\ Pos \in Nat /\ WellFormed(reg)
  BY <1>1, StmtWalks
<1>3. Brings(I, reg, Here, Pos, {})
  BY <1>2, ExprBrings
<1> HIDE DEF I
<1>4. d \in Insertable /\ d.tag = "Atomic" /\ d.pos = Pos /\ RefFound(I, d, Here)
  BY <1>2, DescTyped, NoNameTyped, KidsTyped DEF Tags, StmtTags, D, RefFound
<1> HIDE DEF d
<1> QED
  BY <1>1, <1>3, <1>4, LeafWalks

\* if and elif: the condition goes to the first child, the entry is held by
\* the frame.
LEMMA BeginIfWalks ==
    ASSUME Walking, NEW t \in {"If", "Elif"}, NEW s \in 1..reg.scopes, NEW below,
           StackGood(below, reg), StackWalk(below, reg, src),
           \A p : Waits(below, p) <=> Waits(stack, p), Above(s, below),
           NEW x \in Exprs, NEW pat \in Patterns, NEW hasElse \in BOOLEAN,
           BeginIf(t, s, below, x, pat, hasElse)
    PROVE  Walked
<1> DEFINE C == MakeChild(reg, s)
           T == MakeChild(C, s)
           hasChild == hasElse \/ t = "Elif"
           E == IF hasChild THEN MakeChild(T, s) ELSE T
           I == RegisterPatternCondition(E, C.scopes, x, pat, Pos)
           kids == IF hasChild THEN <<C.scopes, T.scopes, E.scopes>>
                   ELSE <<C.scopes, T.scopes>>
           done == D(t, NoName, Pos, kids, ExprId(I, x))
           kind == IF hasElse THEN "then-else" ELSE "then"
           f == Frame(kind, T.scopes, s, done, NoExpr)
           K == {"Var", "Let"}
<1>1. /\ Meet(t, s, pat.name) /\ reg' = I /\ stack' = Append(below, f)
  BY DEF BeginIf
<1>2. /\ WellFormed(reg) /\ reg.scopes \in Nat \ {0} /\ s \in Nat /\ Pos \in Nat
      /\ pat.name \in NameOpt /\ t \in StmtTags /\ t \notin K
  BY Sizes, WalkingStack DEF Patterns, NameOpt, StmtTags
<1>3. /\ Brings(C, reg, s, Pos, K) /\ C.scopes = reg.scopes + 1 /\ WellFormed(C)
      /\ s \in 1..C.scopes
  BY <1>2, MakeChildBrings
<1> HIDE DEF C
<1>4. /\ Brings(T, C, s, Pos, K) /\ T.scopes = reg.scopes + 2 /\ WellFormed(T)
      /\ s \in 1..T.scopes
  <2>1. /\ Brings(T, C, s, Pos, K) /\ T.scopes = C.scopes + 1 /\ WellFormed(T)
        /\ s \in 1..T.scopes
    BY <1>2, <1>3, MakeChildBrings
  <2> QED
    BY <2>1, <1>2, <1>3
<1> HIDE DEF T
<1>5. /\ Brings(E, T, s, Pos, K) /\ WellFormed(E) /\ E.scopes \in Nat
      /\ E.scopes >= reg.scopes + 2 /\ (hasChild => E.scopes = reg.scopes + 3)
  <2>1. CASE hasChild
    <3>1. E = MakeChild(T, s)
      BY <2>1
    <3>2. Brings(E, T, s, Pos, K) /\ WellFormed(E) /\ E.scopes = T.scopes + 1
      BY <3>1, <1>4, MakeChildBrings
    <3> QED
      BY <3>2, <1>2, <1>4
  <2>2. CASE ~hasChild
    <3>1. E = T
      BY <2>2
    <3> QED
      BY <2>2, <3>1, <1>2, <1>4, BringsNothing
  <2> QED
    BY <2>1, <2>2
<1> HIDE DEF E
<1>6. Brings(T, reg, s, Pos, K)
  BY <1>2, <1>3, <1>4, BringsTransitive
<1>7. Brings(E, reg, s, Pos, K) /\ s \in 1..E.scopes
  <2>1. Brings(E, reg, s, Pos, K)
    BY <1>2, <1>5, <1>6, BringsTransitive
  <2> QED
    BY <2>1, <1>2, BringsFacts
<1>8. C.scopes \in 1..E.scopes /\ C.scopes \in Nat /\ C.scopes > reg.scopes
  BY <1>2, <1>3, <1>5
<1>9. Brings(I, E, C.scopes, Pos, K) /\ (~IsNull(x) => Rooted(I, C.scopes))
  BY <1>2, <1>5, <1>8, PatternBrings
<1> HIDE DEF I
<1>10. Brings(I, reg, s, Pos, K) /\ WellFormed(I)
  BY <1>2, <1>7, <1>8, <1>9, BringsTransitive, BringsFacts
<1>11. /\ T.scopes \in Nat /\ E.scopes \in Nat /\ T.scopes > s /\ (hasChild => E.scopes > s)
  BY <1>2, <1>4, <1>5
<1>12. kids \in Seq(Nat) /\ kids[1] = C.scopes /\ (hasChild => kids[3] = E.scopes)
  <2>1. <<C.scopes, T.scopes, E.scopes>> \in Seq(Nat) /\ <<C.scopes, T.scopes>> \in Seq(Nat)
    BY <1>8, <1>11, KidsTyped
  <2> QED
    BY <2>1
<1> HIDE DEF kids
<1>13. /\ done \in Insertable /\ done.kids = kids /\ done.tag = t /\ done.pos = Pos
       /\ done.expr = ExprId(I, x)
  <2>1. ExprId(I, x) \in Nat /\ t \in Tags
    BY <1>2, <1>10, ExprIdTyped DEF Tags
  <2> QED
    BY <2>1, <1>2, <1>12, DescTyped, NoNameTyped DEF D
<1> HIDE DEF done
<1>14. RefFound(I, done, s)
  <2>1. ASSUME ExprId(I, x) # 0
        PROVE  ExprId(I, x) \in IdsOf(I) /\ I.flat[ExprId(I, x)].scope = C.scopes
    BY <1>9, <2>1, ExprIdFound
  <2> QED
    BY <2>1, <1>12, <1>13 DEF RefFound
<1>15. /\ f.scope = T.scopes /\ f.reg = s /\ f.kind = kind /\ f.entry = done
       /\ f \in FrameType
  <2>1. kind \in FrameKinds /\ done \in DescType /\ NoExpr \in Exprs
    BY <1>13, ExprsAssumption DEF FrameKinds, StmtLoops, Insertable
  <2> QED
    BY <2>1, <1>2, <1>11 DEF Frame, FrameType
<1> HIDE DEF f
<1>16. f.kind \in {"then", "then-else"} /\ (f.kind = "then-else" => hasChild)
  BY <1>15
<1>17. FramePlaced(f, reg', src')
  <2>1. /\ Len(src') = Pos /\ src'[Pos].tag = t /\ src'[Pos].scope = s
        /\ Pos \in 1..Len(src')
    BY <1>1, <1>2, MetExtends, WalkingStack
  <2>2. f.kind \in Inserting
    BY <1>16 DEF Inserting
  <2>3. /\ f.scope > f.reg /\ (f.kind = "then-else" => f.entry.kids[3] > f.reg)
        /\ f.kind \notin {"class", "method", "match"}
    BY <1>11, <1>12, <1>13, <1>15, <1>16
  <2> QED
    BY <1>1, <1>13, <1>14, <1>15, <2>1, <2>2, <2>3 DEF FramePlaced
<1>18. f.kind \in Holding /\ First(f) = s
  BY <1>15, <1>16 DEF First, Holding, Inserting
<1>19. Registers(reg', reg, s, Pos) /\ Statements(reg', reg, K)
  BY <1>1, <1>2, <1>10, BringsRegisters
<1>20. \A i \in New(reg', reg) : reg'.flat[i].tag # t
  BY <1>2, <1>19 DEF Statements
<1>21. f.entry.tag # "none" /\ f.entry.pos = Pos
  BY <1>13, <1>15
<1> QED
  BY <1>1, <1>2, <1>15, <1>17, <1>18, <1>19, <1>20, <1>21, MetPush

LEMMA IfWalks ==
    ASSUME Walking, NEW x \in Exprs, NEW pat \in Patterns, NEW hasElse \in BOOLEAN,
           RegisterIf(x, pat, hasElse)
    PROVE  Walked
<1>1. CanStart("If") /\ stack # <<>> /\ BeginIf("If", Here, stack, x, pat, hasElse)
  BY DEF RegisterIf, CanStart
<1>2. Here \in 1..reg.scopes /\ Above(Here, stack)
  BY <1>1, WalkingTop, HereAbove DEF Here
<1>3. StackGood(stack, reg) /\ StackWalk(stack, reg, src)
  BY WalkingStack
<1> QED
  BY <1>1, <1>2, <1>3, BeginIfWalks

LEMMA ElifWalks ==
    ASSUME Walking, NEW x \in Exprs, NEW pat \in Patterns, NEW hasElse \in BOOLEAN,
           RegisterElif(x, pat, hasElse)
    PROVE  Walked
<1>1. In("then-else") /\ BeginIf("Elif", ElseChild, AfterElse, x, pat, hasElse)
  BY DEF RegisterElif
<1> QED
  BY <1>1, ElseWalks, BeginIfWalks

LEMMA SkipElseWalks == ASSUME Walking, SkipElse PROVE Walked
<1>1. /\ In("then-else") /\ Meet("Else", ElseChild, NoName)
      /\ stack' = AfterElse /\ reg' = reg
  BY DEF SkipElse
<1>2. /\ StackGood(stack', reg) /\ StackWalk(stack', reg, src) /\ Above(ElseChild, stack')
      /\ \A p : Waits(stack', p) <=> Waits(stack, p)
      /\ ElseChild \in 1..reg.scopes
  BY <1>1, ElseWalks
<1>3. Registers(reg', reg, ElseChild, Pos)
  <2>1. Brings(reg, reg, ElseChild, Pos, {})
    BY WalkingStack, BringsNothing
  <2> QED
    BY <1>1, <2>1, WalkingStack, BringsRegisters
<1>4. "Else" \in StmtTags /\ NoName \in NameOpt
  BY NoNameTyped DEF StmtTags
<1> QED
  BY <1>1, <1>2, <1>3, <1>4, MetLeaf

\* A loop has inserted its entry, and its body is a fresh scope.
LEMMA LoopWalks ==
    ASSUME Walking, NEW t \in {"While", "For"}, NEW x \in Exprs, BeginLoop(t, x)
    PROVE  Walked
<1> DEFINE s == Here
           C == MakeChild(reg, s)
           B == MakeChild(C, s)
           I == RegisterExpr(B, C.scopes, x, Pos)
           d == D(t, NoName, Pos, <<C.scopes, B.scopes>>, ExprId(I, x))
           L == RegisterInsert(I, s, d)
           Q == SetOwner(L, B.scopes, LastId(L))
           f == Body(B.scopes)
<1>1. Stmt(t) /\ reg' = Q /\ stack' = Append(stack, f)
  BY DEF BeginLoop, Push
<1>2. /\ s \in 1..reg.scopes /\ s \in Nat /\ Pos \in Nat /\ WellFormed(reg)
      /\ t \in StmtTags /\ t \in Tags /\ reg.scopes \in Nat
      /\ Meet(t, s, NoName) /\ NoName \in NameOpt /\ Above(s, stack)
  BY <1>1, StmtWalks
<1>3. Grows(Q, reg) /\ B.scopes \in 1..Q.scopes
  BY <1>2, LoopGrows, SMTT(30)
<1>4. /\ Q.flat = L.flat /\ Q.next = L.next
      /\ \A u : u # B.scopes => Q.owner[u] = L.owner[u]
  BY DEF SetOwner
<1> HIDE DEF Q
<1>5. /\ Brings(C, reg, s, Pos, {}) /\ C.scopes = reg.scopes + 1 /\ WellFormed(C)
      /\ s \in 1..C.scopes
  BY <1>2, MakeChildBrings
<1> HIDE DEF C
<1>6. /\ Brings(B, C, s, Pos, {}) /\ B.scopes = reg.scopes + 2 /\ WellFormed(B)
  <2>1. Brings(B, C, s, Pos, {}) /\ B.scopes = C.scopes + 1 /\ WellFormed(B)
    BY <1>2, <1>5, MakeChildBrings
  <2> QED
    BY <2>1, <1>2, <1>5
<1> HIDE DEF B
<1>7. /\ C.scopes \in 1..B.scopes /\ C.scopes \in Nat /\ C.scopes > reg.scopes
      /\ B.scopes \in Nat /\ B.scopes > reg.scopes
  BY <1>2, <1>5, <1>6
<1>8. Brings(I, B, C.scopes, Pos, {}) /\ (~IsNull(x) => Rooted(I, C.scopes))
  BY <1>2, <1>6, <1>7, ExprBrings
<1> HIDE DEF I
<1>9. Brings(B, reg, s, Pos, {})
  BY <1>2, <1>5, <1>6, BringsTransitive
<1>10. Brings(I, reg, s, Pos, {}) /\ WellFormed(I)
  BY <1>2, <1>7, <1>8, <1>9, BringsTransitive, BringsFacts
<1>11. d \in Insertable /\ d.tag = t /\ d.pos = Pos /\ d.kids[1] = C.scopes
       /\ d.expr = ExprId(I, x)
  <2>1. <<C.scopes, B.scopes>> \in Seq(Nat) /\ ExprId(I, x) \in Nat
    BY <1>7, <1>10, KidsTyped, ExprIdTyped
  <2> QED
    BY <2>1, <1>2, DescTyped, NoNameTyped DEF D
<1> HIDE DEF d
<1>12. RefFound(I, d, s)
  <2>1. ASSUME ExprId(I, x) # 0
        PROVE  ExprId(I, x) \in IdsOf(I) /\ I.flat[ExprId(I, x)].scope = C.scopes
    BY <1>8, <2>1, ExprIdFound
  <2>2. d.tag # "ExprStmt"
    BY <1>11
  <2> QED
    BY <2>1, <2>2, <1>11 DEF RefFound
<1>13. /\ Registers(L, reg, s, Pos) /\ OwnEntry(L, reg, s, Pos, t, I.next)
       /\ \A i \in New(L, reg) : L.flat[i].tag # "Param"
  BY <1>2, <1>10, <1>11, <1>12, OwnInsert
<1> HIDE DEF L
<1>14. OwnersKept(Q, reg)
  BY <1>2, <1>4, <1>7, <1>13 DEF Registers, OwnersKept
<1>15. Registers(reg', reg, s, Pos) /\ \E o : OwnEntry(reg', reg, s, Pos, t, o)
  BY <1>1, <1>3, <1>4, <1>13, <1>14, SameEntries
<1>16. /\ f \in FrameType /\ f.kind = "body" /\ f.entry.tag = "none"
       /\ f.scope = B.scopes
  <2>1. NoEntry \in DescType /\ NoExpr \in Exprs
    BY NoEntryTyped DEF NoEntry
  <2> QED
    BY <2>1, <1>7 DEF Body, Frame, FrameType, FrameKinds, StmtLoops, NoEntry, D
<1> HIDE DEF f
<1>17. FramePlaced(f, reg', src') /\ f.kind \notin Holding /\ First(f) = B.scopes
  BY <1>16 DEF FramePlaced, RefFound, Holding, Inserting, First
<1>18. Above(B.scopes, stack) /\ StackGood(stack, reg) /\ StackWalk(stack, reg, src)
  BY <1>7, FreshAbove, WalkingStack
<1> QED
  BY <1>1, <1>2, <1>15, <1>16, <1>17, <1>18, MetPush, ZenonT(30)

\* The handler holds the entry of the statement in the scope it found it in.
LEMMA HoldWalks ==
    ASSUME Walking, NEW t, Stmt(t), Registers(reg', reg, Here, Pos),
           Statements(reg', reg, {}), NEW f \in FrameType,
           f.kind \in Inserting, f.kind \notin {"then", "then-else"},
           f.reg = Here, f.entry.tag = t, f.entry.pos = Pos,
           t \notin {"Function", "Class", "ExprStmt"},
           f.kind = "module" => f.scope > f.reg, f.kind = "match" => f.entry.kids # <<>>,
           f.kind = "extern" => reg'.owner[f.scope] = 0,
           RefFound(reg', f.entry, Here), stack' = Push(f)
    PROVE  Walked
<1>1. /\ Here \in 1..reg.scopes /\ t \in StmtTags /\ Meet(t, Here, NoName)
      /\ NoName \in NameOpt /\ Above(Here, stack)
  BY StmtWalks
<1>2. /\ StackGood(stack, reg) /\ StackWalk(stack, reg, src)
      /\ Pos = Len(src) + 1 /\ Len(src) \in Nat
  BY WalkingStack
<1>3. src'[Pos].tag = t /\ src'[Pos].scope = Here /\ Pos \in 1..Len(src')
  BY <1>1, <1>2, MetExtends
<1>4. f.kind \notin {"class", "method"} /\ f.kind \in Holding /\ First(f) = Here
  BY DEF Holding, Inserting, First
<1>5. FramePlaced(f, reg', src')
  BY <1>3, <1>4 DEF FramePlaced
<1>6. t # "none" /\ \A i \in New(reg', reg) : reg'.flat[i].tag # t
  BY <1>1 DEF Statements, StmtTags
<1> QED
  BY <1>1, <1>2, <1>4, <1>5, <1>6, MetPush DEF Push

LEMMA MatchWalks == ASSUME Walking, NEW x \in Exprs, RegisterMatch(x) PROVE Walked
<1> DEFINE s == Here
           C == MakeChild(reg, s)
           E == MakeChild(C, s)
           I == RegisterExpr(E, C.scopes, x, Pos)
           d == D("Match", NoName, Pos, <<C.scopes, E.scopes>>, ExprId(I, x))
           f == Frame("match", s, s, d, NoExpr)
<1>1. Stmt("Match") /\ reg' = I /\ stack' = Push(f)
  BY DEF RegisterMatch
<1>2. /\ s \in 1..reg.scopes /\ s \in Nat /\ Pos \in Nat /\ WellFormed(reg)
      /\ reg.scopes \in Nat
  BY <1>1, StmtWalks
<1>3. /\ Brings(C, reg, s, Pos, {}) /\ C.scopes = reg.scopes + 1 /\ WellFormed(C)
      /\ s \in 1..C.scopes
  BY <1>2, MakeChildBrings
<1> HIDE DEF C
<1>4. /\ Brings(E, C, s, Pos, {}) /\ E.scopes = reg.scopes + 2 /\ WellFormed(E)
  <2>1. Brings(E, C, s, Pos, {}) /\ E.scopes = C.scopes + 1 /\ WellFormed(E)
    BY <1>2, <1>3, MakeChildBrings
  <2> QED
    BY <2>1, <1>2, <1>3
<1> HIDE DEF E
<1>5. /\ C.scopes \in 1..E.scopes /\ C.scopes \in Nat /\ C.scopes > reg.scopes
      /\ E.scopes \in Nat
  BY <1>2, <1>3, <1>4
<1>6. Brings(I, E, C.scopes, Pos, {}) /\ (~IsNull(x) => Rooted(I, C.scopes))
  BY <1>2, <1>4, <1>5, ExprBrings
<1> HIDE DEF I
<1>7. Brings(E, reg, s, Pos, {})
  BY <1>2, <1>3, <1>4, BringsTransitive
<1>8. Brings(I, reg, s, Pos, {}) /\ WellFormed(I)
  BY <1>2, <1>5, <1>6, <1>7, BringsTransitive, BringsFacts
<1>9. /\ d \in DescType /\ d.tag = "Match" /\ d.pos = Pos /\ d.kids[1] = C.scopes
      /\ d.kids # <<>> /\ d.expr = ExprId(I, x)
  <2>1. <<C.scopes, E.scopes>> \in Seq(Nat) /\ ExprId(I, x) \in Nat
    BY <1>5, <1>8, KidsTyped, ExprIdTyped
  <2>2. "Match" \in Tags
    BY DEF Tags, StmtTags
  <2> QED
    BY <2>1, <2>2, <1>2, DescTyped, NoNameTyped DEF D, Insertable
<1> HIDE DEF d
<1>10. RefFound(I, d, s)
  <2>1. ASSUME ExprId(I, x) # 0
        PROVE  ExprId(I, x) \in IdsOf(I) /\ I.flat[ExprId(I, x)].scope = C.scopes
    BY <1>6, <2>1, ExprIdFound
  <2> QED
    BY <2>1, <1>9 DEF RefFound
<1>11. /\ f \in FrameType /\ f.kind = "match" /\ f.reg = s /\ f.entry = d
  <2>1. NoExpr \in Exprs
    BY ExprsAssumption
  <2> QED
    BY <2>1, <1>2, <1>9 DEF Frame, FrameType, FrameKinds
<1> HIDE DEF f
<1>12. Registers(reg', reg, s, Pos) /\ Statements(reg', reg, {})
  BY <1>1, <1>2, <1>8, BringsRegisters
<1>13. f.kind \in Inserting
  BY <1>11 DEF Inserting
<1> QED
  BY <1>1, <1>9, <1>10, <1>11, <1>12, <1>13, HoldWalks

\* The top frame after one more iteration.
LEMMA SteppedWalks ==
    ASSUME Walking, stack # <<>>
    PROVE  /\ Stepped \in FrameType /\ Alike(Stepped, Top)
           /\ Stepped.kind = Top.kind /\ Stepped.scope = Top.scope
           /\ Stepped.reg = Top.reg /\ Stepped.entry = Top.entry
           /\ \A R, q : FramePlaced(Top, R, q) => FramePlaced(Stepped, R, q)
<1>1. Top \in FrameType
  BY WalkingTop
<1>2. /\ Stepped \in FrameType /\ Stepped.kind = Top.kind /\ Stepped.scope = Top.scope
      /\ Stepped.reg = Top.reg /\ Stepped.entry = Top.entry
  BY <1>1 DEF Stepped, FrameType
<1>3. Alike(Stepped, Top)
  BY <1>2 DEF Alike, First
<1>4. \A R, q : FramePlaced(Top, R, q) => FramePlaced(Stepped, R, q)
  BY <1>2 DEF FramePlaced
<1> QED
  BY <1>2, <1>3, <1>4

\* The top frame stays placed when the registers grow.
LEMMA TopPlaced ==
    ASSUME Walking, stack # <<>>, Grows(reg', reg), OwnersKept(reg', reg), src' = src
    PROVE  FramePlaced(Top, reg', src')
<1>1. SrcGood(src) /\ Len(src) \in Nat /\ WellFormed(reg)
  BY WalkingStack
<1>2. Extends(src', src)
  BY <1>1 DEF Extends
<1>3. Top.scope \in 1..reg.scopes
  BY TopFacts DEF Walking
<1> QED
  BY <1>1, <1>2, <1>3, WalkingTop, FramePlacedKept

\* Changing what a frame still has to do leaves the stack good.
LEMMA SetGood ==
    ASSUME Walking, stack # <<>>, Top.kind # "then-else", NEW f \in FrameType,
           f.kind = Top.kind, f.scope = Top.scope, f.reg = Top.reg,
           f.entry.tag = Top.entry.tag
    PROVE  StackGood(SetTop(f), reg)
<1>1. FrameOK(Top, reg)
  BY TopFacts DEF Walking
<1>2. FrameOK(f, reg)
  BY <1>1 DEF FrameOK
<1> QED
  BY <1>2, StackSet DEF Walking, Good, SetTop

\* The frame of a body.
LEMMA BodyWalks ==
    ASSUME NEW s \in Nat, NEW R, NEW q
    PROVE  /\ Body(s) \in FrameType /\ Body(s).kind = "body" /\ Body(s).entry.tag = "none"
           /\ Body(s).kind \notin Holding /\ First(Body(s)) = s
           /\ FramePlaced(Body(s), R, q)
<1> DEFINE f == Body(s)
<1>1. NoEntry \in DescType /\ NoExpr \in Exprs
  BY NoEntryTyped DEF NoEntry
<1>2. f \in FrameType /\ f.kind = "body" /\ f.entry.tag = "none" /\ f.scope = s
  BY <1>1 DEF Body, Frame, FrameType, FrameKinds, StmtLoops, NoEntry, D
<1> HIDE DEF f
<1>3. f.kind \notin Holding /\ First(f) = s /\ FramePlaced(f, R, q)
  BY <1>2 DEF FramePlaced, RefFound, Holding, Inserting, First
<1> QED
  BY <1>2, <1>3 DEF f

LEMMA ArmWalks == ASSUME Walking, BeginArm PROVE Walked
<1> DEFINE c == reg'.scopes
           d == [Top.entry EXCEPT !.kids = Append(@, c)]
           f == [Stepped EXCEPT !.entry.kids = Append(@, c)]
           g == Body(c)
           p == Top.entry.pos
<1>1. /\ stack # <<>> /\ Top.kind = "match" /\ reg' = MakeChild(reg, Top.reg)
      /\ stack' = Append(SetTop(f), g) /\ src' = src
  BY DEF BeginArm, More, In
<1>2. /\ Top \in FrameType /\ Top.reg \in 1..reg.scopes /\ WellFormed(reg)
      /\ reg.scopes \in Nat /\ FramePlaced(Top, reg, src) /\ Top.entry \in DescType
  BY <1>1, WalkingTop, WalkingStack, Sizes DEF FrameType
<1>3. /\ Brings(reg', reg, Top.reg, p, {}) /\ New(reg', reg) = {}
      /\ c \in Nat /\ c > reg.scopes
  BY <1>1, <1>2, MakeChildBrings
<1>4. /\ Registers(reg', reg, Top.reg, p) /\ Statements(reg', reg, {})
      /\ Grows(reg', reg) /\ OwnersKept(reg', reg)
  BY <1>2, <1>3, BringsRegisters DEF Registers
<1>5. FramePlaced(Top, reg', src')
  BY <1>1, <1>4, TopPlaced
<1>6. /\ Stepped \in FrameType /\ Stepped.kind = "match" /\ Stepped.scope = Top.scope
      /\ Stepped.reg = Top.reg /\ Stepped.entry = Top.entry
  BY <1>1, SteppedWalks
<1>7. /\ d \in DescType /\ d.tag = Top.entry.tag /\ d.pos = p /\ d.expr = Top.entry.expr
      /\ d.kids # <<>> /\ d.kids[1] = Top.entry.kids[1]
  <2>1. Top.entry.kids \in Seq(Nat) /\ Top.entry.kids # <<>>
    BY <1>1, <1>2 DEF FramePlaced, DescType
  <2>2. /\ Append(Top.entry.kids, c) \in Seq(Nat) /\ Append(Top.entry.kids, c) # <<>>
        /\ Append(Top.entry.kids, c)[1] = Top.entry.kids[1]
    BY <2>1, <1>3
  <2> QED
    BY <2>2, <1>2 DEF DescType
<1>8. f = [Stepped EXCEPT !.entry = d]
  BY <1>6 DEF FrameType, DescType
<1> HIDE DEF d, f, c
<1>9. /\ f \in FrameType /\ f.kind = "match" /\ f.entry = d
      /\ f.scope = Top.scope /\ f.reg = Top.reg
  BY <1>6, <1>7, <1>8 DEF FrameType
<1>10. Alike(f, Top)
  BY <1>1, <1>7, <1>9 DEF Alike, First
<1>11. FramePlaced(f, reg', src')
  <2>1. RefFound(reg', d, Top.reg)
    BY <1>5, <1>7 DEF FramePlaced, RefFound
  <2> QED
    BY <1>1, <1>5, <1>7, <1>9, <2>1 DEF FramePlaced
<1>12. /\ g \in FrameType /\ FramePlaced(g, reg', src') /\ g.entry.tag = "none"
       /\ g.kind \notin Holding /\ First(g) > reg.scopes
  BY <1>3, BodyWalks
<1> HIDE DEF g
<1>13. StackGood(SetTop(f), reg)
  BY <1>1, <1>7, <1>9, SetGood
<1>14. \A i \in New(reg', reg) : reg'.flat[i].tag # src[p].tag
  BY <1>3
<1> QED
  BY <1>1, <1>3, <1>4, <1>10, <1>9, <1>11, <1>12, <1>13, <1>14, IterPushWalks

-----------------------------------------------------------------------------
(* Functions, classes and traits.                                          *)

\* The entry of a function, and its child scope.
LEMMA CallableOwn ==
    ASSUME NEW R, WellFormed(R), NEW s \in 1..R.scopes, NEW n \in NameOpt, NEW p \in Nat
    PROVE  LET Q == BeginCallable(R, s, n, p) IN
           /\ Registers(Q, R, s, p) /\ OwnEntry(Q, R, s, p, "Function", R.next)
           /\ Q.scopes = R.scopes + 1 /\ Q.scopes \in Nat /\ Q.scopes > R.scopes
           /\ New(Q, R) = {R.next} /\ Q.flat[R.next].name = n
           /\ n \in Name /\ R.names[s][n] = 0 => Q.names[s][n] = R.next
           /\ ParamsOnly(Q, Q.scopes)
<1> DEFINE C == MakeChild(R, s)
           d == D("Function", n, p, <<C.scopes>>, 0)
           F == RegisterInsert(C, s, d)
           Q == SetOwner(F, C.scopes, LastId(F))
<1>1. Q = BeginCallable(R, s, n, p)
  BY DEF BeginCallable
<1>2. Grows(Q, R) /\ Q.scopes = R.scopes + 1 /\ R.scopes \in Nat
  BY <1>1, CallableGrows, Sizes
<1>3. /\ Q.flat = F.flat /\ Q.next = F.next
      /\ \A u : u # C.scopes => Q.owner[u] = F.owner[u]
  BY DEF SetOwner
<1>4. C.next = R.next
  BY DEF MakeChild
<1> HIDE DEF Q
<1>5. /\ Brings(C, R, s, p, {}) /\ C.scopes \in Nat /\ C.scopes > R.scopes
      /\ New(C, R) = {}
  BY MakeChildBrings
<1> HIDE DEF C
<1>6. d \in Insertable /\ d.tag = "Function" /\ d.tag \in StmtTags /\ d.pos = p
      /\ d.name = n
  BY <1>5, DescTyped, KidsTyped DEF Tags, StmtTags, D
<1>7. RefFound(C, d, s)
  BY <1>6 DEF RefFound
<1> HIDE DEF d
<1>8. /\ Registers(F, R, s, p) /\ OwnEntry(F, R, s, p, "Function", R.next)
      /\ New(F, R) = {R.next} /\ F.flat[R.next].name = n
      /\ \A i \in New(F, R) : F.flat[i].tag # "Param"
  BY <1>4, <1>5, <1>6, <1>7, OwnInsert
<1> HIDE DEF F
<1>9. OwnersKept(Q, R)
  BY <1>2, <1>3, <1>5, <1>8 DEF Registers, OwnersKept
<1>10. /\ Registers(Q, R, s, p) /\ OwnEntry(Q, R, s, p, "Function", R.next)
       /\ New(Q, R) = {R.next} /\ Q.flat[R.next].name = n
  BY <1>2, <1>3, <1>8, <1>9, SameEntries
<1>11. /\ WellFormed(Q) /\ Follows(Q, R) /\ IdsOf(Q) = IdsOf(R) \cup {R.next}
       /\ \A i \in IdsOf(R) : Q.flat[i] = R.flat[i] /\ R.flat[i].scope \in 1..R.scopes
       /\ R.next \in IdsOf(Q) /\ R.next \in Nat /\ RegisterOK(Q) /\ NamesOK(Q)
  BY <1>10, RegistersFacts, Sizes DEF New, WellFormed
<1>12. ASSUME n \in Name, R.names[s][n] = 0 PROVE Q.names[s][n] = R.next
  <2>1. Q.names[s][n] \in 1..R.next
    BY <1>10, <1>11, <1>12 DEF NamesOK, OwnEntry
  <2>2. Q.names[s][n] # R.names[s][n]
    BY <1>11, <1>12, <2>1
  <2>3. Q.names[s][n] \in IdsOf(Q) \ IdsOf(R)
    BY <1>11, <1>12, <2>2, NewName
  <2> QED
    BY <1>11, <2>3
<1>13. ParamsOnly(Q, Q.scopes)
  <2>1. Q.flat[R.next].scope = s /\ s < Q.scopes
    BY <1>2, <1>10 DEF OwnEntry
  <2> QED
    BY <1>2, <1>11, <2>1 DEF ParamsOnly
<1> QED
  BY <1>1, <1>2, <1>10, <1>12, <1>13

\* A frame that inserts nothing.
LEMMA EmptyFrame ==
    ASSUME NEW f \in FrameType, f.kind \in {"params", "method", "signature"},
           f.entry.tag = "none", NEW R, NEW q, f.entry.pos \in 1..Len(q),
           f.kind = "method" => q[f.entry.pos].tag = "Class"
    PROVE  FramePlaced(f, R, q) /\ f.kind \notin Holding /\ First(f) = f.scope
<1>1. f.kind \notin Holding /\ f.kind \notin Inserting /\ First(f) = f.scope
  BY DEF Holding, Inserting, First
<1>2. FramePlaced(f, R, q)
  BY <1>1 DEF FramePlaced, RefFound
<1> QED
  BY <1>1, <1>2

LEMMA FunctionWalks ==
    ASSUME Walking, NEW n \in Name, NEW dflt \in Exprs, RegisterFunction(n, dflt)
    PROVE  Walked
<1> DEFINE d == D("none", NoName, Pos, <<>>, 0)
           f == Frame("params", reg'.scopes, Here, d, dflt)
<1>1. /\ Stmt("Function") /\ reg' = BeginCallable(reg, Here, n, Pos)
      /\ stack' = Append(stack, f)
  BY DEF RegisterFunction, Push
<1>2. /\ Here \in 1..reg.scopes /\ Here \in Nat /\ Pos \in Nat /\ WellFormed(reg)
      /\ "Function" \in StmtTags /\ Meet("Function", Here, NoName)
      /\ NoName \in NameOpt /\ n \in NameOpt /\ Above(Here, stack)
  BY <1>1, StmtWalks DEF NameOpt
<1>3. /\ Registers(reg', reg, Here, Pos)
      /\ OwnEntry(reg', reg, Here, Pos, "Function", reg.next)
      /\ reg'.scopes \in Nat /\ reg'.scopes > reg.scopes
  BY <1>1, <1>2, CallableOwn
<1>4. /\ StackGood(stack, reg) /\ StackWalk(stack, reg, src)
      /\ Pos = Len(src) + 1 /\ Len(src) \in Nat
  BY WalkingStack
<1>5. Len(src') = Pos
  BY <1>2, MetExtends
<1>6. d \in DescType /\ d.tag = "none" /\ d.pos \in 1..Len(src')
  BY <1>2, <1>4, <1>5, NoEntryTyped DEF D
<1> HIDE DEF d
<1>7. f \in FrameType /\ f.kind = "params" /\ f.entry = d /\ f.scope = reg'.scopes
  BY <1>2, <1>3, <1>6 DEF Frame, FrameType, FrameKinds
<1> HIDE DEF f
<1>8. /\ FramePlaced(f, reg', src') /\ f.entry.tag = "none"
      /\ f.kind \notin Holding /\ First(f) = reg'.scopes
  BY <1>6, <1>7, EmptyFrame
<1>9. Above(First(f), stack)
  BY <1>2, <1>3, <1>4, <1>8, FreshAbove
<1> QED
  BY <1>1, <1>2, <1>3, <1>4, <1>8, <1>9, <1>7, MetPush

LEMMA ClassWalks == ASSUME Walking, NEW n \in Name, RegisterClass(n) PROVE Walked
<1> DEFINE c == D("Class", n, Pos, <<>>, 0)
           d == D("none", NoName, Pos, <<>>, 0)
           f == Frame("class", Here, Here, d, NoExpr)
<1>1. /\ Stmt("Class") /\ reg' = RegisterInsert(reg, Here, c)
      /\ stack' = Append(stack, f)
  BY DEF RegisterClass, Push
<1>2. /\ Here \in 1..reg.scopes /\ Here \in Nat /\ Pos \in Nat /\ WellFormed(reg)
      /\ "Class" \in StmtTags /\ Meet("Class", Here, NoName)
      /\ NoName \in NameOpt /\ Above(Here, stack) /\ Brings(reg, reg, Here, Pos, {})
  BY <1>1, StmtWalks
<1>3. c \in Insertable /\ c.tag = "Class" /\ c.pos = Pos /\ RefFound(reg, c, Here)
  BY <1>2, DescTyped, KidsTyped DEF Tags, StmtTags, NameOpt, D, RefFound
<1> HIDE DEF c
<1>4. Registers(reg', reg, Here, Pos) /\ OwnEntry(reg', reg, Here, Pos, "Class", reg.next)
  BY <1>1, <1>2, <1>3, OwnInsert
<1>5. /\ StackGood(stack, reg) /\ StackWalk(stack, reg, src)
      /\ Pos = Len(src) + 1 /\ Len(src) \in Nat
  BY WalkingStack
<1>6. Pos \in 1..Len(src') /\ src'[Pos].tag = "Class"
  BY <1>2, <1>5, MetExtends
<1>7. d \in DescType /\ d.tag = "none" /\ d.pos = Pos /\ NoExpr \in Exprs
  BY <1>2, NoEntryTyped DEF D
<1> HIDE DEF d
<1>8. f \in FrameType /\ f.kind = "class" /\ f.reg = Here /\ f.entry = d
  BY <1>2, <1>7 DEF Frame, FrameType, FrameKinds
<1> HIDE DEF f
<1>9. First(f) = Here /\ f.kind \notin Inserting
  BY <1>8 DEF First, Holding, Inserting
<1>10. FramePlaced(f, reg', src')
  BY <1>6, <1>7, <1>8, <1>9 DEF FramePlaced, RefFound
<1> QED
  BY <1>1, <1>2, <1>4, <1>5, <1>7, <1>8, <1>9, <1>10, MetPush

LEMMA TraitWalks == ASSUME Walking, NEW n \in Name, RegisterTrait(n) PROVE Walked
<1> DEFINE d == D("Trait", n, Pos, <<>>, 0)
           f == Frame("trait", Here, Here, d, NoExpr)
<1>1. Stmt("Trait") /\ reg' = reg /\ stack' = Push(f)
  BY DEF RegisterTrait
<1>2. /\ Here \in Nat /\ Pos \in Nat /\ WellFormed(reg) /\ Brings(reg, reg, Here, Pos, {})
  BY <1>1, StmtWalks
<1>3. Registers(reg', reg, Here, Pos) /\ Statements(reg', reg, {})
  BY <1>1, <1>2, BringsRegisters
<1>4. d \in DescType /\ d.tag = "Trait" /\ d.pos = Pos /\ NoExpr \in Exprs
  BY <1>2, NoEntryTyped, DescTyped, KidsTyped DEF Tags, StmtTags, NameOpt, Insertable, D
<1> HIDE DEF d
<1>5. /\ f \in FrameType /\ f.kind = "trait" /\ f.reg = Here /\ f.entry = d
  BY <1>2, <1>4 DEF Frame, FrameType, FrameKinds
<1> HIDE DEF f
<1>6. RefFound(reg', d, Here) /\ f.kind \in Inserting
  BY <1>4, <1>5 DEF RefFound, Inserting
<1> QED
  BY <1>1, <1>3, <1>4, <1>5, <1>6, HoldWalks

\* A method: its entry goes to the Register of the class or trait, which has
\* not got a statement behind this one.
LEMMA MethodsWalk ==
    ASSUME Walking, stack # <<>>, Top.kind \in {"class", "trait"}, NEW n \in Name,
           reg' = BeginCallable(reg, Top.reg, n, Top.entry.pos), src' = src,
           NEW kind \in {"method", "signature"},
           kind = "method" <=> Top.kind = "class",
           kind = "method" => reg.names[Top.reg][n] = 0,
           NEW d \in DescType, d.tag = "none", d.pos = Top.entry.pos, NEW x \in Exprs,
           stack' = Append(SetTop(Stepped), Frame(kind, reg'.scopes, Top.reg, d, x))
    PROVE  Walked
<1> DEFINE p == Top.entry.pos
           s == Top.reg
           g == Frame(kind, reg'.scopes, s, d, x)
<1>1. /\ s \in 1..reg.scopes /\ s \in Nat /\ WellFormed(reg) /\ n \in NameOpt
      /\ FramePlaced(Top, reg, src) /\ p \in Nat
  BY WalkingTop, WalkingStack, TopFacts DEF NameOpt, FrameType, Walking
<1>2. p \in 1..Len(src) /\ src[p].tag # "Function"
      /\ (Top.kind = "class" => src[p].tag = "Class")
      /\ (Top.kind = "trait" => src[p].tag # "Class")
  BY <1>1 DEF FramePlaced, Inserting
<1>3. /\ Registers(reg', reg, s, p) /\ OwnEntry(reg', reg, s, p, "Function", reg.next)
      /\ reg'.scopes \in Nat /\ reg'.scopes > reg.scopes
      /\ New(reg', reg) = {reg.next} /\ reg'.flat[reg.next].name = n
      /\ reg.names[s][n] = 0 => reg'.names[s][n] = reg.next
  BY <1>1, CallableOwn
<1>4. SrcGood(src) /\ src[p].tag \in StmtTags
  BY <1>2, WalkingStack, StatementTyped
<1>5. \A i \in New(reg', reg) : reg'.flat[i].tag # src[p].tag
  BY <1>2, <1>3, <1>4, SMTT(30) DEF OwnEntry
<1>6. FramePlaced(Stepped, reg', src')
  BY <1>3, TopPlaced, SteppedWalks DEF Registers
<1>7. Stepped \in FrameType /\ Alike(Stepped, Top) /\ StackGood(SetTop(Stepped), reg)
  BY SteppedWalks, SetGood
<1>11. stack' = Append(SetTop(Stepped), g)
  OBVIOUS
<1>10. g \in FrameType /\ g.kind = kind /\ g.entry = d /\ g.scope = reg'.scopes
  BY <1>1, <1>3 DEF Frame, FrameType, FrameKinds
<1> HIDE DEF g
<1>8. /\ FramePlaced(g, reg', src') /\ g.entry.tag = "none"
      /\ g.kind \notin Holding /\ First(g) = reg'.scopes
  BY <1>2, <1>10, EmptyFrame
<1>9. Top.kind \in Holding /\ Top.kind # "body"
  BY DEF Holding, Inserting
<1>12. ASSUME NEW i \in New(reg', reg), src[p].tag = "Class"
       PROVE  /\ reg'.flat[i].name \in Name
              /\ reg'.names[reg'.flat[i].scope][reg'.flat[i].name] = i
  BY <1>2, <1>3, <1>12 DEF OwnEntry
<1> QED
  BY <1>12, <1>3, <1>5, <1>6, <1>7, <1>8, <1>9, <1>10, <1>11, IterPushWalks

LEMMA MethodWalks ==
    ASSUME Walking, NEW n \in Name, NEW dflt \in Exprs, RegisterMethod(n, dflt)
    PROVE  Walked
<1>1. /\ stack # <<>> /\ Top.kind = "class"
      /\ reg' = BeginCallable(reg, Top.reg, n, Top.entry.pos)
      /\ stack' = Append(SetTop(Stepped),
                         Frame("method", reg'.scopes, Top.reg, Top.entry, dflt))
      /\ src' = src
      /\ RegisterGet(reg, Top.reg, n) = 0
  BY DEF RegisterMethod, More, In, UniqueName
<1>2. Top.entry \in DescType /\ Top.entry.tag = "none"
  BY <1>1, WalkingTop DEF FrameType, FramePlaced, Inserting
<1>3. reg.names[Top.reg][n] = 0
  <2>1. RegisterOK(reg) /\ Top.reg \in 1..reg.scopes /\ Top.reg # 0
    BY <1>1, WalkingTop, WalkingStack, Sizes
  <2>2. Top.reg \in 0..reg.scopes
    BY <2>1
  <2> QED
    BY <1>1, <2>1, <2>2, GetUnfolds
<1> QED
  BY <1>1, <1>2, <1>3, MethodsWalk

LEMMA TraitMethodWalks ==
    ASSUME Walking, NEW n \in Name, NEW dflt \in Exprs, RegisterTraitMethod(n, dflt)
    PROVE  Walked
<1> DEFINE d == D("none", NoName, Top.entry.pos, <<>>, 0)
<1>1. /\ stack # <<>> /\ Top.kind = "trait"
      /\ reg' = BeginCallable(reg, Top.reg, n, Top.entry.pos)
      /\ stack' = Append(SetTop(Stepped), Frame("signature", reg'.scopes, Top.reg, d, dflt))
      /\ src' = src
  BY DEF RegisterTraitMethod, More, In
<1>2. Top.entry.pos \in Nat
  BY <1>1, TopFacts DEF Walking
<1>3. d \in DescType /\ d.tag = "none" /\ d.pos = Top.entry.pos
  BY <1>2, NoEntryTyped DEF D
<1> HIDE DEF d
<1> QED
  BY <1>1, <1>3, MethodsWalk

\* Iterations of the handlers that only insert parameters, variants and the like.
LEMMA PartWalks ==
    ASSUME Walking, stack # <<>>, Top.kind \notin {"body", "then-else"}, src' = src, NEW s,
           NEW T, T \subseteq {"Param", "EnumVariant", "ExternFunc"},
           Brings(reg', reg, s, Top.entry.pos, T),
           \A i \in New(reg', reg) : ParamPlaced(reg', reg, i),
           stack' = SetTop(Stepped)
    PROVE  Walked
<1>1. Registers(reg', reg, s, Top.entry.pos) /\ Statements(reg', reg, T)
  BY WalkingStack, BringsRegisters
<1>2. Statements(reg', reg, {})
  BY <1>1 DEF Statements, StmtTags
<1>3. Stepped \in FrameType /\ Alike(Stepped, Top) /\ FramePlaced(Stepped, reg', src')
  BY <1>1, SteppedWalks, TopPlaced DEF Registers
<1> QED
  BY <1>1, <1>2, <1>3, IterWalks

\* A scope R has not made yet has nothing in it.
LEMMA ParamsOnlyIn ==
    ASSUME NEW R, WellFormed(R), NEW Q, NEW s, NEW p, NEW T, Brings(Q, R, s, p, T),
           ParamsOnly(R, s), NEW i \in New(Q, R)
    PROVE  ParamsOnly(R, Q.flat[i].scope)
<1>1. Q.flat[i].scope = s \/ Q.flat[i].scope > R.scopes
  BY DEF Brings, Within, New
<1>2. R.scopes \in Nat /\ \A j \in IdsOf(R) : R.flat[j].scope \in 1..R.scopes
  BY Sizes, EntryFacts
<1> QED
  BY <1>1, <1>2 DEF ParamsOnly

\* A handler at the parameters of a function has declared nothing else.
LEMMA TopParams ==
    ASSUME Walking, stack # <<>>, Top.kind \in {"params", "method", "signature"}
    PROVE  ParamsOnly(reg, Top.scope)
<1>1. Len(stack) \in 1..Len(stack)
  BY EmptySeq DEF Walking, Good, StackGood
<1> QED
  BY <1>1 DEF Walking, ParamFrames, Parametric, Top

LEMMA ParamBrings ==
    ASSUME Walking, NEW n \in Name, RegisterParam(n)
    PROVE  /\ Brings(reg', reg, Top.scope, Top.entry.pos, {"Param"})
           /\ \A i \in New(reg', reg) :
                  reg'.flat[i].tag = "Param" => i = reg.next /\ reg'.flat[i].name \in Name
<1> DEFINE d == D("Param", n, Top.entry.pos, <<>>, 0)
           s == Top.scope
           p == Top.entry.pos
           P == RegisterInsert(reg, s, d)
           X == RegisterExpr(P, s, Top.dflt, p)
<1>1. /\ stack # <<>> /\ Top.kind \in {"params", "method", "signature"}
      /\ stack' = SetTop(Stepped) /\ src' = src
      /\ reg' = RegisterInsertChild(reg, s, d) \/ reg' = P \/ reg' = X
  BY DEF RegisterParam, More, In
<1>2. /\ s \in 1..reg.scopes /\ p \in Nat /\ Top.dflt \in Exprs
      /\ WellFormed(reg) /\ s \in Nat
  BY <1>1, TopFacts, WalkingStack, Sizes DEF Walking
<1>3. /\ d \in Insertable /\ d.tag = "Param" /\ d.pos = p
      /\ d.name = n /\ Either(d, {"Param"})
  BY <1>2, DescTyped, KidsTyped DEF Tags, OtherTags, NameOpt, D, Either
<1> HIDE DEF d
<1>4. /\ Brings(P, reg, s, p, {"Param"}) /\ New(P, reg) = {reg.next}
      /\ P.flat[reg.next].name = n
  <2>1. /\ Brings(P, reg, s, p, {"Param"}) /\ New(P, reg) = {reg.next}
        /\ P.flat[reg.next] = Entry(d, s, OwnerFn(reg, s))
    BY <1>2, <1>3, InsertBrings
  <2> HIDE DEF P
  <2> QED
    BY <1>3, <2>1 DEF Entry
<1>5. WellFormed(P) /\ s \in 1..P.scopes
  BY <1>2, <1>4, BringsFacts
<1> HIDE DEF P
<1>6. Brings(X, P, s, p, {})
  BY <1>2, <1>5, ExprBrings
<1> HIDE DEF X
<1>7. Brings(X, reg, s, p, {"Param"})
  BY <1>2, <1>4, <1>6, BringsMore, BringsTransitive
<1>8. /\ Brings(RegisterInsertChild(reg, s, d), reg, s, p, {"Param"})
      /\ New(RegisterInsertChild(reg, s, d), reg) = {reg.next}
      /\ RegisterInsertChild(reg, s, d).flat[reg.next].name = n
  BY <1>2, <1>3, InsertChildBrings
<1>9. Brings(reg', reg, s, p, {"Param"})
  BY <1>1, <1>4, <1>7, <1>8
<1>10. ASSUME NEW i \in New(reg', reg), reg'.flat[i].tag = "Param"
       PROVE  i = reg.next /\ reg'.flat[i].name \in Name
  <2>1. CASE reg' = P \/ reg' = RegisterInsertChild(reg, s, d)
    BY <1>4, <1>8, <1>10, <2>1
  <2>2. CASE reg' = X
    <3>1. i \notin New(X, P)
      BY <1>6, <1>10, <2>2 DEF Brings, Either, Declaring
    <3>2. i \in New(P, reg)
      BY <1>10, <2>2, <3>1 DEF New
    <3>3. i \in IdsOf(P) /\ X.flat[i] = P.flat[i]
      BY <1>6, <3>2 DEF Brings, Within, Follows, New
    <3> QED
      BY <1>4, <2>2, <3>2, <3>3
  <2> QED
    BY <1>1, <2>1, <2>2
<1> QED
  BY <1>9, <1>10

LEMMA ParamWalks == ASSUME Walking, NEW n \in Name, RegisterParam(n) PROVE Walked
<1>1. /\ stack # <<>> /\ Top.kind \in {"params", "method", "signature"}
      /\ stack' = SetTop(Stepped) /\ src' = src
  BY DEF RegisterParam, More, In
<1>2. /\ Brings(reg', reg, Top.scope, Top.entry.pos, {"Param"})
      /\ \A i \in New(reg', reg) :
             reg'.flat[i].tag = "Param" => i = reg.next /\ reg'.flat[i].name \in Name
  BY ParamBrings
<1>3. ParamsOnly(reg, Top.scope) /\ WellFormed(reg)
  BY <1>1, TopParams, WalkingStack
<1>4. \A i \in New(reg', reg) : ParamPlaced(reg', reg, i)
  BY <1>2, <1>3, ParamsOnlyIn DEF ParamPlaced
<1>5. Top.kind \notin {"body", "then-else"}
  BY <1>1
<1> QED
  BY <1>1, <1>2, <1>4, <1>5, PartWalks

LEMMA EnterBodyWalks == ASSUME Walking, EnterBody PROVE Walked
<1> DEFINE s == Top.scope
           p == Top.entry.pos
           X == RegisterExpr(reg, s, Top.dflt, p)
           f == Body(s)
<1>1. /\ stack # <<>> /\ Top.kind \in {"params", "method", "signature"}
      /\ stack' = SetTop(f) /\ src' = src
      /\ reg' = X \/ reg' = reg
  BY DEF EnterBody, In
<1>2. /\ s \in 1..reg.scopes /\ p \in Nat /\ Top.dflt \in Exprs
      /\ WellFormed(reg) /\ s \in Nat
  BY <1>1, TopFacts, WalkingStack, Sizes DEF Walking
<1>3. Brings(reg', reg, s, p, {})
  BY <1>1, <1>2, ExprBrings, BringsNothing
<1>4. Registers(reg', reg, s, p) /\ Statements(reg', reg, {})
  BY <1>2, <1>3, BringsRegisters
<1>5. /\ f \in FrameType /\ f.kind = "body" /\ f.entry.tag = "none"
      /\ f.kind \notin Holding /\ First(f) = s /\ FramePlaced(f, reg', src')
  BY <1>2, BodyWalks
<1> HIDE DEF f, s, p, X
<1>6. /\ Top.kind \notin Holding /\ First(Top) = Top.scope /\ Top.entry.tag = "none"
      /\ Top.kind # "body"
  BY <1>1, WalkingTop DEF FramePlaced, Holding, Inserting, First
<1>7. Alike(f, Top)
  BY <1>5, <1>6 DEF Alike, s
<1>8. Top.kind \notin {"body", "then-else"}
  BY <1>1
<1> QED
  BY <1>1, <1>4, <1>5, <1>6, <1>7, <1>8, IterWalks DEF p

-----------------------------------------------------------------------------
(* Enums, extern blocks and modules.                                       *)

\* A scope just made has no owner.
LEMMA MakeChildOwner ==
    ASSUME NEW R, WellFormed(R), NEW s \in 1..R.scopes
    PROVE  MakeChild(R, s).owner[MakeChild(R, s).scopes] = 0
<1>1. DOMAIN R.owner = 1..R.scopes /\ R.scopes \in Nat
  BY Sizes DEF RegisterOK
<1> QED
  BY <1>1 DEF MakeChild, Extend

\* What is declared in a scope without an owner is nobody's parameter.
LEMMA Unowned ==
    ASSUME NEW R, NEW Q,
           \A i \in New(Q, R) : Q.flat[i].tag = "Param" => Q.owner[Q.flat[i].scope] = 0
    PROVE  \A i \in New(Q, R) : ParamPlaced(Q, R, i)
BY DEF ParamPlaced

LEMMA BlockWalks ==
    ASSUME Walking, NEW t \in {"Enum", "Extern", "Module"}, Stmt(t),
           reg' = MakeChild(reg, Here), NEW n \in Name, NEW kids \in Seq(Nat),
           NEW kind \in {"enum", "extern", "module"},
           stack' = Push(Frame(kind, reg'.scopes, Here, D(t, n, Pos, kids, 0), NoExpr))
    PROVE  Walked
<1> DEFINE d == D(t, n, Pos, kids, 0)
           f == Frame(kind, reg'.scopes, Here, d, NoExpr)
<1>1. /\ Here \in 1..reg.scopes /\ Here \in Nat /\ Pos \in Nat /\ WellFormed(reg)
      /\ t \in Tags /\ n \in NameOpt
  BY StmtWalks DEF NameOpt
<1>2. /\ Brings(reg', reg, Here, Pos, {}) /\ reg'.scopes \in Nat
      /\ reg'.scopes > reg.scopes /\ reg.scopes \in Nat
      /\ reg'.owner[reg'.scopes] = 0
  BY <1>1, MakeChildBrings, MakeChildOwner, Sizes
<1>3. Registers(reg', reg, Here, Pos) /\ Statements(reg', reg, {})
  BY <1>1, <1>2, BringsRegisters
<1>4. d \in DescType /\ d.tag = t /\ d.pos = Pos /\ NoExpr \in Exprs
  BY <1>1, DescTyped, ExprsAssumption DEF Insertable, D
<1> HIDE DEF d
<1>5. /\ f \in FrameType /\ f.kind = kind /\ f.reg = Here /\ f.entry = d
      /\ f.scope = reg'.scopes
  BY <1>1, <1>2, <1>4 DEF Frame, FrameType, FrameKinds, StmtLoops
<1> HIDE DEF f
<1>6. RefFound(reg', d, Here) /\ f.kind \in Inserting /\ f.scope > f.reg
  BY <1>1, <1>2, <1>4, <1>5 DEF RefFound, Inserting
<1>7. f.kind \notin {"then", "then-else", "match"} /\ t \notin {"Function", "Class", "ExprStmt"}
  BY <1>5
<1>8. stack' = Push(f)
  BY DEF f, d
<1> QED
  BY <1>2, <1>3, <1>4, <1>5, <1>6, <1>7, <1>8, HoldWalks

LEMMA BlocksWalk ==
    ASSUME Walking, NEW n \in Name,
           RegisterEnum(n) \/ RegisterExtern(n) \/ RegisterModule(n)
    PROVE  Walked
<1>1. reg.scopes \in Nat
  BY Sizes, WalkingStack
<1>2. ASSUME reg' = MakeChild(reg, Here) PROVE <<reg'.scopes>> \in Seq(Nat)
  BY <1>1, <1>2, KidsTyped DEF MakeChild
<1>3. CASE RegisterEnum(n)
  BY <1>2, <1>3, BlockWalks DEF RegisterEnum
<1>4. CASE RegisterExtern(n)
  BY <1>2, <1>4, BlockWalks DEF RegisterExtern
<1>5. CASE RegisterModule(n)
  BY <1>5, KidsTyped, BlockWalks DEF RegisterModule
<1> QED
  BY <1>3, <1>4, <1>5

LEMMA VariantWalks ==
    ASSUME Walking, NEW n \in Name, NEW f \in NameOpt, RegisterVariant(n, f) PROVE Walked
<1> DEFINE s == Top.reg
           C == MakeChild(reg, Top.scope)
           p == Top.entry.pos
           T == {"Param", "EnumVariant"}
           a == D("Param", f, p, <<>>, 0)
           F == IF f = NoName THEN C ELSE RegisterInsert(C, C.scopes, a)
           d == D("EnumVariant", n, p, <<C.scopes>>, 0)
<1>1. /\ stack # <<>> /\ Top.kind = "enum" /\ reg' = RegisterInsert(F, s, d)
      /\ stack' = SetTop(Stepped) /\ src' = src
  BY DEF RegisterVariant, More, In
<1>2. /\ Top.scope \in 1..reg.scopes /\ s \in 1..reg.scopes /\ p \in Nat
      /\ WellFormed(reg) /\ s \in Nat
  BY <1>1, TopFacts, WalkingStack, Sizes DEF Walking
<1>3. /\ Brings(C, reg, s, p, T) /\ C.scopes \in 1..C.scopes /\ C.scopes \in Nat
      /\ C.scopes > reg.scopes /\ WellFormed(C) /\ New(C, reg) = {}
      /\ C.owner[C.scopes] = 0
  BY <1>2, MakeChildBrings, MakeChildOwner
<1> HIDE DEF C
<1>4. /\ a \in Insertable /\ a.pos = p /\ a.tag = "Param"
      /\ d \in Insertable /\ d.pos = p /\ d.tag = "EnumVariant"
  <2>1. "Param" \in Tags /\ "EnumVariant" \in Tags /\ n \in NameOpt /\ 0 \in Nat
    BY DEF Tags, OtherTags, NameOpt
  <2>2. a \in Insertable /\ a.pos = p /\ a.tag = "Param"
    BY <1>2, <2>1, DescTyped, KidsTyped DEF D
  <2>3. d \in Insertable /\ d.pos = p /\ d.tag = "EnumVariant"
    BY <1>2, <1>3, <2>1, DescTyped, KidsTyped DEF D
  <2> QED
    BY <2>2, <2>3
<1> HIDE DEF a, d
<1>5. /\ Brings(F, C, C.scopes, p, T)
      /\ \A i \in New(F, C) : F.flat[i].scope = C.scopes
  <2> DEFINE G == RegisterInsert(C, C.scopes, a)
  <2>1. Either(a, T)
    BY <1>4 DEF Either
  <2>2. /\ Brings(G, C, C.scopes, p, T) /\ New(G, C) = {C.next}
        /\ G.flat[C.next] = Entry(a, C.scopes, OwnerFn(C, C.scopes))
    BY <1>3, <1>4, <2>1, InsertBrings
  <2>4. G.flat[C.next].scope = C.scopes
    BY <2>2 DEF Entry
  <2> HIDE DEF G
  <2>3. Brings(C, C, C.scopes, p, T) /\ New(C, C) = {}
    BY <1>3, BringsNothing DEF New
  <2> QED
    BY <2>2, <2>3, <2>4 DEF G
<1> HIDE DEF F
<1>6. Brings(F, reg, s, p, T)
  BY <1>2, <1>3, <1>5, BringsTransitive
<1>7. WellFormed(F) /\ s \in 1..F.scopes
  BY <1>2, <1>6, BringsFacts
<1>8. Brings(reg', F, s, p, {"EnumVariant"})
  BY <1>1, <1>4, <1>7, InsertBrings DEF Either
<1>9. Brings(reg', reg, s, p, T)
  BY <1>2, <1>6, <1>8, BringsMore, BringsTransitive
<1>10. ASSUME NEW i \in New(reg', reg), reg'.flat[i].tag = "Param"
       PROVE  reg'.owner[reg'.flat[i].scope] = 0
  <2>1. i \in New(F, C)
    BY <1>3, <1>8, <1>10 DEF Brings, Either, Declaring, New
  <2>2. reg'.flat[i] = F.flat[i] /\ F.flat[i].scope = C.scopes
    BY <1>5, <1>8, <2>1 DEF Brings, Within, Follows, New
  <2>3. F.owner[C.scopes] = C.owner[C.scopes] /\ C.scopes \in 1..F.scopes
    <3>1. 1..C.scopes \subseteq 1..F.scopes
      BY <1>3, <1>5, BringsFacts
    <3> QED
      BY <1>3, <1>5, <3>1 DEF Brings, Within
  <2>4. reg'.owner[C.scopes] = F.owner[C.scopes]
    BY <1>8, <2>3 DEF Brings, Within
  <2> QED
    BY <1>3, <2>2, <2>3, <2>4
<1>11. Top.kind \notin {"body", "then-else"}
  BY <1>1
<1> QED
  BY <1>1, <1>9, <1>10, <1>11, Unowned, PartWalks

LEMMA ExternFuncWalks ==
    ASSUME Walking, NEW n \in Name, NEW f \in NameOpt, RegisterExternFunc(n, f)
    PROVE  Walked
<1> DEFINE s == Top.scope
           p == Top.entry.pos
           T == {"Param", "ExternFunc"}
           a == D("Param", f, p, <<>>, 0)
           F == IF f = NoName THEN reg ELSE RegisterInsert(reg, s, a)
           d == D("ExternFunc", n, p, <<>>, 0)
<1>1. /\ stack # <<>> /\ Top.kind = "extern" /\ reg' = RegisterInsert(F, s, d)
      /\ stack' = SetTop(Stepped) /\ src' = src
  BY DEF RegisterExternFunc, More, In
<1>2. /\ s \in 1..reg.scopes /\ p \in Nat /\ WellFormed(reg) /\ reg.owner[s] = 0
  BY <1>1, TopFacts, WalkingStack, WalkingTop DEF Walking, FramePlaced
<1>3. /\ a \in Insertable /\ a.pos = p /\ Either(a, T)
      /\ d \in Insertable /\ d.pos = p /\ Either(d, T)
  <2>1. "Param" \in Tags /\ "ExternFunc" \in Tags /\ n \in NameOpt /\ 0 \in Nat
    BY DEF Tags, OtherTags, NameOpt
  <2>2. a \in Insertable /\ a.pos = p /\ a.tag = "Param"
    BY <1>2, <2>1, DescTyped, KidsTyped DEF D
  <2>3. d \in Insertable /\ d.pos = p /\ d.tag = "ExternFunc"
    BY <1>2, <2>1, DescTyped, KidsTyped DEF D
  <2> QED
    BY <2>2, <2>3 DEF Either
<1> HIDE DEF a, d
<1>4. Brings(F, reg, s, p, T) /\ F.scopes = reg.scopes
  <2>1. /\ Brings(reg, reg, s, p, T) /\ Brings(RegisterInsert(reg, s, a), reg, s, p, T)
        /\ RegisterInsert(reg, s, a).scopes = reg.scopes
    BY <1>2, <1>3, InsertBrings, BringsNothing
  <2> QED
    BY <2>1
<1>5. WellFormed(F) /\ s \in 1..F.scopes
  BY <1>2, <1>4, BringsFacts
<1> HIDE DEF F
<1>6. Brings(reg', reg, s, p, T) /\ reg'.scopes = reg.scopes
  BY <1>1, <1>2, <1>3, <1>4, <1>5, InsertAfterBrings, InsertBrings
<1>7. ASSUME NEW i \in New(reg', reg) PROVE reg'.owner[reg'.flat[i].scope] = 0
  <2>1. RegisterOK(reg') /\ reg.scopes \in Nat /\ i \in IdsOf(reg')
    BY <1>2, <1>6, <1>7, BringsFacts, Sizes DEF New
  <2>2. reg'.flat[i].scope \in 1..reg.scopes
    BY <1>6, <2>1, EntryFacts
  <2>3. reg'.flat[i].scope = s
    BY <1>6, <1>7, <2>1, <2>2 DEF Brings, Within, New
  <2> QED
    BY <1>2, <1>6, <2>3 DEF Brings, Within
<1>8. Top.kind \notin {"body", "then-else"}
  BY <1>1
<1> QED
  BY <1>1, <1>6, <1>7, <1>8, Unowned, PartWalks

-----------------------------------------------------------------------------
(* Which handlers are at the parameters of a function.                     *)

LEMMA PlainBelow ==
    ASSUME Walking, stack # <<>>
    PROVE  /\ Len(stack) \in Nat \ {0} /\ DOMAIN stack = 1..Len(stack)
           /\ \A k \in 1..(Len(stack) - 1) : stack[k].kind \notin Parametric
           /\ Top.kind \notin Parametric =>
                  \A k \in 1..Len(stack) : stack[k].kind \notin Parametric
<1>1. Len(stack) \in Nat \ {0} /\ DOMAIN stack = 1..Len(stack)
  BY PopFacts DEF Walking, Good, StackGood
<1>2. ASSUME NEW k \in 1..Len(stack), stack[k].kind \in Parametric PROVE k = Len(stack)
  BY <1>2 DEF Walking, ParamFrames
<1>3. \A k \in 1..(Len(stack) - 1) : k \in 1..Len(stack) /\ k # Len(stack)
  <2>1. \A m \in Nat \ {0} : \A k \in 1..(m - 1) : k \in 1..m /\ k # m
    OBVIOUS
  <2> QED
    BY <1>1, <2>1, Zenon
<1>4. \A k \in 1..(Len(stack) - 1) : stack[k].kind \notin Parametric
  BY <1>2, <1>3, SMTT(30)
<1>5. Top.kind \notin Parametric =>
          \A k \in 1..Len(stack) : stack[k].kind \notin Parametric
  BY <1>2 DEF Top
<1> QED
  BY <1>1, <1>4, <1>5

LEMMA SameFramed ==
    ASSUME Walking, stack # <<>>, Top.kind \notin Parametric, stack' = stack
    PROVE  Framed
BY PlainBelow DEF Framed, ParamFrames

LEMMA PushFramed ==
    ASSUME Walking, stack # <<>>, Top.kind \notin Parametric, NEW f,
           f.kind \in Parametric => ParamsOnly(reg', f.scope), stack' = Append(stack, f)
    PROVE  Framed
<1>1. Len(stack) \in Nat /\ \A k \in 1..Len(stack) : stack[k].kind \notin Parametric
  BY PlainBelow
<1>2. /\ Len(stack') = Len(stack) + 1 /\ stack'[Len(stack) + 1] = f
      /\ \A k \in 1..Len(stack) : stack'[k] = stack[k]
  BY DEF Walking, Good, StackGood
<1> QED
  BY <1>1, <1>2 DEF Framed, ParamFrames

LEMMA SetTopFacts ==
    ASSUME Walking, stack # <<>>, NEW f
    PROVE  /\ Len(SetTop(f)) = Len(stack) /\ SetTop(f)[Len(stack)] = f
           /\ \A k \in 1..(Len(stack) - 1) : SetTop(f)[k] = stack[k]
           /\ SetTop(f) \in Seq(FrameType \cup {f})
<1>1. Len(stack) \in Nat \ {0} /\ DOMAIN stack = 1..Len(stack)
  BY PlainBelow
<1>2. SetTop(f) \in Seq(FrameType \cup {f}) /\ Len(SetTop(f)) = Len(stack)
  <2>1. stack \in Seq(FrameType \cup {f})
    BY DEF Walking, Good, StackGood
  <2> QED
    BY <1>1, <2>1, ExceptSeq DEF SetTop
<1>3. \A m \in Nat \ {0} : m \in 1..m /\ \A k \in 1..(m - 1) : k \in 1..m /\ k # m
  OBVIOUS
<1>4. /\ Len(stack) \in DOMAIN stack
      /\ \A k \in 1..(Len(stack) - 1) : k \in DOMAIN stack /\ k # Len(stack)
  BY <1>1, <1>3, Zenon
<1>5. SetTop(f)[Len(stack)] = f
  BY <1>4 DEF SetTop
<1>6. \A k \in 1..(Len(stack) - 1) : SetTop(f)[k] = stack[k]
  BY <1>4 DEF SetTop
<1> QED
  BY <1>2, <1>5, <1>6

LEMMA SetFramed ==
    ASSUME Walking, stack # <<>>, NEW f,
           f.kind \in Parametric => ParamsOnly(reg', f.scope), stack' = SetTop(f)
    PROVE  Framed
<1>1. /\ Len(stack) \in Nat \ {0}
      /\ \A k \in 1..(Len(stack) - 1) : stack[k].kind \notin Parametric
  BY PlainBelow
<1>2. /\ Len(stack') = Len(stack) /\ stack'[Len(stack)] = f
      /\ \A k \in 1..(Len(stack) - 1) : stack'[k] = stack[k]
  BY SetTopFacts
<1>3. \A k \in 1..Len(stack) : k = Len(stack) \/ k \in 1..(Len(stack) - 1)
  <2>1. \A m \in Nat \ {0} : \A k \in 1..m : k = m \/ k \in 1..(m - 1)
    OBVIOUS
  <2> QED
    BY <1>1, <2>1, Zenon
<1> QED
  BY <1>1, <1>2, <1>3 DEF Framed, ParamFrames

LEMMA SetPushFramed ==
    ASSUME Walking, stack # <<>>, NEW f, f.kind \notin Parametric, NEW g,
           g.kind \in Parametric => ParamsOnly(reg', g.scope),
           stack' = Append(SetTop(f), g)
    PROVE  Framed
<1>1. /\ Len(stack) \in Nat \ {0}
      /\ \A k \in 1..(Len(stack) - 1) : stack[k].kind \notin Parametric
  BY PlainBelow
<1>2. /\ Len(SetTop(f)) = Len(stack) /\ SetTop(f)[Len(stack)] = f
      /\ \A k \in 1..(Len(stack) - 1) : SetTop(f)[k] = stack[k]
      /\ SetTop(f) \in Seq(FrameType \cup {f})
  BY SetTopFacts
<1>3. /\ Len(stack') = Len(stack) + 1 /\ stack'[Len(stack) + 1] = g
      /\ \A k \in 1..Len(stack) : stack'[k] = SetTop(f)[k]
  BY <1>1, <1>2
<1>4. \A k \in 1..Len(stack) : stack'[k].kind \notin Parametric
  BY <1>1, <1>2, <1>3
<1> QED
  BY <1>1, <1>3, <1>4 DEF Framed, ParamFrames

LEMMA PopFramed == ASSUME Walking, stack # <<>>, stack' = Pop PROVE Framed
<1>1. \A k \in 1..(Len(stack) - 1) : stack[k].kind \notin Parametric
  BY PlainBelow
<1>2. Len(stack') = Len(stack) - 1 /\ \A k \in 1..(Len(stack) - 1) : stack'[k] = stack[k]
  BY PopFacts DEF Walking, Good, StackGood, Pop
<1> QED
  BY <1>1, <1>2 DEF Framed, ParamFrames

LEMMA LeafFramed == ASSUME Walking, Leaf PROVE Framed
<1>1. stack # <<>> /\ Top.kind \in StmtLoops /\ stack' = stack
  BY DEF Leaf, RegisterStruct, RegisterVar, RegisterLet, RegisterConst, Binding,
         RegisterReturn, RegisterAtomic, RegisterExprStmt, InPlace, Stmt, CanStart
<1> QED
  BY <1>1, SameFramed DEF StmtLoops, Parametric

LEMMA BranchFramed == ASSUME Walking, Branch PROVE Framed
<1>1. ASSUME NEW x, NEW pat, NEW hasElse, RegisterIf(x, pat, hasElse) PROVE Framed
  <2>1. /\ stack # <<>> /\ Top.kind \in StmtLoops
        /\ \E f : stack' = Append(stack, f) /\ f.kind \in {"then", "then-else"}
    BY <1>1, SMTT(30) DEF RegisterIf, BeginIf, CanStart, Frame
  <2> QED
    BY <2>1, PushFramed DEF StmtLoops, Parametric
<1>2. ASSUME NEW x, NEW pat, NEW hasElse, RegisterElif(x, pat, hasElse) PROVE Framed
  <2>1. stack # <<>> /\ \E f : stack' = Append(AfterElse, f) /\ f.kind \in {"then", "then-else"}
    BY <1>2 DEF RegisterElif, BeginIf, In, Frame
  <2>2. [Top EXCEPT !.kind = "tail"].kind = "tail"
    BY <2>1, WalkingTop DEF FrameType
  <2> QED
    BY <2>1, <2>2, SetPushFramed DEF AfterElse, Parametric
<1>3. CASE SkipElse
  <2>1. stack # <<>> /\ stack' = SetTop([Top EXCEPT !.kind = "tail"])
    BY <1>3 DEF SkipElse, In, AfterElse
  <2>2. [Top EXCEPT !.kind = "tail"].kind = "tail"
    BY <2>1, WalkingTop DEF FrameType
  <2> QED
    BY <2>1, <2>2, SetFramed DEF Parametric
<1>4. CASE EndIf \/ EndMatch \/ EndBody
  BY <1>4, PopFramed DEF EndIf, EndMatch, EndBody, Finish, In
<1>5. ASSUME NEW x, RegisterWhile(x) \/ RegisterFor(x) \/ RegisterMatch(x) PROVE Framed
  <2>1. /\ stack # <<>> /\ Top.kind \in StmtLoops
        /\ \E f : stack' = Append(stack, f) /\ f.kind \in {"body", "match"}
    BY <1>5 DEF RegisterWhile, RegisterFor, BeginLoop, RegisterMatch, Stmt, CanStart,
                Frame, Body, Push
  <2> QED
    BY <2>1, PushFramed DEF StmtLoops, Parametric
<1>6. CASE BeginArm
  <2> DEFINE f == [Stepped EXCEPT !.entry.kids = Append(@, reg'.scopes)]
             g == Body(reg'.scopes)
  <2>1. stack # <<>> /\ Top.kind = "match" /\ stack' = Append(SetTop(f), g)
    BY <1>6 DEF BeginArm, More, In
  <2>2. f.kind = "match" /\ g.kind = "body"
    BY <2>1, SteppedWalks DEF FrameType, Body, Frame
  <2> HIDE DEF f, g
  <2> QED
    BY <2>1, <2>2, SetPushFramed DEF Parametric
<1> QED
  BY <1>1, <1>2, <1>3, <1>4, <1>5, <1>6 DEF Branch

LEMMA ParamFramed == ASSUME Walking, NEW n \in Name, RegisterParam(n) PROVE Framed
<1>1. /\ stack # <<>> /\ Top.kind \in {"params", "method", "signature"}
      /\ stack' = SetTop(Stepped)
  BY DEF RegisterParam, More, In
<1>2. Stepped.scope = Top.scope /\ ParamsOnly(reg, Top.scope)
  BY <1>1, SteppedWalks, TopParams
<1>3. Brings(reg', reg, Top.scope, Top.entry.pos, {"Param"})
  BY ParamBrings
<1>4. ParamsOnly(reg', Top.scope)
  <2>1. ASSUME NEW i \in IdsOf(reg'), reg'.flat[i].scope = Top.scope,
               reg'.flat[i].name \in Name
        PROVE  reg'.flat[i].tag = "Param"
    <3>1. CASE i \in IdsOf(reg)
      BY <1>2, <1>3, <2>1, <3>1 DEF Brings, Within, Follows, ParamsOnly
    <3>2. CASE i \notin IdsOf(reg)
      BY <1>3, <2>1, <3>2, NoNameAssumption DEF Brings, New, Either
    <3> QED
      BY <3>1, <3>2
  <2> QED
    BY <2>1 DEF ParamsOnly
<1> QED
  BY <1>1, <1>2, <1>4, SetFramed

LEMMA CallableFramed == ASSUME Walking, Callable PROVE Framed
<1>1. ASSUME NEW n \in Name, NEW dflt, RegisterFunction(n, dflt) PROVE Framed
  <2> DEFINE f == Frame("params", reg'.scopes, Here, D("none", NoName, Pos, <<>>, 0), dflt)
  <2>1. /\ stack # <<>> /\ Top.kind \in StmtLoops /\ stack' = Append(stack, f)
        /\ Stmt("Function") /\ reg' = BeginCallable(reg, Here, n, Pos)
    BY <1>1 DEF RegisterFunction, Stmt, CanStart, Push
  <2>2. Here \in 1..reg.scopes /\ Pos \in Nat /\ n \in NameOpt /\ WellFormed(reg)
    BY <2>1, StmtWalks DEF NameOpt
  <2>3. ParamsOnly(reg', f.scope)
    BY <2>1, <2>2, CallableOwn DEF Frame
  <2> HIDE DEF f
  <2> QED
    BY <2>1, <2>3, PushFramed DEF StmtLoops, Parametric
<1>2. ASSUME NEW n \in Name, NEW dflt,
             RegisterMethod(n, dflt) \/ RegisterTraitMethod(n, dflt)
      PROVE  Framed
  <2>1. /\ stack # <<>> /\ Top.kind \in {"class", "trait"}
        /\ reg' = BeginCallable(reg, Top.reg, n, Top.entry.pos)
        /\ \E g : stack' = Append(SetTop(Stepped), g) /\ g.scope = reg'.scopes
    BY <1>2 DEF RegisterMethod, RegisterTraitMethod, More, In, Frame
  <2>2. /\ Top.reg \in 1..reg.scopes /\ Top.entry.pos \in Nat /\ n \in NameOpt
        /\ WellFormed(reg)
    BY <2>1, TopFacts, WalkingStack DEF Walking, NameOpt
  <2>3. ParamsOnly(reg', reg'.scopes)
    BY <2>1, <2>2, CallableOwn
  <2>4. Stepped.kind \notin Parametric
    BY <2>1, SteppedWalks DEF Parametric
  <2> QED
    BY <2>1, <2>3, <2>4, SetPushFramed
<1>3. ASSUME NEW n \in Name, RegisterClass(n) \/ RegisterTrait(n) PROVE Framed
  <2>1. /\ stack # <<>> /\ Top.kind \in StmtLoops
        /\ \E f : stack' = Append(stack, f) /\ f.kind \in {"class", "trait"}
    BY <1>3 DEF RegisterClass, RegisterTrait, Stmt, CanStart, Frame, Push
  <2> QED
    BY <2>1, PushFramed DEF StmtLoops, Parametric
<1>4. CASE EndClass \/ EndTrait
  BY <1>4, PopFramed DEF EndClass, EndTrait, Finish, In
<1>5. CASE EnterBody
  <2>1. stack # <<>> /\ stack' = SetTop(Body(Top.scope))
    BY <1>5 DEF EnterBody, In
  <2> QED
    BY <2>1, SetFramed DEF Body, Frame, Parametric
<1> QED
  BY <1>1, <1>2, <1>3, <1>4, <1>5, ParamFramed DEF Callable

LEMMA BlockFramed == ASSUME Walking, Block PROVE Framed
<1>1. ASSUME NEW n \in Name, RegisterEnum(n) \/ RegisterExtern(n) \/ RegisterModule(n)
      PROVE  Framed
  <2>1. /\ stack # <<>> /\ Top.kind \in StmtLoops
        /\ \E f : stack' = Append(stack, f) /\ f.kind \in {"enum", "extern", "module"}
    BY <1>1 DEF RegisterEnum, RegisterExtern, RegisterModule, Stmt, CanStart, Frame, Push
  <2> QED
    BY <2>1, PushFramed DEF StmtLoops, Parametric
<1>2. ASSUME NEW n \in Name, NEW f \in NameOpt,
             RegisterVariant(n, f) \/ RegisterExternFunc(n, f)
      PROVE  Framed
  <2>1. stack # <<>> /\ Top.kind \in {"enum", "extern"} /\ stack' = SetTop(Stepped)
    BY <1>2 DEF RegisterVariant, RegisterExternFunc, More, In
  <2>2. Stepped.kind \notin Parametric
    BY <2>1, SteppedWalks DEF Parametric
  <2> QED
    BY <2>1, <2>2, SetFramed
<1>3. CASE EndEnum \/ EndExtern \/ EndModule
  BY <1>3, PopFramed DEF EndEnum, EndExtern, EndModule, Finish, In
<1> QED
  BY <1>1, <1>2, <1>3 DEF Block

-----------------------------------------------------------------------------
(* The inductive invariant, and what follows from it.                      *)

LEMMA LeafStepWalks == ASSUME Walking, Leaf PROVE Walked
<1>1. ASSUME NEW n \in Name, RegisterStruct(n) PROVE Walked
  BY <1>1, StructWalks
<1>2. ASSUME NEW n \in Name, NEW x \in Exprs, NEW ty \in NameOpt, NEW fits \in BOOLEAN,
             RegisterVar(n, x, ty, fits)
      PROVE  Walked
  BY <1>2, VarWalks
<1>3. ASSUME NEW n \in Name, NEW x \in Exprs, RegisterLet(n, x) \/ RegisterConst(n, x)
      PROVE  Walked
  BY <1>3, BindingWalks DEF RegisterLet, RegisterConst
<1>4. ASSUME NEW x \in Exprs, RegisterReturn(x) PROVE Walked
  BY <1>4, InPlaceWalks DEF RegisterReturn
<1>5. ASSUME NEW x \in Exprs, RegisterAtomic(x) PROVE Walked
  BY <1>5, AtomicWalks
<1>6. ASSUME NEW x \in Conds, RegisterExprStmt(x) PROVE Walked
  BY <1>6, InPlaceWalks DEF RegisterExprStmt, Conds
<1> QED
  BY <1>1, <1>2, <1>3, <1>4, <1>5, <1>6 DEF Leaf

LEMMA BranchStepWalks == ASSUME Walking, Branch PROVE Walked
<1>1. ASSUME NEW x \in Conds, NEW pat \in Patterns, NEW hasElse \in BOOLEAN,
             RegisterIf(x, pat, hasElse) \/ RegisterElif(x, pat, hasElse)
      PROVE  Walked
  BY <1>1, IfWalks, ElifWalks DEF Conds
<1>2. CASE SkipElse
  BY <1>2, SkipElseWalks
<1>3. CASE EndIf
  BY <1>3, FinishWalks DEF EndIf, In, Inserting
<1>4. ASSUME NEW x \in Conds, RegisterWhile(x) \/ RegisterFor(x) PROVE Walked
  BY <1>4, LoopWalks DEF RegisterWhile, RegisterFor, Conds
<1>5. ASSUME NEW x \in Conds, RegisterMatch(x) PROVE Walked
  BY <1>5, MatchWalks DEF Conds
<1>6. CASE BeginArm
  BY <1>6, ArmWalks
<1>7. CASE EndMatch
  BY <1>7, FinishWalks DEF EndMatch, In, Inserting
<1>8. CASE EndBody
  BY <1>8, PopWalks DEF EndBody, In, Inserting
<1> QED
  BY <1>1, <1>2, <1>3, <1>4, <1>5, <1>6, <1>7, <1>8 DEF Branch

LEMMA CallableStepWalks == ASSUME Walking, Callable PROVE Walked
<1>1. Defaults \subseteq Exprs
  BY ExprsAssumption DEF Defaults
<1>2. ASSUME NEW n \in Name, NEW dflt \in Defaults,
             \/ RegisterFunction(n, dflt)
             \/ RegisterMethod(n, dflt)
             \/ RegisterTraitMethod(n, dflt)
      PROVE  Walked
  BY <1>1, <1>2, FunctionWalks, MethodWalks, TraitMethodWalks
<1>3. ASSUME NEW n \in Name, RegisterClass(n) \/ RegisterTrait(n) \/ RegisterParam(n)
      PROVE  Walked
  BY <1>3, ClassWalks, TraitWalks, ParamWalks
<1>4. CASE EndClass
  BY <1>4, PopWalks DEF EndClass, In, Inserting
<1>5. CASE EndTrait
  BY <1>5, FinishWalks DEF EndTrait, In, Inserting
<1>6. CASE EnterBody
  BY <1>6, EnterBodyWalks
<1> QED
  BY <1>2, <1>3, <1>4, <1>5, <1>6 DEF Callable

LEMMA BlockStepWalks == ASSUME Walking, Block PROVE Walked
<1>1. ASSUME NEW n \in Name, RegisterEnum(n) \/ RegisterExtern(n) \/ RegisterModule(n)
      PROVE  Walked
  BY <1>1, BlocksWalk
<1>2. ASSUME NEW n \in Name, NEW f \in NameOpt,
             RegisterVariant(n, f) \/ RegisterExternFunc(n, f)
      PROVE  Walked
  BY <1>2, VariantWalks, ExternFuncWalks
<1>3. CASE EndEnum \/ EndExtern \/ EndModule
  BY <1>3, FinishWalks DEF EndEnum, EndExtern, EndModule, In, Inserting
<1> QED
  BY <1>1, <1>2, <1>3 DEF Block

\* main has met no statement and inserted no entry when it calls register_body.
LEMMA InitWalks == Init => WalkInv
<1>1. ASSUME Init PROVE WalkInv
  <2>1. reg = RegisterNew /\ stack = <<Body(1)>> /\ src = <<>>
    BY <1>1 DEF Init
  <2>2. IdsOf(reg) = {}
    BY <2>1 DEF RegisterNew, IdsOf
  <2>3. /\ Len(stack) = 1 /\ stack[1].kind = "body" /\ stack[1].entry.tag = "none"
    BY <2>1 DEF Body, Frame, NoEntry, D
  <2>4. FramePlaced(stack[1], reg, src)
    BY <2>3 DEF FramePlaced, Inserting, RefFound
  <2>5. WalkOK
    BY <2>2, <2>3, <2>4 DEF WalkOK, Placed, Nested, HeldInOrder, Ids, MethodsKeyed,
                            ParamsFirst, ParamFrames, Parametric
  <2>6. SourceOrder /\ StatementsRegistered
    BY <2>1, <2>2 DEF SourceOrder, StatementsRegistered, Ids
  <2> QED
    BY <1>1, <2>5, <2>6, InitGood DEF WalkInv
<1> QED
  BY <1>1

LEMMA StepWalks == WalkInv /\ [Next]_vars => WalkInv'
<1>1. ASSUME WalkInv, [Next]_vars PROVE WalkInv'
  <2>1. Kept /\ Walking
    BY <1>1, StepKept, WalkingIsWalkInv DEF WalkInv
  <2>2. ASSUME UNCHANGED vars PROVE Walked /\ Framed
    <3>1. reg' = reg /\ stack' = stack /\ src' = src
      BY <2>2 DEF vars
    <3> QED
      BY <2>1, <3>1 DEF Walking, Walked, Framed
  <2>3. ASSUME Leaf \/ Branch \/ Callable \/ Block PROVE Walked /\ Framed
    <3>1. Walked
      BY <2>1, <2>3, LeafStepWalks, BranchStepWalks, CallableStepWalks, BlockStepWalks
    <3>2. Framed
      BY <2>1, <2>3, LeafFramed, BranchFramed, CallableFramed, BlockFramed
    <3> QED
      BY <3>1, <3>2
  <2> QED
    BY <1>1, <2>1, <2>2, <2>3, WalkedIsWalkInv DEF Next, Returned
<1> QED
  BY <1>1

\* Every entry and every handler in progress belongs to a statement met, the
\* handlers insert from the inside out, and nothing is registered twice
\* (register.c:93-134 and the return points of stmt.c).
THEOREM WalkInvariance == Spec => []WalkInv
<1> QED
  BY InitWalks, StepWalks, PTL DEF Spec

\* Lowering walks the entries of a scope in the order of their ids, so it sees
\* the statements of a body in the order the program has them: no handler
\* inserts its entry after that of a later statement of the same scope.
THEOREM StatementsInOrder == Spec => []SourceOrder
<1>1. WalkInv => SourceOrder
  BY DEF WalkInv
<1> QED
  BY <1>1, WalkInvariance, PTL

\* No statement met is lost and none but a class is registered twice, whatever
\* is nested inside it.
THEOREM EachStatementOnce == Spec => []StatementsRegistered
<1>1. WalkInv => StatementsRegistered
  BY DEF WalkInv
<1> QED
  BY <1>1, WalkInvariance, PTL

\* The id an entry has lowering look up in one scope is found there: the
\* handlers insert the entry after the expression it refers to, and in the scope
\* of that expression's parent (stmt.c:10-160).
THEOREM RefsAreFound == Spec => []RefsResolve
<1>1. WalkInv => RefsResolve
  <2>1. ASSUME WalkInv, NEW i \in Ids,
               reg.flat[i].tag \in {"If", "Elif", "While", "For", "Match", "ExprStmt"},
               reg.flat[i].expr # 0
        PROVE  RegisterFromScope(reg, LookedUpIn(reg.flat[i]), reg.flat[i].expr) # 0
    <3> DEFINE e == reg.flat[i]
    <3>1. RefFound(reg, e, e.scope) /\ WellFormed(reg)
      BY <2>1 DEF WalkInv, WalkOK, IndInv
    <3>2. DOMAIN reg.flat = IdsOf(reg)
      BY <3>1, EntryFacts DEF WellFormed, RegisterOK, IdsOf
    <3>3. e.expr \in DOMAIN reg.flat /\ reg.flat[e.expr].scope = LookedUpIn(e)
      BY <2>1, <3>1, <3>2 DEF RefFound, LookedUpIn
    <3> QED
      BY <2>1, <3>3 DEF RegisterFromScope
  <2> QED
    BY <2>1 DEF RefsResolve
<1> QED
  BY <1>1, WalkInvariance, PTL

\* The name of a method leads to it from the scope of its class, whatever is
\* declared there later: the key was free when mangle_name_unique chose the name
\* and register_insert has taken it (stmt.c:167, register.c:106-111).
THEOREM MethodsFound == Spec => []MethodNamesOwn
<1>1. WalkInv => MethodNamesOwn
  <2>1. ASSUME WalkInv, NEW i \in Ids, reg.flat[i].tag = "Function",
               src[reg.flat[i].pos].tag = "Class"
        PROVE  RegisterGet(reg, reg.flat[i].scope, reg.flat[i].name) = i
    <3> DEFINE e == reg.flat[i]
    <3>1. WellFormed(reg) /\ MethodsKeyed(reg, src) /\ i \in IdsOf(reg)
      BY <2>1 DEF WalkInv, WalkOK, IndInv, Ids
    <3>2. RegisterOK(reg) /\ i # 0 /\ e.scope \in 1..reg.scopes
      BY <3>1, EntryFacts, Sizes
    <3>3. e.name \in Name /\ reg.names[e.scope][e.name] = i
      BY <2>1, <3>1 DEF MethodsKeyed
    <3>4. e.scope \in 0..reg.scopes /\ e.scope # 0
      BY <3>2
    <3> QED
      BY <3>2, <3>3, <3>4, GetUnfolds
  <2> QED
    BY <2>1 DEF MethodNamesOwn
<1> QED
  BY <1>1, WalkInvariance, PTL
=============================================================================
