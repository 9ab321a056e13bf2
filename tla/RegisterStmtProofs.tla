------------------------- MODULE RegisterStmtProofs -------------------------
(***************************************************************************)
(* The walk of the statements keeps the registers well formed, whatever    *)
(* the program: IndInv is an inductive invariant of Spec, and every step   *)
(* only adds to the registers.                                             *)
(***************************************************************************)
EXTENDS RegisterStmt, RegisterProofs, SequenceTheorems

\* What a handler can be given.
LEMMA DescTyped ==
    ASSUME NEW t \in Tags, NEW n \in NameOpt, NEW p \in Nat, NEW e \in Nat,
           NEW kids \in Seq(Nat)
    PROVE  D(t, n, p, kids, e) \in Insertable
<1>1. t # "none"
  BY DEF Tags, StmtTags, AtomTags, OtherTags
<1> QED
  BY <1>1 DEF D, Insertable, DescType

LEMMA KidsTyped ==
    /\ <<>> \in Seq(Nat)
    /\ \A a \in Nat : <<a>> \in Seq(Nat)
    /\ \A a, b \in Nat : <<a, b>> \in Seq(Nat)
    /\ \A a, b, c \in Nat : <<a, b, c>> \in Seq(Nat)
OBVIOUS

LEMMA NoNameTyped == NoName \in NameOpt
BY DEF NameOpt

\* The shapes of the expressions of a program.
LEMMA ExprShape ==
    ASSUME NEW x \in Exprs
    PROVE  /\ x.tag \in AtomTags \cup {"none", "ExprFunctionCall", "ExprArray",
                                       "ExprField"} \cup Operators
           /\ x.args = <<>> \/ x.args[1] \in AtomTags
           /\ Len(x.args) >= 2 => x.args[2] \in AtomTags
           /\ x.tag \in Tags \/ x.tag = "none"
           /\ x = NoExpr <=> x.tag = "none"
<1> USE DEF AtomTags, Tags, OtherTags, Operators, NoExpr
<1>1. x \in Expr
  BY ExprsAssumption
<1>2. CASE x \in [tag : AtomTags \cup {"none"}, args : {<<>>}]
  BY <1>2
<1>3. CASE x \in [tag : {"ExprFunctionCall", "ExprArray", "ExprTuple", "ExprStructCall"},
                  args : {<<>>} \cup {<<a>> : a \in AtomTags}]
  BY <1>3
<1>4. CASE x \in [tag : {"ExprField", "ExprUnary", "ExprAddrOf", "ExprCast"},
                  args : {<<a>> : a \in AtomTags}]
  BY <1>4
<1>5. CASE x \in [tag : {"ExprBinaryOp", "ExprIdx"}, args : {<<a, b>> : a, b \in AtomTags}]
  BY <1>5
<1> QED
  BY <1>1, <1>2, <1>3, <1>4, <1>5 DEF Expr

-----------------------------------------------------------------------------
(* Expressions.                                                            *)

\* One entry in the scope s: the sizes after it are known exactly.
LEMMA AtomWithin ==
    ASSUME NEW R, WellFormed(R), NEW s \in 1..R.scopes, NEW t \in AtomTags,
           NEW p \in Nat
    PROVE  /\ Within(Atom(R, s, t, p), R, s)
           /\ Atom(R, s, t, p).scopes = R.scopes
<1>1. D(t, NoName, p, <<>>, 0) \in Insertable
  BY DescTyped, NoNameTyped, KidsTyped DEF Tags
<1> QED
  BY <1>1, InsertWithin DEF Atom

\* A call or an array registers its argument in a scope of its own.
LEMMA CallInWithin ==
    ASSUME NEW R, WellFormed(R), NEW s \in 1..R.scopes, NEW c \in 1..R.scopes,
           NEW t \in Tags, NEW args, args = <<>> \/ args[1] \in AtomTags,
           NEW p \in Nat
    PROVE  Within(CallIn(R, s, c, t, args, p), R, s)
<1> DEFINE C == MakeChild(R, c)
           A == IF args = <<>> THEN C ELSE Atom(C, C.scopes, args[1], p)
           d == D(t, NoName, p, <<C.scopes>>, 0)
<1>1. R.scopes \in Nat \ {0}
  BY Sizes
<1>2. Within(C, R, s) /\ C.scopes = R.scopes + 1 /\ WellFormed(C)
  BY MakeChildWithin, WithinSizes
<1> HIDE DEF C
<1>3. Within(A, C, C.scopes)
  <2>1. CASE args = <<>>
    BY <2>1, <1>2, WithinSelf
  <2>2. CASE args # <<>>
    <3>1. args[1] \in AtomTags /\ C.scopes \in 1..C.scopes
      BY <2>2, <1>1, <1>2
    <3> QED
      BY <2>2, <3>1, <1>2, AtomWithin
  <2> QED
    BY <2>1, <2>2
<1> HIDE DEF A
<1>4. Within(A, R, s)
  BY <1>1, <1>2, <1>3, WithinTransitive
<1>5. WellFormed(A) /\ s \in 1..A.scopes /\ A.scopes \in Nat
  BY <1>4, WithinSizes
<1>6. d \in Insertable
  BY <1>1, <1>2, DescTyped, NoNameTyped, KidsTyped
<1>7. Within(RegisterInsert(A, s, d), A, s)
  BY <1>5, <1>6, InsertWithin
<1>8. Within(RegisterInsert(A, s, d), R, s)
  BY <1>1, <1>4, <1>5, <1>7, WithinTransitive
<1> QED
  BY <1>8 DEF CallIn, A, C

LEMMA OperatorWithin ==
    ASSUME NEW R, WellFormed(R), NEW s \in 1..R.scopes, NEW x \in Exprs,
           x.tag \in Operators, NEW p \in Nat
    PROVE  Within(Operator(R, s, x, p), R, s)
<1> DEFINE A == IF x.args = <<>> THEN R ELSE Atom(R, s, x.args[1], p)
           B == IF Len(x.args) < 2 THEN A ELSE Atom(A, s, x.args[2], p)
           d == D(x.tag, NoName, p, <<>>, 0)
<1>1. /\ x.tag \in Tags
      /\ x.args = <<>> \/ x.args[1] \in AtomTags
      /\ Len(x.args) < 2 \/ x.args[2] \in AtomTags
  <2>1. Len(x.args) \in Nat
    BY ExprsAssumption DEF Expr, AtomTags
  <2> QED
    BY <2>1, ExprShape DEF Operators
<1>2. Within(A, R, s) /\ WellFormed(A) /\ s \in 1..A.scopes
  BY <1>1, AtomWithin, WithinSelf, WithinSizes
<1> HIDE DEF A
<1>3. Within(B, A, s) /\ WellFormed(B) /\ s \in 1..B.scopes
  BY <1>1, <1>2, AtomWithin, WithinSelf, WithinSizes
<1> HIDE DEF B
<1>4. d \in Insertable
  BY <1>1, DescTyped, NoNameTyped, KidsTyped
<1>5. Within(RegisterInsert(B, s, d), B, s)
  BY <1>3, <1>4, InsertWithin
<1>6. s \in Nat
  BY Sizes
<1>7. Within(B, R, s)
  BY <1>2, <1>3, <1>6, WithinTransitive
<1>8. Within(RegisterInsert(B, s, d), R, s)
  BY <1>5, <1>6, <1>7, WithinTransitive
<1> QED
  BY <1>8 DEF Operator, A, B

\* register_expr inserts in the scope it is given and in scopes it makes.
LEMMA ExprWithin ==
    ASSUME NEW R, WellFormed(R), NEW s \in 1..R.scopes, NEW x \in Exprs,
           NEW p \in Nat
    PROVE  Within(RegisterExpr(R, s, x, p), R, s)
<1>1. CASE x.tag \in AtomTags
  <2>1. RegisterExpr(R, s, x, p) = Atom(R, s, x.tag, p)
    BY <1>1 DEF RegisterExpr, AtomTags, Operators
  <2> QED
    BY <1>1, <2>1, AtomWithin
<1>2. CASE x.tag \in {"ExprFunctionCall", "ExprField"}
  <2>1. x.tag \in Tags /\ (x.args = <<>> \/ x.args[1] \in AtomTags)
    BY <1>2, ExprShape
  <2>2. RegisterExpr(R, s, x, p) = CallIn(R, s, s, x.tag, x.args, p)
    BY <1>2 DEF RegisterExpr, AtomTags, Operators
  <2> QED
    BY <2>1, <2>2, CallInWithin
<1>3. CASE x.tag \in Operators
  BY <1>3, OperatorWithin DEF RegisterExpr, AtomTags, Operators
<1>4. CASE x.tag \notin AtomTags \cup {"ExprFunctionCall", "ExprField"} \cup Operators
  BY <1>4, WithinSelf DEF RegisterExpr
<1> QED
  BY <1>1, <1>2, <1>3, <1>4

\* The id of the expression is an id.
LEMMA ExprIdTyped ==
    ASSUME NEW R, WellFormed(R), NEW x PROVE ExprId(R, x) \in Nat /\ LastId(R) \in Nat
BY Sizes DEF ExprId, LastId

-----------------------------------------------------------------------------
(* Patterns, callables and loops.                                          *)

\* The five entries of a pattern go to the scope of the condition.
LEMMA BindingsWithin ==
    ASSUME NEW R, WellFormed(R), NEW s \in 1..R.scopes, NEW pat \in Patterns,
           NEW p \in Nat
    PROVE  Within(Bindings(R, s, pat, p), R, s)
<1> DEFINE t == D(BindTag(pat), NoName, p, <<s>>, LastId(R))
           T == RegisterInsert(R, s, t)
           v == D("Var", InnerBind(pat), p, <<s>>, LastId(T))
           V == RegisterInsert(T, s, v)
           f == D("ExprField", NoName, p, <<>>, LastId(T))
           F == RegisterInsert(V, s, f)
           G == Atom(F, s, "ExprIdentifier", p)
           o == D("ExprBinaryOp", NoName, p, <<>>, 0)
<1>1. s \in Nat /\ InnerBind(pat) \in NameOpt
  BY Sizes DEF Patterns, InnerBind, NameOpt
<1>2. t \in Insertable
  BY <1>1, DescTyped, NoNameTyped, KidsTyped, ExprIdTyped
     DEF BindTag, Tags, StmtTags
<1>3. Within(T, R, s) /\ WellFormed(T) /\ s \in 1..T.scopes
  BY <1>2, InsertWithin, WithinSizes
<1> HIDE DEF t, T
<1>4. v \in Insertable
  BY <1>1, <1>3, DescTyped, KidsTyped, ExprIdTyped DEF Tags, StmtTags
<1>5. Within(V, T, s) /\ WellFormed(V) /\ s \in 1..V.scopes
  BY <1>3, <1>4, InsertWithin, WithinSizes
<1> HIDE DEF v, V
<1>6. f \in Insertable
  BY <1>3, DescTyped, NoNameTyped, KidsTyped, ExprIdTyped DEF Tags, OtherTags
<1>7. Within(F, V, s) /\ WellFormed(F) /\ s \in 1..F.scopes
  BY <1>5, <1>6, InsertWithin, WithinSizes
<1> HIDE DEF f, F
<1>8. Within(G, F, s) /\ WellFormed(G) /\ s \in 1..G.scopes
  BY <1>7, AtomWithin, WithinSizes DEF AtomTags
<1> HIDE DEF G
<1>9. o \in Insertable
  BY DescTyped, NoNameTyped, KidsTyped DEF Tags, OtherTags
<1>10. Within(RegisterInsert(G, s, o), G, s)
  BY <1>8, <1>9, InsertWithin
<1>11. Within(V, R, s)
  BY <1>1, <1>3, <1>5, WithinTransitive
<1>12. Within(F, R, s)
  BY <1>1, <1>5, <1>7, <1>11, WithinTransitive
<1>13. Within(G, R, s)
  BY <1>1, <1>7, <1>8, <1>12, WithinTransitive
<1>14. Within(RegisterInsert(G, s, o), R, s)
  BY <1>1, <1>8, <1>10, <1>13, WithinTransitive
<1> QED
  BY <1>14 DEF Bindings, t, T, v, V, f, F, G

LEMMA PatternWithin ==
    ASSUME NEW R, WellFormed(R), NEW s \in 1..R.scopes, NEW x \in Exprs,
           NEW pat \in Patterns, NEW p \in Nat
    PROVE  Within(RegisterPatternCondition(R, s, x, pat, p), R, s)
<1> DEFINE C == RegisterExpr(R, s, x, p)
<1>1. Within(C, R, s) /\ WellFormed(C) /\ s \in 1..C.scopes /\ s \in Nat
  BY ExprWithin, WithinSizes, Sizes
<1> HIDE DEF C
<1>2. Within(Bindings(C, s, pat, p), R, s)
  BY <1>1, BindingsWithin, WithinTransitive
<1> QED
  BY <1>1, <1>2 DEF RegisterPatternCondition, C

\* What an action does to the registers: they stay well formed and only grow.
Grows(Q, R) == WellFormed(Q) /\ Follows(Q, R)

LEMMA WithinGrows ==
    ASSUME NEW R, NEW Q, NEW s, Within(Q, R, s) PROVE Grows(Q, R)
BY DEF Within, Grows

LEMMA GrowsSelf == ASSUME NEW R, WellFormed(R) PROVE Grows(R, R)
BY FollowsSelf, Sizes DEF Grows

LEMMA GrowsTransitive ==
    ASSUME NEW R, WellFormed(R), NEW Q, NEW P, Grows(Q, R), Grows(P, Q)
    PROVE  Grows(P, R)
BY FollowsTransitive, Sizes DEF Grows

LEMMA GrowsSizes ==
    ASSUME NEW R, WellFormed(R), NEW Q, Grows(Q, R)
    PROVE  /\ Q.scopes \in Nat \ {0} /\ R.scopes \in Nat \ {0}
           /\ Q.scopes >= R.scopes /\ 1..R.scopes \subseteq 1..Q.scopes
BY Sizes DEF Grows, Follows

\* The child of a function is fresh when it gets its owner: the function's own
\* entry went to the scope it is declared in.
LEMMA CallableGrows ==
    ASSUME NEW R, WellFormed(R), NEW s \in 1..R.scopes, NEW n \in NameOpt,
           NEW p \in Nat
    PROVE  /\ Grows(BeginCallable(R, s, n, p), R)
           /\ BeginCallable(R, s, n, p).scopes = R.scopes + 1
<1> DEFINE C == MakeChild(R, s)
           c == R.scopes + 1
           d == D("Function", n, p, <<c>>, 0)
           F == RegisterInsert(C, s, d)
           o == R.next
<1>1. R.scopes \in Nat \ {0} /\ R.next \in Nat \ {0} /\ RegisterOK(R)
  BY Sizes
<1>2. /\ Within(C, R, s) /\ C.scopes = c /\ C.next = o /\ C.owner[c] = 0
      /\ WellFormed(C) /\ C.flat = R.flat
  BY MakeChildWithin, WithinSizes
<1> HIDE DEF C
<1>3. s \in 1..C.scopes /\ c \in 1..C.scopes /\ s # c /\ c \in Nat
  BY <1>1, <1>2
<1>4. d \in Insertable
  BY <1>3, DescTyped, KidsTyped DEF Tags, StmtTags
<1>5. /\ Within(F, C, s) /\ F.next = o + 1 /\ F.scopes = c
      /\ F.flat[o] = Entry(d, s, OwnerFn(C, s))
  BY <1>2, <1>3, <1>4, InsertWithin
<1>6. F.flat[o].tag = "Function" /\ F.flat[o].scope = s
  BY <1>5 DEF Entry, D
<1> HIDE DEF F, d
<1>7. WellFormed(F) /\ Within(F, R, s)
  BY <1>1, <1>2, <1>3, <1>5, WithinTransitive, WithinSizes
<1>8. o \in IdsOf(F) /\ F.owner[c] = 0 /\ c \in 1..F.scopes
  BY <1>1, <1>2, <1>3, <1>5 DEF IdsOf, Within
<1>9. ASSUME NEW i \in IdsOf(F) PROVE F.flat[i].scope # c
  <2>1. CASE i \in IdsOf(R)
    <3>1. F.flat[i] = R.flat[i] /\ R.flat[i].scope \in 1..R.scopes
      BY <2>1, <1>1, <1>7, EntryFacts DEF Within, Follows
    <3> QED
      BY <3>1, <1>1
  <2>2. CASE i \notin IdsOf(R)
    <3>1. i = o
      BY <2>2, <1>1, <1>5 DEF IdsOf
    <3> QED
      BY <3>1, <1>3, <1>6
  <2> QED
    BY <2>1, <2>2
<1>10. Grows(SetOwner(F, c, o), F)
  BY <1>6, <1>7, <1>8, <1>9, SetOwnerWellFormed DEF Grows
<1>11. Grows(SetOwner(F, c, o), R)
  BY <1>7, <1>10, WithinGrows, GrowsTransitive
<1>12. LastId(F) = o /\ SetOwner(F, c, o).scopes = c
  BY <1>1, <1>5 DEF LastId, SetOwner
<1> QED
  BY <1>2, <1>11, <1>12 DEF BeginCallable, C, F, d

\* The body of a loop is fresh when the loop becomes its owner: the condition
\* went to the scope before it, the loop's own entry to the scope around it.
LEMMA LoopGrows ==
    ASSUME NEW R, WellFormed(R), NEW s \in 1..R.scopes, NEW t \in StmtTags,
           NEW x \in Exprs, NEW p \in Nat
    PROVE  LET C == MakeChild(R, s)
               B == MakeChild(C, s)
               I == RegisterExpr(B, C.scopes, x, p)
               L == RegisterInsert(I, s, D(t, NoName, p, <<C.scopes, B.scopes>>,
                                           ExprId(I, x)))
               Q == SetOwner(L, B.scopes, LastId(L))
           IN Grows(Q, R) /\ B.scopes \in 1..Q.scopes
<1> DEFINE C == MakeChild(R, s)
           B == MakeChild(C, s)
           c == R.scopes + 1
           b == R.scopes + 2
           I == RegisterExpr(B, C.scopes, x, p)
           d == D(t, NoName, p, <<C.scopes, B.scopes>>, ExprId(I, x))
           L == RegisterInsert(I, s, d)
           o == I.next
           Q == SetOwner(L, B.scopes, LastId(L))
<1>1. R.scopes \in Nat \ {0} /\ R.next \in Nat \ {0} /\ RegisterOK(R) /\ s \in Nat
  BY Sizes
<1>2. /\ Within(C, R, s) /\ C.scopes = c /\ C.flat = R.flat /\ C.next = R.next
      /\ WellFormed(C) /\ s \in 1..C.scopes
  BY <1>1, MakeChildWithin, WithinSizes
<1>3. C.encl[s] = R.encl[s]
  BY <1>2 DEF Within
<1> HIDE DEF C
<1>4. /\ Within(B, C, s) /\ B.scopes = b /\ B.flat = R.flat /\ B.next = R.next
      /\ WellFormed(B) /\ B.owner[b] = 0 /\ B.encl[b] = R.encl[s]
  BY <1>1, <1>2, <1>3, MakeChildWithin, WithinSizes
<1>5. B.encl[s] = R.encl[s] /\ s \in 1..B.scopes /\ c \in 1..B.scopes /\ b \in 1..B.scopes
  BY <1>1, <1>2, <1>3, <1>4 DEF Within
<1> HIDE DEF B
<1>6. /\ Within(I, B, c) /\ WellFormed(I) /\ o \in Nat /\ o >= R.next
      /\ I.scopes \in Nat /\ I.scopes >= b
  <2>1. Within(I, B, c)
    BY <1>2, <1>4, <1>5, ExprWithin
  <2> QED
    BY <2>1, <1>1, <1>4, WithinSizes
<1>7. I.owner[b] = 0 /\ I.encl[b] = R.encl[s] /\ I.encl[s] = R.encl[s]
  <2>1. \A u \in 1..B.scopes : I.owner[u] = B.owner[u] /\ I.encl[u] = B.encl[u]
    BY <1>6 DEF Within
  <2> QED
    BY <2>1, <1>4, <1>5
<1>8. s \in 1..I.scopes /\ b \in 1..I.scopes
  BY <1>1, <1>6
<1> HIDE DEF I
<1>9. d \in Insertable
  <2>1. C.scopes \in Nat /\ B.scopes \in Nat
    BY <1>1, <1>2, <1>4
  <2>2. <<C.scopes, B.scopes>> \in Seq(Nat) /\ ExprId(I, x) \in Nat
    BY <2>1, <1>6, KidsTyped, ExprIdTyped
  <2>3. t \in Tags
    BY DEF Tags
  <2> QED
    BY <2>2, <2>3, DescTyped, NoNameTyped
<1>10. /\ Within(L, I, s) /\ L.next = o + 1 /\ L.scopes = I.scopes
       /\ L.flat[o] = Entry(d, s, OwnerFn(I, s)) /\ WellFormed(L)
  BY <1>6, <1>8, <1>9, InsertWithin, WithinSizes
<1>11. L.flat[o].scope = s
  BY <1>10 DEF Entry
<1> HIDE DEF L, d
<1>12. /\ L.owner[b] = 0 /\ L.encl[b] = R.encl[s] /\ L.encl[s] = R.encl[s]
       /\ b \in 1..L.scopes
  BY <1>7, <1>8, <1>10 DEF Within
<1>13. o \in IdsOf(L) /\ LastId(L) = o
  BY <1>1, <1>6, <1>10 DEF IdsOf, LastId
<1>14. ASSUME NEW i \in IdsOf(L) PROVE L.flat[i].scope # b
  <2>1. CASE i \notin IdsOf(I)
    <3>1. i = o
      BY <2>1, <1>6, <1>10 DEF IdsOf
    <3> QED
      BY <3>1, <1>1, <1>11
  <2>2. CASE i \in IdsOf(I) /\ i \notin IdsOf(B)
    <3>1. L.flat[i] = I.flat[i]
      BY <2>2, <1>10 DEF Within, Follows
    <3>2. I.flat[i].scope = c \/ I.flat[i].scope > B.scopes
      BY <2>2, <1>6 DEF Within
    <3> QED
      BY <3>1, <3>2, <1>1, <1>4
  <2>3. CASE i \in IdsOf(I) /\ i \in IdsOf(B)
    <3>1. L.flat[i] = B.flat[i]
      BY <2>3, <1>6, <1>10 DEF Within, Follows
    <3>2. i \in IdsOf(R)
      BY <2>3, <1>4 DEF IdsOf
    <3>3. R.flat[i].scope \in 1..R.scopes
      BY <3>2, <1>1, EntryFacts
    <3> QED
      BY <3>1, <3>3, <1>1, <1>4
  <2> QED
    BY <2>1, <2>2, <2>3
<1>15. Grows(SetOwner(L, b, o), L)
  BY <1>10, <1>11, <1>12, <1>13, <1>14, SetOwnerWellFormed DEF Grows
<1>16. Grows(L, R)
  BY <1>2, <1>4, <1>6, <1>10, WithinGrows, GrowsTransitive
<1>17. Grows(SetOwner(L, b, o), R)
  BY <1>15, <1>16, GrowsTransitive
<1>18. SetOwner(L, b, o).scopes = L.scopes
  BY DEF SetOwner
<1> QED
  BY <1>4, <1>12, <1>13, <1>17, <1>18 DEF Q, L, d, I, B, C

-----------------------------------------------------------------------------
(* The stack of handlers, and the inductive invariant by its parts.        *)

FrameOK(f, R) ==
    /\ f \in FrameType
    /\ f.scope \in 1..R.scopes /\ f.reg \in 1..R.scopes
    /\ f.kind \in Inserting => f.entry.tag # "none"
    /\ f.kind = "then-else" => Len(f.entry.kids) = 3 /\ f.entry.kids[3] \in 1..R.scopes

StackGood(st, R) ==
    st \in Seq(FrameType) /\ \A k \in 1..Len(st) : FrameOK(st[k], R)

SrcGood(q) == q \in Seq([tag : StmtTags, scope : Nat, bind : NameOpt])

Good == WellFormed(reg) /\ StackGood(stack, reg) /\ SrcGood(src)

\* What every action must guarantee.
Kept == Grows(reg', reg) /\ StackGood(stack', reg') /\ SrcGood(src')

LEMMA GoodIsIndInv == IndInv => Good
BY DEF IndInv, TypeOK, StackOK, FramesOK, Good, StackGood, FrameOK, SrcGood, Scopes

LEMMA KeptIsIndInv == Kept => IndInv'
<1>1. ASSUME Kept PROVE IndInv'
  <2>1. WellFormed(reg') /\ RegisterOK(reg')
    BY <1>1 DEF Kept, Grows, WellFormed
  <2>2. stack' \in Seq(FrameType) /\ \A k \in 1..Len(stack') : FrameOK(stack'[k], reg')
    BY <1>1 DEF Kept, StackGood
  <2>3. StackOK'
    BY <2>2 DEF StackOK, FrameOK, Scopes
  <2>4. FramesOK'
    BY <2>2 DEF FramesOK, FrameOK, Scopes
  <2>5. TypeOK'
    BY <1>1, <2>1, <2>3 DEF TypeOK, Kept, SrcGood
  <2> QED
    BY <2>1, <2>4, <2>5 DEF IndInv
<1> QED
  BY <1>1

LEMMA StackGrows ==
    ASSUME NEW R, WellFormed(R), NEW Q, Grows(Q, R), NEW st, StackGood(st, R)
    PROVE  StackGood(st, Q)
BY GrowsSizes, SMTT(30) DEF StackGood, FrameOK

LEMMA StackPush ==
    ASSUME NEW R, NEW st, StackGood(st, R), NEW f, FrameOK(f, R)
    PROVE  StackGood(Append(st, f), R)
<1>1. st \in Seq(FrameType) /\ f \in FrameType
  BY DEF StackGood, FrameOK
<1>2. /\ Append(st, f) \in Seq(FrameType) /\ Len(Append(st, f)) = Len(st) + 1
      /\ \A k \in 1..Len(st) : Append(st, f)[k] = st[k]
      /\ Append(st, f)[Len(st) + 1] = f
  BY <1>1, AppendProperties
<1>3. ASSUME NEW k \in 1..(Len(st) + 1) PROVE FrameOK(Append(st, f)[k], R)
  <2>1. k \in 1..Len(st) \/ k = Len(st) + 1
    BY <1>1
  <2> QED
    BY <1>2, <2>1 DEF StackGood
<1> QED
  BY <1>2, <1>3 DEF StackGood

LEMMA StackPop ==
    ASSUME NEW R, NEW st, StackGood(st, R), st # <<>>
    PROVE  StackGood(SubSeq(st, 1, Len(st) - 1), R)
<1> DEFINE n == Len(st) - 1
<1>1. st \in Seq(FrameType) /\ n \in Nat /\ \A k \in 1..n : k \in 1..Len(st)
  BY EmptySeq DEF StackGood
<1>2. \A k \in 1..n : st[k] \in FrameType
  BY <1>1
<1>3. /\ SubSeq(st, 1, n) \in Seq(FrameType) /\ Len(SubSeq(st, 1, n)) = n
      /\ \A k \in 1..n : SubSeq(st, 1, n)[k] = st[k]
  <2> HIDE DEF n
  <2>1. 1 \in Int /\ n \in Int /\ n - 1 + 1 = n /\ (n = 0 <=> ~(1 <= n))
    BY <1>1
  <2>2. /\ SubSeq(st, 1, n) \in Seq(FrameType)
        /\ Len(SubSeq(st, 1, n)) = IF 1 <= n THEN n - 1 + 1 ELSE 0
        /\ \A k \in 1..(n - 1 + 1) : SubSeq(st, 1, n)[k] = st[1 + k - 1]
    BY <1>2, <2>1, SubSeqProperties
  <2>3. \A k \in 1..n : 1 + k - 1 = k
    BY <1>1
  <2> QED
    BY <2>1, <2>2, <2>3
<1> HIDE DEF n
<1>4. StackGood(SubSeq(st, 1, n), R)
  BY <1>1, <1>3 DEF StackGood
<1> QED
  BY <1>4 DEF n

LEMMA StackSet ==
    ASSUME NEW R, NEW st, StackGood(st, R), st # <<>>, NEW f, FrameOK(f, R)
    PROVE  StackGood([st EXCEPT ![Len(st)] = f], R)
<1> DEFINE new == [st EXCEPT ![Len(st)] = f]
<1>1. st \in Seq(FrameType) /\ f \in FrameType /\ Len(st) \in 1..Len(st)
  BY EmptySeq DEF StackGood, FrameOK
<1>2. /\ new \in Seq(FrameType) /\ Len(new) = Len(st)
      /\ \A k \in 1..Len(st) : new[k] = IF k = Len(st) THEN f ELSE st[k]
  BY <1>1, ExceptSeq
<1> HIDE DEF new
<1>3. StackGood(new, R)
  BY <1>2 DEF StackGood
<1> QED
  BY <1>3 DEF new

LEMMA TopFacts ==
    ASSUME Good, stack # <<>>
    PROVE  /\ FrameOK(Top, reg) /\ Top \in FrameType
           /\ Top.scope \in 1..reg.scopes /\ Top.reg \in 1..reg.scopes
           /\ Top.entry \in DescType /\ Top.entry.pos \in Nat
           /\ Top.dflt \in Exprs /\ Top.iter \in Nat
<1>1. Len(stack) \in 1..Len(stack)
  BY EmptySeq DEF Good, StackGood
<1>2. FrameOK(Top, reg)
  BY <1>1 DEF Good, StackGood, Top
<1> QED
  BY <1>2 DEF FrameOK, FrameType, DescType

\* A frame made by a handler that has just grown the registers.
LEMMA FrameTyped ==
    ASSUME NEW R, WellFormed(R), NEW kind \in FrameKinds,
           NEW s \in 1..R.scopes, NEW r \in 1..R.scopes, NEW d \in DescType,
           NEW x \in Exprs, kind # "then-else", kind \in Inserting => d.tag # "none"
    PROVE  FrameOK(Frame(kind, s, r, d, x), R)
<1>1. s \in Nat /\ r \in Nat
  BY Sizes
<1> QED
  BY <1>1 DEF FrameOK, Frame, FrameType

LEMMA NoEntryTyped ==
    ASSUME NEW p \in Nat
    PROVE  D("none", NoName, p, <<>>, 0) \in DescType /\ NoExpr \in Exprs
BY ExprsAssumption, KidsTyped, NoNameTyped DEF D, DescType

LEMMA BodyTyped ==
    ASSUME NEW R, WellFormed(R), NEW s \in 1..R.scopes PROVE FrameOK(Body(s), R)
BY FrameTyped, NoEntryTyped DEF Body, NoEntry, FrameKinds, StmtLoops, Inserting

LEMMA MeetTyped ==
    ASSUME Good, NEW t \in StmtTags, NEW s \in 1..reg.scopes, NEW n \in NameOpt,
           Meet(t, s, n)
    PROVE  SrcGood(src')
<1>1. s \in Nat
  BY Sizes DEF Good
<1> QED
  BY <1>1 DEF Meet, Good, SrcGood

LEMMA PosTyped == ASSUME Good PROVE Pos \in Nat
BY DEF Good, SrcGood, Pos

\* What the guard of a statement gives.
LEMMA StmtFacts ==
    ASSUME Good, NEW t, Stmt(t)
    PROVE  /\ stack # <<>> /\ Here \in 1..reg.scopes /\ Pos \in Nat
           /\ t \in StmtTags /\ t \in Tags /\ SrcGood(src') /\ WellFormed(reg)
<1>1. stack # <<>> /\ t \in StmtTags /\ Meet(t, Here, NoName)
  BY KindsAssumption DEF Stmt, CanStart
<1>2. Here \in 1..reg.scopes
  BY <1>1, TopFacts DEF Here
<1> QED
  BY <1>1, <1>2, MeetTyped, PosTyped, NoNameTyped DEF Tags, Good

-----------------------------------------------------------------------------
(* One lemma per action, or per family of actions that share a definition. *)

\* An insert after a step within the same scope.
LEMMA InsertAfter ==
    ASSUME NEW R, WellFormed(R), NEW s \in 1..R.scopes, NEW I, Within(I, R, s),
           NEW d \in Insertable
    PROVE  Within(RegisterInsert(I, s, d), R, s)
<1>1. WellFormed(I) /\ s \in 1..I.scopes /\ s \in Nat
  BY WithinSizes, Sizes
<1> QED
  BY <1>1, InsertWithin, WithinTransitive

\* The initialiser of a variable: an own child first, then the expression.
LEMMA ChildExprWithin ==
    ASSUME NEW R, WellFormed(R), NEW s \in 1..R.scopes, NEW x \in Exprs, NEW p \in Nat
    PROVE  LET C == MakeChild(R, s)
               I == RegisterExpr(C, C.scopes, x, p)
           IN Within(I, R, s) /\ WellFormed(I) /\ C.scopes \in Nat
<1> DEFINE C == MakeChild(R, s)
           I == RegisterExpr(C, C.scopes, x, p)
<1>1. R.scopes \in Nat \ {0}
  BY Sizes
<1>2. Within(C, R, s) /\ C.scopes = R.scopes + 1 /\ WellFormed(C)
  BY MakeChildWithin, WithinSizes
<1> HIDE DEF C
<1>3. C.scopes \in 1..C.scopes /\ C.scopes \in Nat /\ C.scopes > R.scopes
  BY <1>1, <1>2
<1>4. Within(I, C, C.scopes) /\ WellFormed(I)
  BY <1>2, <1>3, ExprWithin, WithinSizes
<1> HIDE DEF I
<1>5. Within(I, R, s)
  BY <1>2, <1>3, <1>4, WithinTransitive
<1> QED
  BY <1>3, <1>4, <1>5 DEF I, C

\* A statement that leaves the stack alone.
LEMMA LeafKept ==
    ASSUME Good, NEW t, Stmt(t), UNCHANGED stack, Grows(reg', reg)
    PROVE  Kept
BY StmtFacts, StackGrows DEF Kept, Good

LEMMA StructKept ==
    ASSUME Good, NEW n \in Name, RegisterStruct(n) PROVE Kept
<1>1. Stmt("Struct") /\ UNCHANGED stack
  BY DEF RegisterStruct
<1>2. Here \in 1..reg.scopes /\ Pos \in Nat /\ WellFormed(reg)
  BY <1>1, StmtFacts
<1>3. D("Struct", n, Pos, <<>>, 0) \in Insertable
  BY <1>2, DescTyped, KidsTyped DEF Tags, StmtTags, NameOpt
<1>4. Grows(reg', reg)
  BY <1>2, <1>3, InsertWithin, WithinGrows DEF RegisterStruct
<1> QED
  BY <1>1, <1>4, LeafKept

LEMMA VarKept ==
    ASSUME Good, NEW n \in Name, NEW x \in Exprs, NEW ty \in NameOpt, NEW fits,
           RegisterVar(n, x, ty, fits)
    PROVE  Kept
<1> DEFINE C == IF x = NoExpr THEN reg ELSE MakeChild(reg, Here)
           c == C.scopes
           enum == Rewritten(x, ty, fits)
           null == \/ x.tag = "none"
                   \/ enum /\ RegisterByName(reg, ty) = 0
                   \/ x.tag = "ExprArray" /\ ~ArrayFits(ty, fits)
           A == CallIn(C, Here, c, "ExprArray", x.args, Pos)
           E == CallIn(C, c, c, "ExprEnumCall", x.args, Pos)
           X == RegisterExpr(C, c, x, Pos)
           I == CASE null -> C
                  [] x.tag = "ExprArray" /\ ~null -> A
                  [] enum /\ ~null -> E
                  [] OTHER -> X
           d == D("Var", n, Pos, IF x = NoExpr THEN <<>> ELSE <<c>>,
                  IF null THEN 0 ELSE LastId(I))
<1>1. Stmt("Var") /\ UNCHANGED stack /\ reg' = RegisterInsert(I, Here, d)
  BY DEF RegisterVar
<1>2. /\ Here \in 1..reg.scopes /\ Pos \in Nat /\ WellFormed(reg)
      /\ reg.scopes \in Nat \ {0} /\ Here \in Nat
  BY <1>1, StmtFacts, Sizes
<1>3. /\ Within(C, reg, Here) /\ WellFormed(C) /\ Here \in 1..C.scopes
      /\ c \in 1..C.scopes /\ c \in Nat
      /\ x # NoExpr => c > reg.scopes
  <2>1. CASE x = NoExpr
    <3>1. C = reg
      BY <2>1
    <3> QED
      BY <2>1, <3>1, <1>2, WithinSelf
  <2>2. CASE x # NoExpr
    <3>1. C = MakeChild(reg, Here)
      BY <2>2
    <3>2. Within(C, reg, Here) /\ C.scopes = reg.scopes + 1 /\ WellFormed(C)
      BY <3>1, <1>2, MakeChildWithin, WithinSizes
    <3> QED
      BY <3>2, <1>2
  <2> QED
    BY <2>1, <2>2
<1> HIDE DEF C
<1>4. x.tag = "none" <=> x = NoExpr
  BY ExprShape
<1>5. x.args = <<>> \/ x.args[1] \in AtomTags
  BY ExprShape
<1>6. enum => x.tag # "ExprArray"
  BY DEF Rewritten
<1>7. Within(I, reg, Here)
  <2>1. CASE null
    <3>1. I = C
      BY <2>1, <1>6
    <3> QED
      BY <3>1, <1>3
  <2>2. CASE ~null /\ x.tag = "ExprArray"
    <3>1. Within(A, C, Here)
      BY <2>2, <1>2, <1>3, <1>5, CallInWithin DEF Tags, OtherTags
    <3>2. I = A
      BY <2>2, <1>6
    <3> QED
      BY <3>1, <3>2, <1>2, <1>3, WithinTransitive
  <2>3. CASE ~null /\ x.tag # "ExprArray" /\ enum
    <3>1. Within(E, C, c) /\ c > reg.scopes
      BY <2>3, <1>2, <1>3, <1>4, <1>5, <1>6, CallInWithin DEF Tags, OtherTags
    <3>2. I = E
      BY <2>3
    <3> QED
      BY <3>1, <3>2, <1>2, <1>3, WithinTransitive
  <2>4. CASE ~null /\ x.tag # "ExprArray" /\ ~enum
    <3>1. Within(X, C, c) /\ c > reg.scopes
      BY <2>4, <1>2, <1>3, <1>4, ExprWithin
    <3>2. I = X
      BY <2>4
    <3> QED
      BY <3>1, <3>2, <1>2, <1>3, WithinTransitive
  <2> QED
    BY <2>1, <2>2, <2>3, <2>4
<1> HIDE DEF I, null
<1>8. d \in Insertable
  <2>1. (IF x = NoExpr THEN <<>> ELSE <<c>>) \in Seq(Nat)
    BY <1>3, KidsTyped
  <2>2. (IF null THEN 0 ELSE LastId(I)) \in Nat
    BY <1>2, <1>7, ExprIdTyped, WithinSizes
  <2>3. n \in NameOpt /\ "Var" \in Tags
    BY DEF NameOpt, Tags, StmtTags
  <2> QED
    BY <2>1, <2>2, <2>3, <1>2, DescTyped
<1>9. Grows(reg', reg)
  BY <1>1, <1>2, <1>7, <1>8, InsertAfter, WithinGrows
<1> QED
  BY <1>1, <1>9, LeafKept

\* let and const
LEMMA BindingKept ==
    ASSUME Good, NEW t, NEW n \in Name, NEW x \in Exprs, Binding(t, n, x) PROVE Kept
<1> DEFINE C == MakeChild(reg, Here)
           I == RegisterExpr(C, C.scopes, x, Pos)
           d == D(t, n, Pos, <<C.scopes>>, ExprId(I, x))
<1>1. Stmt(t) /\ UNCHANGED stack /\ reg' = RegisterInsert(I, Here, d)
  BY DEF Binding
<1>2. Here \in 1..reg.scopes /\ Pos \in Nat /\ WellFormed(reg) /\ t \in Tags
  BY <1>1, StmtFacts
<1>3. Within(I, reg, Here) /\ WellFormed(I) /\ C.scopes \in Nat
  BY <1>2, ChildExprWithin
<1> HIDE DEF I, C
<1>4. d \in Insertable
  BY <1>2, <1>3, DescTyped, KidsTyped, ExprIdTyped DEF NameOpt
<1>5. Grows(reg', reg)
  BY <1>1, <1>2, <1>3, <1>4, InsertAfter, WithinGrows
<1> QED
  BY <1>1, <1>5, LeafKept

\* return and expression statements
LEMMA InPlaceKept ==
    ASSUME Good, NEW t, NEW x \in Exprs, InPlace(t, x) PROVE Kept
<1> DEFINE I == RegisterExpr(reg, Here, x, Pos)
           d == D(t, NoName, Pos, <<>>, ExprId(I, x))
<1>1. Stmt(t) /\ UNCHANGED stack /\ reg' = RegisterInsert(I, Here, d)
  BY DEF InPlace
<1>2. Here \in 1..reg.scopes /\ Pos \in Nat /\ WellFormed(reg) /\ t \in Tags
  BY <1>1, StmtFacts
<1>3. Within(I, reg, Here) /\ WellFormed(I)
  BY <1>2, ExprWithin, WithinSizes
<1> HIDE DEF I
<1>4. d \in Insertable
  BY <1>2, <1>3, DescTyped, NoNameTyped, KidsTyped, ExprIdTyped
<1>5. Grows(reg', reg)
  BY <1>1, <1>2, <1>3, <1>4, InsertAfter, WithinGrows
<1> QED
  BY <1>1, <1>5, LeafKept

LEMMA AtomicKept ==
    ASSUME Good, NEW x \in Exprs, RegisterAtomic(x) PROVE Kept
<1> DEFINE I == RegisterExpr(reg, Here, x, Pos)
           d == D("Atomic", NoName, Pos, <<>>, 0)
<1>1. Stmt("Atomic") /\ UNCHANGED stack /\ reg' = RegisterInsert(I, Here, d)
  BY DEF RegisterAtomic
<1>2. Here \in 1..reg.scopes /\ Pos \in Nat /\ WellFormed(reg)
  BY <1>1, StmtFacts
<1>3. Within(I, reg, Here)
  BY <1>2, ExprWithin
<1> HIDE DEF I
<1>4. d \in Insertable
  BY <1>2, DescTyped, NoNameTyped, KidsTyped DEF Tags, StmtTags
<1>5. Grows(reg', reg)
  BY <1>1, <1>2, <1>3, <1>4, InsertAfter, WithinGrows
<1> QED
  BY <1>1, <1>5, LeafKept

\* if and elif: the condition is registered in the first child, which is new,
\* and the entry that the frame keeps can be inserted when the handler returns.
LEMMA BeginIfKept ==
    ASSUME Good, NEW t \in StmtTags, NEW s \in 1..reg.scopes, NEW below,
           StackGood(below, reg), NEW x \in Exprs, NEW pat \in Patterns,
           NEW hasElse \in BOOLEAN, BeginIf(t, s, below, x, pat, hasElse)
    PROVE  Kept
<1> DEFINE C == MakeChild(reg, s)
           T == MakeChild(C, s)
           hasChild == hasElse \/ t = "Elif"
           E == IF hasChild THEN MakeChild(T, s) ELSE T
           I == RegisterPatternCondition(E, C.scopes, x, pat, Pos)
           kids == IF hasChild THEN <<C.scopes, T.scopes, E.scopes>>
                   ELSE <<C.scopes, T.scopes>>
           done == D(t, NoName, Pos, kids, ExprId(I, x))
           kind == IF hasElse THEN "then-else" ELSE "then"
           f == Frame(kind, T.scopes, s, done, NoExpr)
<1>1. /\ Meet(t, s, pat.name) /\ reg' = I /\ stack' = Append(below, f)
  BY DEF BeginIf
<1>2. /\ WellFormed(reg) /\ reg.scopes \in Nat \ {0} /\ s \in Nat /\ Pos \in Nat
      /\ pat.name \in NameOpt
  BY Sizes, PosTyped DEF Good, Patterns, NameOpt
<1>3. Within(C, reg, s) /\ C.scopes = reg.scopes + 1 /\ WellFormed(C) /\ s \in 1..C.scopes
  BY <1>2, MakeChildWithin, WithinSizes
<1> HIDE DEF C
<1>4. Within(T, C, s) /\ T.scopes = reg.scopes + 2 /\ WellFormed(T) /\ s \in 1..T.scopes
  BY <1>2, <1>3, MakeChildWithin, WithinSizes
<1> HIDE DEF T
<1>5. /\ Within(E, T, s) /\ WellFormed(E) /\ E.scopes \in Nat
      /\ E.scopes >= reg.scopes + 2
  <2>1. CASE hasChild
    <3>1. E = MakeChild(T, s)
      BY <2>1
    <3>2. Within(E, T, s) /\ WellFormed(E) /\ E.scopes = T.scopes + 1
      BY <3>1, <1>4, MakeChildWithin, WithinSizes
    <3> QED
      BY <3>2, <1>2, <1>4
  <2>2. CASE ~hasChild
    <3>1. E = T
      BY <2>2
    <3> QED
      BY <3>1, <1>2, <1>4, WithinSelf
  <2> QED
    BY <2>1, <2>2
<1> HIDE DEF E
<1>6. Grows(E, reg)
  BY <1>2, <1>3, <1>4, <1>5, WithinGrows, GrowsTransitive
<1>7. C.scopes \in 1..E.scopes
  BY <1>2, <1>3, <1>5
<1>8. Grows(I, E) /\ WellFormed(I)
  BY <1>2, <1>5, <1>7, PatternWithin, WithinGrows, WithinSizes
<1> HIDE DEF I
<1>9. Grows(I, reg)
  BY <1>2, <1>6, <1>8, GrowsTransitive
<1>10. I.scopes \in Nat /\ I.scopes >= E.scopes
  BY <1>5, <1>8, GrowsSizes
<1>11. /\ T.scopes \in 1..I.scopes /\ E.scopes \in 1..I.scopes /\ s \in 1..I.scopes
       /\ C.scopes \in Nat /\ T.scopes \in Nat /\ E.scopes \in Nat
  BY <1>2, <1>3, <1>4, <1>5, <1>10
<1>12. kids \in Seq(Nat) /\ (hasChild => Len(kids) = 3 /\ kids[3] = E.scopes)
  <2>1. <<C.scopes, T.scopes, E.scopes>> \in Seq(Nat) /\ <<C.scopes, T.scopes>> \in Seq(Nat)
    BY <1>11, KidsTyped
  <2> QED
    BY <2>1
<1> HIDE DEF kids
<1>13. done \in Insertable /\ done.kids = kids
  <2>1. ExprId(I, x) \in Nat /\ t \in Tags
    BY <1>8, ExprIdTyped DEF Tags
  <2> QED
    BY <2>1, <1>2, <1>12, DescTyped, NoNameTyped DEF D
<1> HIDE DEF done
<1>14. FrameOK(f, I)
  <2>1. kind \in FrameKinds /\ (kind = "then-else" => hasElse)
    BY DEF FrameKinds, StmtLoops
  <2>2. done \in DescType /\ done.tag # "none" /\ NoExpr \in Exprs
    BY <1>13, ExprsAssumption DEF Insertable
  <2>3. f \in FrameType
    BY <2>1, <2>2, <1>2, <1>11 DEF Frame, FrameType
  <2>4. f.scope = T.scopes /\ f.reg = s /\ f.kind = kind /\ f.entry = done
    BY DEF Frame
  <2> QED
    BY <2>1, <2>2, <2>3, <2>4, <1>11, <1>12, <1>13 DEF FrameOK
<1> HIDE DEF f
<1>15. StackGood(stack', reg')
  BY <1>1, <1>2, <1>9, <1>14, StackGrows, StackPush
<1>16. SrcGood(src')
  BY <1>1, <1>2, MeetTyped
<1> QED
  BY <1>1, <1>9, <1>15, <1>16 DEF Kept

LEMMA IfKept ==
    ASSUME Good, NEW x \in Exprs, NEW pat \in Patterns, NEW hasElse \in BOOLEAN,
           RegisterIf(x, pat, hasElse)
    PROVE  Kept
<1>1. stack # <<>> /\ BeginIf("If", Here, stack, x, pat, hasElse)
  BY DEF RegisterIf, CanStart
<1>2. Here \in 1..reg.scopes /\ StackGood(stack, reg) /\ "If" \in StmtTags
  BY <1>1, TopFacts DEF Here, Good, StmtTags
<1> QED
  BY <1>1, <1>2, BeginIfKept

\* The frame an if is left with when its else_body has been visited.
LEMMA AfterElseGood ==
    ASSUME Good, In("then-else")
    PROVE  StackGood(AfterElse, reg) /\ ElseChild \in 1..reg.scopes /\ stack # <<>>
<1> DEFINE f == [Top EXCEPT !.kind = "tail"]
<1>1. stack # <<>> /\ Top.kind = "then-else"
  BY DEF In
<1>2. FrameOK(Top, reg) /\ Top \in FrameType
  BY <1>1, TopFacts
<1>3. f \in FrameType
  BY <1>2 DEF FrameType, FrameKinds
<1>4. FrameOK(f, reg)
  BY <1>1, <1>2, <1>3 DEF FrameOK, FrameType, Inserting
<1> HIDE DEF f
<1>5. StackGood([stack EXCEPT ![Len(stack)] = f], reg)
  BY <1>1, <1>4, StackSet DEF Good
<1> QED
  BY <1>1, <1>2, <1>5 DEF AfterElse, SetTop, ElseChild, FrameOK, f

LEMMA ElifKept ==
    ASSUME Good, NEW x \in Exprs, NEW pat \in Patterns, NEW hasElse \in BOOLEAN,
           RegisterElif(x, pat, hasElse)
    PROVE  Kept
<1>1. In("then-else") /\ BeginIf("Elif", ElseChild, AfterElse, x, pat, hasElse)
  BY DEF RegisterElif
<1> QED
  BY <1>1, AfterElseGood, BeginIfKept DEF StmtTags

LEMMA SkipElseKept == ASSUME Good, SkipElse PROVE Kept
<1>1. /\ In("then-else") /\ Meet("Else", ElseChild, NoName)
      /\ stack' = AfterElse /\ reg' = reg
  BY DEF SkipElse
<1>2. StackGood(AfterElse, reg) /\ ElseChild \in 1..reg.scopes
  BY <1>1, AfterElseGood
<1>3. SrcGood(src')
  BY <1>1, <1>2, MeetTyped, NoNameTyped DEF StmtTags
<1> QED
  BY <1>1, <1>2, <1>3, GrowsSelf DEF Kept, Good

\* A handler inserts its own entry and returns.
LEMMA FinishKept ==
    ASSUME Good, stack # <<>>, Top.kind \in Inserting, Finish PROVE Kept
<1>1. reg' = RegisterInsert(reg, Top.reg, Top.entry) /\ stack' = Pop /\ src' = src
  BY DEF Finish
<1>2. /\ WellFormed(reg) /\ Top.reg \in 1..reg.scopes /\ Top.entry \in Insertable
  BY TopFacts DEF Good, FrameOK, Insertable
<1>3. Grows(reg', reg)
  BY <1>1, <1>2, InsertWithin, WithinGrows
<1>4. StackGood(stack', reg')
  BY <1>1, <1>2, <1>3, StackGrows, StackPop DEF Pop, Good
<1> QED
  BY <1>1, <1>3, <1>4 DEF Kept, Good

\* A handler that inserts nothing returns.
LEMMA PopKept ==
    ASSUME Good, stack # <<>>, stack' = Pop, UNCHANGED <<reg, src>> PROVE Kept
BY StackPop, GrowsSelf DEF Kept, Good, Pop

\* A statement handler that pushes a frame on the stack it found.
LEMMA PushKept ==
    ASSUME Good, NEW t, Stmt(t), Grows(reg', reg), NEW f, FrameOK(f, reg'),
           stack' = Push(f)
    PROVE  Kept
<1>1. StackGood(stack, reg')
  BY StackGrows DEF Good
<1>2. StackGood(stack', reg')
  BY <1>1, StackPush DEF Push
<1> QED
  BY <1>2, StmtFacts DEF Kept

LEMMA LoopKept ==
    ASSUME Good, NEW t, NEW x \in Exprs, BeginLoop(t, x) PROVE Kept
<1> DEFINE C == MakeChild(reg, Here)
           B == MakeChild(C, Here)
           I == RegisterExpr(B, C.scopes, x, Pos)
           L == RegisterInsert(I, Here, D(t, NoName, Pos, <<C.scopes, B.scopes>>,
                                          ExprId(I, x)))
           Q == SetOwner(L, B.scopes, LastId(L))
<1>1. Stmt(t) /\ reg' = Q /\ stack' = Push(Body(B.scopes))
  BY DEF BeginLoop
<1>2. Here \in 1..reg.scopes /\ Pos \in Nat /\ WellFormed(reg) /\ t \in StmtTags
  BY <1>1, StmtFacts
<1>3. Grows(Q, reg) /\ B.scopes \in 1..Q.scopes
  BY <1>2, LoopGrows
<1> HIDE DEF Q, B
<1>4. FrameOK(Body(B.scopes), Q)
  BY <1>3, BodyTyped DEF Grows
<1> QED
  BY <1>1, <1>3, <1>4, PushKept

LEMMA MatchKept == ASSUME Good, NEW x \in Exprs, RegisterMatch(x) PROVE Kept
<1> DEFINE C == MakeChild(reg, Here)
           E == MakeChild(C, Here)
           I == RegisterExpr(E, C.scopes, x, Pos)
           d == D("Match", NoName, Pos, <<C.scopes, E.scopes>>, ExprId(I, x))
           f == Frame("match", Here, Here, d, NoExpr)
<1>1. Stmt("Match") /\ reg' = I /\ stack' = Push(f)
  BY DEF RegisterMatch
<1>2. /\ Here \in 1..reg.scopes /\ Pos \in Nat /\ WellFormed(reg)
      /\ reg.scopes \in Nat \ {0} /\ Here \in Nat
  BY <1>1, StmtFacts, Sizes
<1>3. /\ Within(C, reg, Here) /\ C.scopes = reg.scopes + 1 /\ WellFormed(C)
      /\ Here \in 1..C.scopes
  BY <1>2, MakeChildWithin, WithinSizes
<1> HIDE DEF C
<1>4. Within(E, C, Here) /\ E.scopes = reg.scopes + 2 /\ WellFormed(E)
  BY <1>2, <1>3, MakeChildWithin, WithinSizes
<1> HIDE DEF E
<1>5. C.scopes \in 1..E.scopes /\ C.scopes \in Nat /\ E.scopes \in Nat
  BY <1>2, <1>3, <1>4
<1>6. Within(I, E, C.scopes) /\ WellFormed(I)
  BY <1>2, <1>4, <1>5, ExprWithin, WithinSizes
<1> HIDE DEF I
<1>7. Grows(I, reg)
  BY <1>2, <1>3, <1>4, <1>6, WithinGrows, GrowsTransitive
<1>8. d \in Insertable
  <2>1. <<C.scopes, E.scopes>> \in Seq(Nat) /\ ExprId(I, x) \in Nat
    BY <1>5, <1>6, KidsTyped, ExprIdTyped
  <2> QED
    BY <2>1, <1>2, DescTyped, NoNameTyped DEF Tags, StmtTags
<1> HIDE DEF d
<1>9. Here \in 1..I.scopes
  BY <1>2, <1>7, GrowsSizes
<1>10. FrameOK(f, I)
  BY <1>6, <1>8, <1>9, FrameTyped, NoEntryTyped DEF FrameKinds, Insertable
<1> QED
  BY <1>1, <1>7, <1>10, PushKept

\* What one more iteration of the top handler's loop gives.
LEMMA SteppedTyped ==
    ASSUME Good, stack # <<>>, Top.kind # "then-else"
    PROVE  FrameOK(Stepped, reg)
<1>1. FrameOK(Top, reg) /\ Top \in FrameType
  BY TopFacts
<1>2. /\ Stepped \in FrameType /\ Stepped.kind = Top.kind /\ Stepped.scope = Top.scope
      /\ Stepped.reg = Top.reg /\ Stepped.entry = Top.entry
  BY <1>1 DEF Stepped, FrameType
<1> QED
  BY <1>1, <1>2 DEF FrameOK

LEMMA FrameGrows ==
    ASSUME NEW R, WellFormed(R), NEW Q, Grows(Q, R), NEW f, FrameOK(f, R)
    PROVE  FrameOK(f, Q)
BY GrowsSizes DEF FrameOK

\* One iteration that changes the top frame only.
LEMMA IterKept ==
    ASSUME Good, stack # <<>>, Top.kind # "then-else", Grows(reg', reg),
           stack' = SetTop(Stepped), src' = src
    PROVE  Kept
<1>1. StackGood(stack, reg') /\ FrameOK(Stepped, reg')
  BY SteppedTyped, StackGrows, FrameGrows DEF Good
<1>2. StackGood(stack', reg')
  BY <1>1, StackSet DEF SetTop
<1> QED
  BY <1>2 DEF Kept, Good

\* One iteration that pushes a frame on the changed top frame.
LEMMA IterPushKept ==
    ASSUME Good, stack # <<>>, Grows(reg', reg), NEW f, FrameOK(f, reg'),
           NEW g, FrameOK(g, reg'), stack' = Append(SetTop(f), g), src' = src
    PROVE  Kept
<1>1. StackGood(stack, reg')
  BY StackGrows DEF Good
<1>2. StackGood(SetTop(f), reg')
  BY <1>1, StackSet DEF SetTop
<1>3. StackGood(stack', reg')
  BY <1>2, StackPush
<1> QED
  BY <1>3 DEF Kept, Good

LEMMA ArmKept == ASSUME Good, BeginArm PROVE Kept
<1> DEFINE f == [Stepped EXCEPT !.entry.kids = Append(@, reg'.scopes)]
           g == Body(reg'.scopes)
<1>1. /\ stack # <<>> /\ Top.kind = "match" /\ reg' = MakeChild(reg, Top.reg)
      /\ stack' = Append(SetTop(f), g) /\ src' = src
  BY DEF BeginArm, More, In
<1>2. WellFormed(reg) /\ Top.reg \in 1..reg.scopes /\ reg.scopes \in Nat \ {0}
  BY <1>1, TopFacts, Sizes DEF Good
<1>3. Grows(reg', reg) /\ reg'.scopes = reg.scopes + 1 /\ WellFormed(reg')
  BY <1>1, <1>2, MakeChildWithin, WithinGrows, WithinSizes
<1>4. reg'.scopes \in 1..reg'.scopes /\ reg'.scopes \in Nat
  BY <1>2, <1>3
<1>5. FrameOK(g, reg')
  BY <1>3, <1>4, BodyTyped
<1>6. FrameOK(Stepped, reg') /\ Stepped.kind = "match"
  <2>1. Stepped.kind = Top.kind
    BY <1>1, TopFacts DEF Stepped, FrameType
  <2> QED
    BY <2>1, <1>1, <1>2, <1>3, SteppedTyped, FrameGrows
<1>7. FrameOK(f, reg')
  <2>1. Stepped \in FrameType /\ Stepped.entry \in DescType
    BY <1>6 DEF FrameOK, FrameType
  <2>2. Append(Stepped.entry.kids, reg'.scopes) \in Seq(Nat)
    BY <2>1, <1>4 DEF DescType
  <2> DEFINE d == [Stepped.entry EXCEPT !.kids = Append(@, reg'.scopes)]
  <2>3. d \in DescType /\ d.tag = Stepped.entry.tag
    BY <2>1, <2>2 DEF DescType
  <2>4. f = [Stepped EXCEPT !.entry = d]
    BY <2>1 DEF FrameType, DescType
  <2> HIDE DEF d, f
  <2>5. /\ f \in FrameType /\ f.kind = "match" /\ f.entry = d
        /\ f.scope = Stepped.scope /\ f.reg = Stepped.reg
    BY <2>1, <2>3, <2>4, <1>6 DEF FrameType
  <2> QED
    BY <2>3, <2>5, <1>6 DEF FrameOK
<1> HIDE DEF f, g
<1> QED
  BY <1>1, <1>3, <1>5, <1>7, IterPushKept

-----------------------------------------------------------------------------
(* Functions, classes, traits, enums, extern blocks and modules.           *)

\* The frame of a callable that has just been given its child scope.
LEMMA CallableFrame ==
    ASSUME Good, NEW s \in 1..reg.scopes, NEW n \in Name, NEW p \in Nat,
           reg' = BeginCallable(reg, s, n, p), NEW kind \in FrameKinds,
           kind \notin Inserting, NEW d \in DescType, NEW x \in Exprs
    PROVE  /\ Grows(reg', reg)
           /\ FrameOK(Frame(kind, reg'.scopes, s, d, x), reg')
<1>1. WellFormed(reg) /\ reg.scopes \in Nat \ {0} /\ n \in NameOpt
  BY Sizes DEF Good, NameOpt
<1>2. Grows(reg', reg) /\ reg'.scopes = reg.scopes + 1
  BY <1>1, CallableGrows
<1>3. /\ reg'.scopes \in 1..reg'.scopes /\ s \in 1..reg'.scopes /\ WellFormed(reg')
      /\ kind # "then-else"
  BY <1>1, <1>2 DEF Grows, Inserting
<1> QED
  BY <1>2, <1>3, FrameTyped

LEMMA FunctionKept ==
    ASSUME Good, NEW n \in Name, NEW dflt \in Exprs, RegisterFunction(n, dflt)
    PROVE  Kept
<1> DEFINE d == D("none", NoName, Pos, <<>>, 0)
           f == Frame("params", reg'.scopes, Here, d, dflt)
<1>1. /\ Stmt("Function") /\ reg' = BeginCallable(reg, Here, n, Pos)
      /\ stack' = Push(f)
  BY DEF RegisterFunction
<1>2. Here \in 1..reg.scopes /\ Pos \in Nat
  BY <1>1, StmtFacts
<1>3. d \in DescType
  BY <1>2, NoEntryTyped
<1>4. Grows(reg', reg) /\ FrameOK(f, reg')
  BY <1>1, <1>2, <1>3, CallableFrame DEF FrameKinds, Inserting
<1> HIDE DEF f
<1> QED
  BY <1>1, <1>4, PushKept

LEMMA ClassKept == ASSUME Good, NEW n \in Name, RegisterClass(n) PROVE Kept
<1> DEFINE c == D("Class", n, Pos, <<>>, 0)
           d == D("none", NoName, Pos, <<>>, 0)
           f == Frame("class", Here, Here, d, NoExpr)
<1>1. /\ Stmt("Class") /\ reg' = RegisterInsert(reg, Here, c) /\ stack' = Push(f)
  BY DEF RegisterClass
<1>2. Here \in 1..reg.scopes /\ Pos \in Nat /\ WellFormed(reg)
  BY <1>1, StmtFacts
<1>3. d \in DescType /\ c \in Insertable /\ NoExpr \in Exprs
  BY <1>2, NoEntryTyped, DescTyped, KidsTyped DEF Tags, StmtTags, NameOpt
<1> HIDE DEF c, d
<1>4. Grows(reg', reg) /\ WellFormed(reg') /\ Here \in 1..reg'.scopes
  BY <1>1, <1>2, <1>3, InsertWithin, WithinGrows, WithinSizes
<1>5. FrameOK(f, reg')
  BY <1>3, <1>4, FrameTyped DEF FrameKinds, Inserting
<1> HIDE DEF f
<1> QED
  BY <1>1, <1>4, <1>5, PushKept

LEMMA TraitKept == ASSUME Good, NEW n \in Name, RegisterTrait(n) PROVE Kept
<1> DEFINE d == D("Trait", n, Pos, <<>>, 0)
           f == Frame("trait", Here, Here, d, NoExpr)
<1>1. Stmt("Trait") /\ reg' = reg /\ stack' = Push(f)
  BY DEF RegisterTrait
<1>2. Here \in 1..reg.scopes /\ Pos \in Nat /\ WellFormed(reg)
  BY <1>1, StmtFacts
<1>3. d \in Insertable /\ d \in DescType /\ d.tag # "none" /\ NoExpr \in Exprs
  BY <1>2, NoEntryTyped, DescTyped, KidsTyped DEF Tags, StmtTags, NameOpt, Insertable
<1> HIDE DEF d
<1>4. FrameOK(f, reg') /\ Grows(reg', reg)
  BY <1>1, <1>2, <1>3, FrameTyped, GrowsSelf DEF FrameKinds
<1> HIDE DEF f
<1> QED
  BY <1>1, <1>4, PushKept

LEMMA MethodKept ==
    ASSUME Good, NEW n \in Name, NEW dflt \in Exprs, RegisterMethod(n, dflt)
    PROVE  Kept
<1> DEFINE g == Frame("method", reg'.scopes, Top.reg, Top.entry, dflt)
<1>1. /\ stack # <<>> /\ Top.kind = "class"
      /\ reg' = BeginCallable(reg, Top.reg, n, Top.entry.pos)
      /\ stack' = Append(SetTop(Stepped), g) /\ src' = src
  BY DEF RegisterMethod, More, In
<1>2. /\ Top.reg \in 1..reg.scopes /\ Top.entry \in DescType /\ Top.entry.pos \in Nat
      /\ WellFormed(reg)
  BY <1>1, TopFacts DEF Good
<1>3. Grows(reg', reg) /\ FrameOK(g, reg')
  BY <1>1, <1>2, CallableFrame DEF FrameKinds, Inserting
<1>4. FrameOK(Stepped, reg')
  BY <1>1, <1>2, <1>3, SteppedTyped, FrameGrows
<1> HIDE DEF g
<1> QED
  BY <1>1, <1>3, <1>4, IterPushKept

LEMMA TraitMethodKept ==
    ASSUME Good, NEW n \in Name, NEW dflt \in Exprs, RegisterTraitMethod(n, dflt)
    PROVE  Kept
<1> DEFINE d == D("none", NoName, Top.entry.pos, <<>>, 0)
           g == Frame("signature", reg'.scopes, Top.reg, d, dflt)
<1>1. /\ stack # <<>> /\ Top.kind = "trait"
      /\ reg' = BeginCallable(reg, Top.reg, n, Top.entry.pos)
      /\ stack' = Append(SetTop(Stepped), g) /\ src' = src
  BY DEF RegisterTraitMethod, More, In
<1>2. Top.reg \in 1..reg.scopes /\ Top.entry.pos \in Nat /\ WellFormed(reg)
  BY <1>1, TopFacts DEF Good
<1>3. d \in DescType
  BY <1>2, NoEntryTyped
<1>4. Grows(reg', reg) /\ FrameOK(g, reg')
  BY <1>1, <1>2, <1>3, CallableFrame DEF FrameKinds, StmtLoops, Inserting
<1>5. FrameOK(Stepped, reg')
  BY <1>1, <1>2, <1>4, SteppedTyped, FrameGrows
<1> HIDE DEF g
<1> QED
  BY <1>1, <1>4, <1>5, IterPushKept

LEMMA ParamKept == ASSUME Good, NEW n \in Name, RegisterParam(n) PROVE Kept
<1> DEFINE d == D("Param", n, Top.entry.pos, <<>>, 0)
           s == Top.scope
           P == RegisterInsert(reg, s, d)
           X == RegisterExpr(P, s, Top.dflt, Top.entry.pos)
<1>1. /\ stack # <<>> /\ Top.kind \in {"params", "method", "signature"}
      /\ stack' = SetTop(Stepped) /\ src' = src
      /\ reg' = RegisterInsertChild(reg, s, d) \/ reg' = P \/ reg' = X
  BY DEF RegisterParam, More, In
<1>2. /\ s \in 1..reg.scopes /\ Top.entry.pos \in Nat /\ Top.dflt \in Exprs
      /\ WellFormed(reg) /\ Top.kind # "then-else"
  BY <1>1, TopFacts DEF Good
<1>3. d \in Insertable /\ d.tag = "Param"
  BY <1>2, DescTyped, KidsTyped DEF Tags, OtherTags, NameOpt, D
<1> HIDE DEF d
<1>4. Within(P, reg, s) /\ WellFormed(P) /\ s \in 1..P.scopes /\ s \in Nat
  BY <1>2, <1>3, InsertWithin, WithinSizes, Sizes
<1> HIDE DEF P
<1>5. Within(X, reg, s)
  BY <1>2, <1>4, ExprWithin, WithinTransitive
<1>6. Within(RegisterInsertChild(reg, s, d), reg, s)
  BY <1>2, <1>3, InsertChildWithin
<1>7. Grows(reg', reg)
  BY <1>1, <1>4, <1>5, <1>6, WithinGrows
<1> QED
  BY <1>1, <1>2, <1>7, IterKept

LEMMA EnterBodyKept == ASSUME Good, EnterBody PROVE Kept
<1> DEFINE X == RegisterExpr(reg, Top.scope, Top.dflt, Top.entry.pos)
<1>1. /\ stack # <<>> /\ stack' = SetTop(Body(Top.scope)) /\ src' = src
      /\ reg' = X \/ reg' = reg
  BY DEF EnterBody, In
<1>2. /\ Top.scope \in 1..reg.scopes /\ Top.entry.pos \in Nat /\ Top.dflt \in Exprs
      /\ WellFormed(reg)
  BY <1>1, TopFacts DEF Good
<1>3. Grows(reg', reg)
  BY <1>1, <1>2, ExprWithin, WithinGrows, GrowsSelf
<1>4. StackGood(stack, reg') /\ FrameOK(Body(Top.scope), reg')
  BY <1>2, <1>3, StackGrows, BodyTyped, FrameGrows DEF Good
<1>5. StackGood(stack', reg')
  BY <1>1, <1>4, StackSet DEF SetTop
<1> QED
  BY <1>1, <1>3, <1>5 DEF Kept, Good

\* enum, extern and module: a child, and a frame that inserts the entry later.
LEMMA BlockKept ==
    ASSUME Good, NEW t, Stmt(t), reg' = MakeChild(reg, Here), NEW n \in Name,
           NEW kids \in Seq(Nat), NEW kind \in FrameKinds, kind # "then-else",
           stack' = Push(Frame(kind, reg'.scopes, Here, D(t, n, Pos, kids, 0), NoExpr))
    PROVE  Kept
<1> DEFINE d == D(t, n, Pos, kids, 0)
           f == Frame(kind, reg'.scopes, Here, d, NoExpr)
<1>1. /\ Here \in 1..reg.scopes /\ Pos \in Nat /\ t \in Tags /\ WellFormed(reg)
      /\ reg.scopes \in Nat \ {0} /\ n \in NameOpt
  BY StmtFacts, Sizes DEF NameOpt
<1>2. Grows(reg', reg) /\ reg'.scopes = reg.scopes + 1 /\ WellFormed(reg')
  BY <1>1, MakeChildWithin, WithinGrows, WithinSizes
<1>3. reg'.scopes \in 1..reg'.scopes /\ Here \in 1..reg'.scopes
  BY <1>1, <1>2
<1>4. d \in DescType /\ d.tag # "none" /\ NoExpr \in Exprs
  BY <1>1, DescTyped, ExprsAssumption DEF Insertable
<1> HIDE DEF d
<1>5. FrameOK(f, reg')
  BY <1>2, <1>3, <1>4, FrameTyped
<1> QED
  BY <1>2, <1>5, PushKept DEF d

LEMMA BlocksKept ==
    ASSUME Good, NEW n \in Name,
           RegisterEnum(n) \/ RegisterExtern(n) \/ RegisterModule(n)
    PROVE  Kept
<1>1. reg.scopes \in Nat
  BY Sizes DEF Good
<1>2. ASSUME reg' = MakeChild(reg, Here) PROVE <<reg'.scopes>> \in Seq(Nat)
  BY <1>1, <1>2, KidsTyped DEF MakeChild
<1>3. CASE RegisterEnum(n)
  BY <1>2, <1>3, BlockKept DEF RegisterEnum, FrameKinds
<1>4. CASE RegisterExtern(n)
  BY <1>2, <1>4, BlockKept DEF RegisterExtern, FrameKinds
<1>5. CASE RegisterModule(n)
  BY <1>5, KidsTyped, BlockKept DEF RegisterModule, FrameKinds, StmtLoops
<1> QED
  BY <1>3, <1>4, <1>5

LEMMA VariantKept ==
    ASSUME Good, NEW n \in Name, NEW f \in NameOpt, RegisterVariant(n, f) PROVE Kept
<1> DEFINE C == MakeChild(reg, Top.scope)
           p == Top.entry.pos
           a == D("Param", f, p, <<>>, 0)
           F == IF f = NoName THEN C ELSE RegisterInsert(C, C.scopes, a)
           d == D("EnumVariant", n, p, <<C.scopes>>, 0)
<1>1. /\ stack # <<>> /\ Top.kind = "enum" /\ reg' = RegisterInsert(F, Top.reg, d)
      /\ stack' = SetTop(Stepped) /\ src' = src
  BY DEF RegisterVariant, More, In
<1>2. /\ Top.scope \in 1..reg.scopes /\ Top.reg \in 1..reg.scopes /\ p \in Nat
      /\ WellFormed(reg) /\ reg.scopes \in Nat \ {0}
  BY <1>1, TopFacts, Sizes DEF Good
<1>3. Within(C, reg, Top.reg) /\ C.scopes = reg.scopes + 1 /\ WellFormed(C)
  BY <1>2, MakeChildWithin, WithinSizes
<1> HIDE DEF C
<1>4. C.scopes \in 1..C.scopes /\ C.scopes \in Nat /\ C.scopes > reg.scopes
  BY <1>2, <1>3
<1>5. a \in Insertable /\ d \in Insertable
  BY <1>2, <1>4, DescTyped, KidsTyped DEF Tags, OtherTags, NameOpt
<1> HIDE DEF a, d
<1>6. Within(F, C, C.scopes)
  <2>1. Within(C, C, C.scopes) /\ Within(RegisterInsert(C, C.scopes, a), C, C.scopes)
    BY <1>3, <1>4, <1>5, InsertWithin, WithinSelf
  <2> QED
    BY <2>1
<1> HIDE DEF F
<1>7. Within(F, reg, Top.reg)
  BY <1>2, <1>3, <1>4, <1>6, WithinTransitive
<1>8. Grows(reg', reg)
  BY <1>1, <1>2, <1>5, <1>7, InsertAfter, WithinGrows
<1> QED
  BY <1>1, <1>8, IterKept

LEMMA ExternFuncKept ==
    ASSUME Good, NEW n \in Name, NEW f \in NameOpt, RegisterExternFunc(n, f)
    PROVE  Kept
<1> DEFINE p == Top.entry.pos
           a == D("Param", f, p, <<>>, 0)
           F == IF f = NoName THEN reg ELSE RegisterInsert(reg, Top.scope, a)
           d == D("ExternFunc", n, p, <<>>, 0)
<1>1. /\ stack # <<>> /\ Top.kind = "extern" /\ reg' = RegisterInsert(F, Top.scope, d)
      /\ stack' = SetTop(Stepped) /\ src' = src
  BY DEF RegisterExternFunc, More, In
<1>2. Top.scope \in 1..reg.scopes /\ p \in Nat /\ WellFormed(reg)
  BY <1>1, TopFacts DEF Good
<1>3. a \in Insertable /\ d \in Insertable
  BY <1>2, DescTyped, KidsTyped DEF Tags, OtherTags, NameOpt
<1> HIDE DEF a, d
<1>4. Within(F, reg, Top.scope)
  <2>1. Within(reg, reg, Top.scope) /\ Within(RegisterInsert(reg, Top.scope, a), reg, Top.scope)
    BY <1>2, <1>3, InsertWithin, WithinSelf
  <2> QED
    BY <2>1
<1> HIDE DEF F
<1>5. Grows(reg', reg)
  BY <1>1, <1>2, <1>3, <1>4, InsertAfter, WithinGrows
<1> QED
  BY <1>1, <1>5, IterKept

-----------------------------------------------------------------------------
(* The inductive invariant, and what follows from it.                      *)

LEMMA LeafStep == ASSUME Good, Leaf PROVE Kept
<1>1. ASSUME NEW n \in Name, RegisterStruct(n) PROVE Kept
  BY <1>1, StructKept
<1>2. ASSUME NEW n \in Name, NEW x \in Exprs, NEW ty \in NameOpt, NEW fits \in BOOLEAN,
             RegisterVar(n, x, ty, fits)
      PROVE  Kept
  BY <1>2, VarKept
<1>3. ASSUME NEW n \in Name, NEW x \in Exprs, RegisterLet(n, x) \/ RegisterConst(n, x)
      PROVE  Kept
  BY <1>3, BindingKept DEF RegisterLet, RegisterConst
<1>4. ASSUME NEW x \in Exprs, RegisterReturn(x) PROVE Kept
  BY <1>4, InPlaceKept DEF RegisterReturn
<1>5. ASSUME NEW x \in Exprs, RegisterAtomic(x) PROVE Kept
  BY <1>5, AtomicKept
<1>6. ASSUME NEW x \in Conds, RegisterExprStmt(x) PROVE Kept
  BY <1>6, InPlaceKept DEF RegisterExprStmt, Conds
<1> QED
  BY <1>1, <1>2, <1>3, <1>4, <1>5, <1>6 DEF Leaf

LEMMA BranchStep == ASSUME Good, Branch PROVE Kept
<1>1. ASSUME NEW x \in Conds, NEW pat \in Patterns, NEW hasElse \in BOOLEAN,
             RegisterIf(x, pat, hasElse) \/ RegisterElif(x, pat, hasElse)
      PROVE  Kept
  BY <1>1, IfKept, ElifKept DEF Conds
<1>2. CASE SkipElse
  BY <1>2, SkipElseKept
<1>3. CASE EndIf
  BY <1>3, FinishKept DEF EndIf, In, Inserting
<1>4. ASSUME NEW x \in Conds, RegisterWhile(x) \/ RegisterFor(x) PROVE Kept
  BY <1>4, LoopKept DEF RegisterWhile, RegisterFor, Conds
<1>5. ASSUME NEW x \in Conds, RegisterMatch(x) PROVE Kept
  BY <1>5, MatchKept DEF Conds
<1>6. CASE BeginArm
  BY <1>6, ArmKept
<1>7. CASE EndMatch
  BY <1>7, FinishKept DEF EndMatch, In, Inserting
<1>8. CASE EndBody
  BY <1>8, PopKept DEF EndBody, In
<1> QED
  BY <1>1, <1>2, <1>3, <1>4, <1>5, <1>6, <1>7, <1>8 DEF Branch

LEMMA CallableStep == ASSUME Good, Callable PROVE Kept
<1>1. Defaults \subseteq Exprs
  BY ExprsAssumption DEF Defaults
<1>2. ASSUME NEW n \in Name, NEW dflt \in Defaults,
             \/ RegisterFunction(n, dflt)
             \/ RegisterMethod(n, dflt)
             \/ RegisterTraitMethod(n, dflt)
      PROVE  Kept
  BY <1>1, <1>2, FunctionKept, MethodKept, TraitMethodKept
<1>3. ASSUME NEW n \in Name, RegisterClass(n) \/ RegisterTrait(n) \/ RegisterParam(n)
      PROVE  Kept
  BY <1>3, ClassKept, TraitKept, ParamKept
<1>4. CASE EndClass
  BY <1>4, PopKept DEF EndClass, In
<1>5. CASE EndTrait
  BY <1>5, FinishKept DEF EndTrait, In, Inserting
<1>6. CASE EnterBody
  BY <1>6, EnterBodyKept
<1> QED
  BY <1>2, <1>3, <1>4, <1>5, <1>6 DEF Callable

LEMMA BlockStep == ASSUME Good, Block PROVE Kept
<1>1. ASSUME NEW n \in Name, RegisterEnum(n) \/ RegisterExtern(n) \/ RegisterModule(n)
      PROVE  Kept
  BY <1>1, BlocksKept
<1>2. ASSUME NEW n \in Name, NEW f \in NameOpt,
             RegisterVariant(n, f) \/ RegisterExternFunc(n, f)
      PROVE  Kept
  BY <1>2, VariantKept, ExternFuncKept
<1>3. CASE EndEnum \/ EndExtern \/ EndModule
  BY <1>3, FinishKept DEF EndEnum, EndExtern, EndModule, In, Inserting
<1> QED
  BY <1>1, <1>2, <1>3 DEF Block

LEMMA InitGood == Init => IndInv
<1>1. ASSUME Init PROVE IndInv
  <2>1. reg = RegisterNew /\ stack = <<Body(1)>> /\ src = <<>>
    BY <1>1 DEF Init
  <2>2. WellFormed(reg) /\ RegisterOK(reg) /\ 1 \in 1..reg.scopes
    BY <2>1, RegisterNewWellFormed, Sizes
  <2>3. FrameOK(Body(1), reg)
    BY <2>2, BodyTyped
  <2> DEFINE f == Body(1)
  <2> HIDE DEF f
  <2>4. /\ stack = <<f>> /\ f \in FrameType /\ FrameOK(f, reg)
    BY <2>1, <2>3 DEF f, FrameOK
  <2>5. stack \in Seq(FrameType) /\ \A k \in 1..Len(stack) : FrameOK(stack[k], reg)
    BY <2>4
  <2>6. StackOK /\ FramesOK
    BY <2>5 DEF StackOK, FramesOK, FrameOK, Scopes
  <2> QED
    BY <2>1, <2>2, <2>6 DEF IndInv, TypeOK
<1> QED
  BY <1>1

\* Every step, and every stutter, keeps the invariant and only adds.
LEMMA StepKept == ASSUME IndInv, [Next]_vars PROVE Kept
<1>1. Good
  BY GoodIsIndInv
<1>2. CASE UNCHANGED vars
  <2>1. reg' = reg /\ stack' = stack /\ src' = src
    BY <1>2 DEF vars
  <2> QED
    BY <1>1, <2>1, GrowsSelf DEF Good, Kept
<1>3. CASE Returned
  BY <1>2, <1>3 DEF Returned
<1> QED
  BY <1>1, <1>2, <1>3, LeafStep, BranchStep, CallableStep, BlockStep DEF Next

\* The invariant that everything else rests on.
THEOREM Invariance == Spec => []IndInv
<1>1. Init => IndInv
  BY InitGood
<1>2. IndInv /\ [Next]_vars => IndInv'
  BY StepKept, KeptIsIndInv
<1> QED
  BY <1>1, <1>2, PTL DEF Spec

\* The registers and the frames of the handlers are typed in every reachable
\* state: no handler stores a scope or an id that does not exist.
THEOREM TypeCorrect == Spec => []TypeOK
<1>1. IndInv => TypeOK
  BY DEF IndInv
<1> QED
  BY <1>1, Invariance, PTL

\* The first declaration keeps the name key of its scope (register.c:106-111).
THEOREM NameTable == Spec => []NameTableOK
<1>1. IndInv => NameTableOK
  BY DEF IndInv, WellFormed, NameTableOK
<1> QED
  BY <1>1, Invariance, PTL

\* A stamped entry belongs to the innermost function around its scope, whatever
\* loops, methods and declarations are nested in between (register.c:83-91).
THEOREM OwnersSound == Spec => []OwnerSound
<1>1. IndInv => OwnerSound
  BY DEF IndInv, WellFormed, OwnerSound
<1> QED
  BY <1>1, Invariance, PTL

\* No entry is inserted in a scope before the scope gets its owner, and no
\* owner changes afterwards.
THEOREM OwnersCurrent == Spec => []OwnerCurrent
<1>1. IndInv => OwnerCurrent
  BY DEF IndInv, WellFormed, OwnerCurrent
<1> QED
  BY <1>1, Invariance, PTL

\* global_flat_insert never writes beyond global_flat: one doubling per insert
\* is enough, for any number of inserts and any first capacity from 2 up.
THEOREM FlatArrayBounds == Spec => []FlatInBounds
<1>1. IndInv => FlatInBounds
  <2>1. ASSUME IndInv PROVE FlatInBounds
    <3>1. CapOK(reg) /\ reg.next \in Nat \ {0} /\ reg.cap \in Nat
      BY <2>1 DEF IndInv, WellFormed, RegisterOK
    <3> QED
      BY <3>1 DEF CapOK, FlatInBounds, BoundsOK, IdsOf
  <2> QED
    BY <2>1
<1> QED
  BY <1>1, Invariance, PTL

\* Whatever is registered later, no entry, name, owner or parent is changed.
THEOREM BindingsNeverChange == Spec => BindingsStable
<1>1. IndInv /\ [Next]_vars => [Follows(reg', reg)]_vars
  BY StepKept DEF Kept, Grows
<1> QED
  BY <1>1, Invariance, PTL DEF Spec, BindingsStable

\* A name that means something in a scope means the same ever after, unless a
\* scope nearer to it declares the name anew (register_get, register.c:256-264).
THEOREM NamesKeepMeaning == Spec => ResolutionStable
<1> DEFINE Keeps ==
        \A s \in Scopes, n \in Name :
            LET old == RegisterGet(reg, s, n)
                new == RegisterGet(reg', s, n)
            IN old # 0 /\ new # old
                   => /\ new >= reg.next
                      /\ reg'.flat[new].scope > reg.flat[old].scope
<1>1. IndInv /\ [Next]_vars => [Keeps]_vars
  <2>1. ASSUME IndInv, [Next]_vars PROVE Keeps
    <3>1. WellFormed(reg) /\ WellFormed(reg') /\ Follows(reg', reg)
      BY <2>1, StepKept DEF IndInv, Kept, Grows
    <3>2. ASSUME NEW s \in Scopes, NEW n \in Name, RegisterGet(reg, s, n) # 0,
                 RegisterGet(reg', s, n) # RegisterGet(reg, s, n)
          PROVE  /\ RegisterGet(reg', s, n) >= reg.next
                 /\ reg'.flat[RegisterGet(reg', s, n)].scope
                        > reg.flat[RegisterGet(reg, s, n)].scope
      <4>1. s \in 0..reg.scopes
        BY <3>1, Sizes DEF Scopes
      <4>2. /\ RegisterGet(reg', s, n) \in IdsOf(reg') \ IdsOf(reg)
            /\ reg'.flat[RegisterGet(reg', s, n)].scope
                   > reg.flat[RegisterGet(reg, s, n)].scope
        BY <3>1, <3>2, <4>1, GetFollows
      <4>3. RegisterGet(reg', s, n) >= reg.next
        BY <3>1, <4>2, Sizes DEF IdsOf
      <4> QED
        BY <4>2, <4>3
    <3> QED
      BY <3>2
  <2> QED
    BY <2>1
<1> QED
  BY <1>1, Invariance, PTL DEF Spec, ResolutionStable
=============================================================================
