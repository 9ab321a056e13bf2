---------------------------- MODULE VisitProofs -----------------------------
(***************************************************************************)
(* What lowering does with a registered program, for every program: the    *)
(* names are looked up where they mean what they meant (ScopeFaithful), and*)
(* every body holds its statements once, in order (BlocksComplete).        *)
(*                                                                         *)
(* The proof is of LoweringOK, the inductive invariant of module Lower.  Its*)
(* parts: what lower_expr reaches, and with which Register; what the       *)
(* handlers in progress keep (Lowering); and what they have left behind    *)
(* (Visits), which is a fact about the register, the frames and the bodies *)
(* alone, so that each move of the stack of handlers is a lemma: the loop  *)
(* goes on behind an entry, a handler calls lower_stmt, goes on with its   *)
(* next scope, or returns.                                                 *)
(***************************************************************************)
EXTENDS ScopeProofs

-----------------------------------------------------------------------------
(* What lower_expr reaches.                                                *)

\* f is the table of the calls of lower_expr for the entries up to m.
Made(f, R, m) ==
    f = [j \in 1..m |->
            [t \in 1..R.scopes |->
                {<<j, t>>} \cup UNION {f[k][Passed(R, j, t)] : k \in Operands(R, j)}]]

\* The operands of every expression are behind it.
Behind(R) ==
    \A j \in IdsOf(R) :
        /\ Operands(R, j) \subseteq 1..(j - 1)
        /\ \A t \in 1..R.scopes : Passed(R, j, t) \in 1..R.scopes

\* The recursion of lower_expr ends: the table exists, up to every entry.
LEMMA MadeExists ==
    ASSUME NEW R, WellFormed(R), Behind(R)
    PROVE  \A m \in 0..(R.next - 1) : \E f : Made(f, R, m)
<1> DEFINE Bad == {m \in 0..(R.next - 1) : ~\E f : Made(f, R, m)}
<1>1. SUFFICES ASSUME Bad # {} PROVE FALSE
  OBVIOUS
<1>2. R.next \in Nat \ {0} /\ Bad \in SUBSET Nat
  BY Sizes
<1>3. PICK m \in Bad : \A k \in Bad : m <= k
  BY <1>1, <1>2, Least
<1>4. m \in 0..(R.next - 1) /\ ~\E f : Made(f, R, m)
  BY <1>3
<1>5. CASE m = 0
  <2> DEFINE f == [j \in {} |-> 0]
  <2>1. 1..0 = {}
    OBVIOUS
  <2>2. Made(f, R, 0)
    BY <2>1 DEF Made
  <2> QED
    BY <2>2, <1>4, <1>5
<1>6. CASE m # 0
  <2>1. m - 1 \in 0..(R.next - 1) /\ ~(m <= m - 1) /\ m \in Nat /\ m - 1 \in Nat
    BY <1>2, <1>4, <1>6
  <2>2. PICK f : Made(f, R, m - 1)
    BY <2>1, <1>3
  <2> DEFINE row(h, j) == [t \in 1..R.scopes |->
                 {<<j, t>>} \cup UNION {h[k][Passed(R, j, t)] : k \in Operands(R, j)}]
             g == [j \in 1..m |-> IF j = m THEN row(f, m) ELSE f[j]]
  <2>3. \A j \in 1..m : \A k \in Operands(R, j) : k \in 1..(m - 1)
    <3>1. ASSUME NEW j \in 1..m, NEW k \in Operands(R, j) PROVE k \in 1..(m - 1)
      <4>1. j \in IdsOf(R)
        BY <1>2, <1>4 DEF IdsOf
      <4>2. k \in 1..(j - 1)
        BY <4>1 DEF Behind
      <4> QED
        BY <2>1, <4>2
    <3> QED
      BY <3>1
  <2>4. \A k \in 1..(m - 1) : g[k] = f[k]
    BY <2>1
  <2>5. \A j \in 1..m : row(g, j) = row(f, j)
    <3>1. ASSUME NEW j \in 1..m PROVE row(g, j) = row(f, j)
      <4>1. \A k \in Operands(R, j) : g[k] = f[k]
        BY <2>3, <2>4
      <4> HIDE DEF g
      <4>2. \A t : {g[k][Passed(R, j, t)] : k \in Operands(R, j)}
                   = {f[k][Passed(R, j, t)] : k \in Operands(R, j)}
        BY <4>1
      <4> QED
        BY <4>2
    <3> QED
      BY <3>1
  <2>6. f = [j \in 1..(m - 1) |-> row(f, j)]
    BY <2>2 DEF Made
  <2>7. \A j \in 1..m : g[j] = row(f, j)
    <3> HIDE DEF row
    <3>1. \A j \in 1..m : j # m => j \in 1..(m - 1)
      BY <2>1
    <3> QED
      BY <2>6, <3>1
  <2>8. g = [j \in 1..m |-> row(g, j)]
    <3>1. \A j \in 1..m : g[j] = row(g, j)
      BY <2>5, <2>7
    <3>2. g = [j \in 1..m |-> g[j]]
      OBVIOUS
    <3> HIDE DEF g, row
    <3> QED
      BY <3>1, <3>2
  <2> HIDE DEF g
  <2>9. Made(g, R, m)
    BY <2>8 DEF Made
  <2> QED
    BY <1>4, <2>9
<1> QED
  BY <1>5, <1>6

\* One unfolding of the recursion of lower_expr.
LEMMA UsesUnfold ==
    ASSUME NEW R, WellFormed(R), Behind(R), NEW i \in IdsOf(R), NEW s \in 1..R.scopes
    PROVE  Uses(R, s, i) =
               {<<i, s>>} \cup UNION {Uses(R, Passed(R, i, s), k) : k \in Operands(R, i)}
<1> DEFINE n == R.next - 1
           made == CHOOSE f : Made(f, R, n)
<1>1. n \in 0..n /\ IdsOf(R) = 1..n
  BY Sizes DEF IdsOf
<1>2. Made(made, R, n)
  BY <1>1, MadeExists
<1>3. \A t, j : Uses(R, t, j) = made[j][t]
  BY <1>1 DEF Uses, Made
<1> HIDE DEF made, n
<1>4. made[i] = [t \in 1..R.scopes |->
                {<<i, t>>} \cup UNION {made[k][Passed(R, i, t)] : k \in Operands(R, i)}]
  BY <1>1, <1>2 DEF Made
<1>5. made[i][s] = {<<i, s>>} \cup UNION {made[k][Passed(R, i, s)] : k \in Operands(R, i)}
  BY <1>4
<1> QED
  BY <1>3, <1>5

\* A name means the same in the scopes s and t.
Same(R, s, t) == \A n \in Name : RegisterGet(R, s, n) = RegisterGet(R, t, n)

\* A scope without names of its own means what its parent means.
LEMMA NamelessSame ==
    ASSUME NEW R, WellFormed(R), NEW c, NEW s, Nameless(R, c, s)
    PROVE  Same(R, c, s)
<1>1. RegisterOK(R) /\ c \in 1..R.scopes /\ c \in 0..R.scopes /\ c # 0
  BY Sizes DEF Nameless
<1>2. ASSUME NEW n \in Name PROVE RegisterGet(R, c, n) = RegisterGet(R, s, n)
  <2>1. R.parent[c] = s /\ R.names[c][n] = 0
    BY DEF Nameless
  <2>2. RegisterGet(R, c, n) = RegisterGet(R, R.parent[c], n)
    BY <1>1, <2>1, GetUnfolds
  <2> QED
    BY <2>1, <2>2
<1> QED
  BY <1>2 DEF Same

\* Functions that agree are equal.
LEMMA SameFunction ==
    ASSUME NEW S, NEW T, NEW f \in [S -> T], NEW g \in [S -> T], \A t \in S : f[t] = g[t]
    PROVE  f = g
OBVIOUS

\* Entries of expressions change nothing to what names mean.
LEMMA SameStays ==
    ASSUME NEW R, WellFormed(R), NEW Q, WellFormed(Q), Follows(Q, R), Q.names = R.names,
           Q.scopes = R.scopes
    PROVE  \A s, t : Same(R, s, t) => Same(Q, s, t)
<1>1. Q.parent = R.parent
  <2> DEFINE S == 1..R.scopes
             f == Q.parent
             g == R.parent
  <2>1. f \in [S -> Nat] /\ g \in [S -> Nat]
    BY DEF WellFormed, RegisterOK
  <2>2. \A t \in S : f[t] = g[t]
    BY DEF Follows
  <2> HIDE DEF S, f, g
  <2>3. f = g
    BY <2>1, <2>2, SameFunction
  <2> QED
    BY <2>3 DEF f, g
<1>2. \A s, n : RegisterGet(Q, s, n) = RegisterGet(R, s, n)
  BY <1>1 DEF RegisterGet
<1> QED
  BY <1>2 DEF Same

\* What lower_expr may assume of the operands of an expression.
LEMMA OperandsFit ==
    ASSUME NEW R, WellFormed(R), NEW Open, NEW Free, TreeOK(R, Open, Free), NEW i \in IdsOf(R)
    PROVE  /\ Operands(R, i) \subseteq 1..(i - 1)
           /\ \A t \in 1..R.scopes :
                  /\ Passed(R, i, t) \in 1..R.scopes
                  /\ Same(R, t, R.flat[i].scope) =>
                         \A k \in Operands(R, i) : Same(R, Passed(R, i, t), R.flat[k].scope)
<1> DEFINE e == R.flat[i]
           near(j) == j \in 1..(i - 1) /\ R.flat[j].scope = e.scope
           inside == {j \in IdsOf(R) : R.flat[j].scope = e.kids[1]}
<1>1. /\ Fits(R, i) /\ RegisterOK(R) /\ e.scope \in 1..R.scopes /\ i \in Nat \ {0}
      /\ IdsOf(R) \subseteq Nat \ {0}
  BY Sizes, EntryFacts DEF TreeOK, IdsOf
<1>2. \A s : Same(R, s, s)
  BY DEF Same
<1>3. CASE e.tag \in ScopedCalls
  <2>1. e.kids # <<>> /\ e.kids[1] \in 1..R.scopes /\ \A j \in inside : j < i
    BY <1>1, <1>3 DEF Fits
  <2>2. Operands(R, i) = inside /\ \A t : Passed(R, i, t) = e.kids[1]
    <3>1. /\ e.tag # "ExprField" /\ e.tag # "ExprCast"
          /\ e.tag \notin {"ExprBinaryOp", "ExprIdx", "ExprUnary", "ExprAddrOf", "ExprCast",
                           "ExprTuple", "ExprStructCall"}
      BY <1>3 DEF ScopedCalls
    <3>2. Operands(R, i) = inside
      BY <1>3, <3>1 DEF Operands
    <3>3. \A t : Passed(R, i, t) = e.kids[1]
      BY <1>3, <3>1 DEF Passed
    <3> QED
      BY <3>2, <3>3
  <2> HIDE DEF e
  <2>3. inside \subseteq 1..(i - 1) /\ \A k \in inside : R.flat[k].scope = e.kids[1]
    BY <1>1, <2>1
  <2> QED
    BY <1>2, <2>1, <2>2, <2>3
<1>4. CASE e.tag = "ExprField" /\ e.kids # <<>>
  <2>1. e.kids[1] \in 1..R.scopes /\ (\A j \in inside : j < i) /\ Nameless(R, e.kids[1], e.scope)
    BY <1>1, <1>4 DEF Fits
  <2>2. Operands(R, i) = inside /\ \A t : Passed(R, i, t) = t
    BY <1>4 DEF Operands, Passed, ScopedCalls
  <2> HIDE DEF e
  <2>3. inside \subseteq 1..(i - 1) /\ \A k \in inside : R.flat[k].scope = e.kids[1]
    BY <1>1, <2>1
  <2>4. Same(R, e.kids[1], e.scope)
    BY <2>1, NamelessSame
  <2>5. \A t : Same(R, t, e.scope) => Same(R, t, e.kids[1])
    BY <2>4 DEF Same
  <2> QED
    BY <2>2, <2>3, <2>5 DEF e
<1>5. CASE e.tag \notin ScopedCalls /\ (e.tag = "ExprField" => e.kids = <<>>)
  <2>1. \A k \in Operands(R, i) : near(k)
    <3>1. CASE e.tag = "ExprField"
      BY <1>1, <1>5, <3>1 DEF Operands, Fits, ScopedCalls
    <3>2. CASE e.tag \in {"ExprBinaryOp", "ExprIdx"}
      BY <1>1, <1>5, <3>2 DEF Operands, Fits, ScopedCalls
    <3>3. CASE e.tag \in {"ExprUnary", "ExprAddrOf", "ExprCast"}
      BY <1>1, <1>5, <3>3 DEF Operands, Fits, ScopedCalls
    <3>4. CASE e.tag \in {"ExprTuple", "ExprStructCall"}
      <4>1. \A k \in Before(R, i) : k = i - 1 /\ i > 1 /\ R.flat[k].scope = e.scope
        BY DEF Before
      <4>2. Operands(R, i) = Before(R, i)
        BY <3>4 DEF Operands, ScopedCalls
      <4> HIDE DEF e
      <4> QED
        BY <1>1, <4>1, <4>2
    <3>5. CASE e.tag \notin {"ExprField", "ExprBinaryOp", "ExprIdx", "ExprUnary", "ExprAddrOf",
                             "ExprCast", "ExprTuple", "ExprStructCall"}
      BY <1>5, <3>5 DEF Operands
    <3> QED
      BY <3>1, <3>2, <3>3, <3>4, <3>5
  <2>2. \A t : Passed(R, i, t) \in {t, e.scope}
    BY <1>5 DEF Passed
  <2> HIDE DEF e
  <2>3. Operands(R, i) \subseteq 1..(i - 1)
    BY <2>1
  <2>4. \A t \in 1..R.scopes : Passed(R, i, t) \in 1..R.scopes
    BY <1>1, <2>2
  <2>5. ASSUME NEW t, Same(R, t, e.scope), NEW k \in Operands(R, i)
        PROVE  Same(R, Passed(R, i, t), R.flat[k].scope)
    BY <1>2, <2>1, <2>2, <2>5
  <2> QED
    BY <2>3, <2>4, <2>5 DEF e
<1> QED
  BY <1>3, <1>4, <1>5

\* All calls of lower_expr made for lower_expr(s, i) give expressions scopes
\* from which their names mean what they meant where they were registered.
Faithful(R, U) ==
    \A u \in U : /\ u[1] \in IdsOf(R) /\ u[2] \in 1..R.scopes
                 /\ Same(R, u[2], R.flat[u[1]].scope)

\* Whatever lower_expr reaches, the Register it is lowered with means what the
\* scope of the expression means.
LEMMA UsesFaithful ==
    ASSUME NEW R, WellFormed(R), NEW Open, NEW Free, TreeOK(R, Open, Free),
           NEW i \in IdsOf(R), NEW s \in 1..R.scopes, Same(R, s, R.flat[i].scope)
    PROVE  Faithful(R, Uses(R, s, i))
<1> DEFINE Right(j) == \A t \in 1..R.scopes :
                           Same(R, t, R.flat[j].scope) => Faithful(R, Uses(R, t, j))
           Bad == {j \in IdsOf(R) : ~Right(j)}
<1>1. Behind(R)
  BY OperandsFit DEF Behind
<1>2. SUFFICES ASSUME Bad # {} PROVE FALSE
  OBVIOUS
<1>3. R.next \in Nat \ {0} /\ IdsOf(R) \in SUBSET Nat
  BY Sizes DEF IdsOf
<1>4. PICK j \in Bad : \A k \in Bad : j <= k
  <2>1. Bad \in SUBSET Nat
    BY <1>3
  <2> HIDE DEF Bad
  <2> QED
    BY <1>2, <2>1, Least
<1>5. j \in IdsOf(R) /\ j \in Nat
  BY <1>3, <1>4
<1>6. \A k \in 1..(j - 1) : k \in IdsOf(R) /\ Right(k)
  <2>1. ASSUME NEW k \in 1..(j - 1) PROVE k \in IdsOf(R) /\ k \notin Bad
    <3>1. k \in IdsOf(R)
      BY <1>3, <1>5 DEF IdsOf
    <3>2. ~(j <= k)
      BY <1>5
    <3> HIDE DEF Bad
    <3> QED
      BY <1>4, <3>1, <3>2
  <2> HIDE DEF Right
  <2> QED
    BY <2>1
<1>7. ASSUME NEW t \in 1..R.scopes, Same(R, t, R.flat[j].scope)
      PROVE  Faithful(R, Uses(R, t, j))
  <2> DEFINE p == Passed(R, j, t)
  <2>1. /\ Operands(R, j) \subseteq 1..(j - 1) /\ p \in 1..R.scopes
        /\ \A k \in Operands(R, j) : Same(R, p, R.flat[k].scope)
    BY <1>5, <1>7, OperandsFit
  <2>2. Uses(R, t, j) = {<<j, t>>} \cup UNION {Uses(R, p, k) : k \in Operands(R, j)}
    BY <1>1, <1>5, UsesUnfold
  <2> HIDE DEF p
  <2>3. \A k \in Operands(R, j) : Faithful(R, Uses(R, p, k))
    BY <1>6, <2>1
  <2>4. Faithful(R, {<<j, t>>})
    BY <1>5, <1>7 DEF Faithful
  <2>5. ASSUME NEW u \in Uses(R, t, j)
        PROVE  u \in {<<j, t>>} \/ \E k \in Operands(R, j) : u \in Uses(R, p, k)
    BY <2>2
  <2> QED
    BY <2>3, <2>4, <2>5 DEF Faithful
<1>8. Right(j)
  BY <1>7
<1> HIDE DEF Right
<1> QED
  BY <1>4, <1>8

-----------------------------------------------------------------------------
(* The state lowering keeps.                                               *)

\* What lowering keeps of its own state, over the register R.
Calls(R) == [entry : {0} \cup IdsOf(R), todo : Seq(1..R.scopes) \ {<<>>}, at : 1..R.next]
CallsOK(R, c) ==
    /\ c \in Seq(Calls(R))
    /\ \A k \in DOMAIN c :
           /\ k > 1 => c[k].entry # 0
           /\ \A m \in DOMAIN c[k].todo : Visited(R, c[k].todo[m])
Blocks(R) == [1..R.scopes -> Seq(IdsOf(R))]
Low(R, c, b, U) ==
    CallsOK(R, c) /\ Faithful(R, U) /\ b \in Blocks(R)

\* Entries of atoms keep what entries and scopes are referred to.
LEMMA LowGrows ==
    ASSUME NEW R, WellFormed(R), NEW Q, AddsAtoms(Q, R), NEW c, NEW b, NEW U, Low(R, c, b, U)
    PROVE  Low(Q, c, b, U)
<1>1. /\ WellFormed(Q) /\ Follows(Q, R) /\ Q.names = R.names /\ Q.scopes = R.scopes
      /\ \A i \in IdsOf(R) : Q.flat[i] = R.flat[i]
  BY DEF AddsAtoms, Grows, Follows
<1>2. R.next \in Nat \ {0} /\ Q.next \in Nat \ {0} /\ Q.next >= R.next
  BY <1>1, Sizes DEF Follows
<1>3. IdsOf(R) \subseteq IdsOf(Q) /\ 1..R.next \subseteq 1..Q.next
  BY <1>2 DEF IdsOf
<1>4. \A s : Visited(R, s) => Visited(Q, s)
  BY <1>1, <1>3 DEF Visited, Led
<1>5. Faithful(Q, U)
  BY <1>1, <1>3, SameStays DEF Low, Faithful
<1>6. \A s \in Seq(Calls(R)) : s \in Seq(Calls(Q))
  <2>1. Calls(R) \subseteq Calls(Q)
    BY <1>1, <1>3 DEF Calls
  <2> QED
    BY <2>1
<1>7. \A f \in Blocks(R) : f \in Blocks(Q)
  <2>1. Seq(IdsOf(R)) \subseteq Seq(IdsOf(Q))
    BY <1>3
  <2> QED
    BY <1>1, <2>1 DEF Blocks
<1> QED
  BY <1>4, <1>5, <1>6, <1>7 DEF Low, CallsOK

\* The visits are of scopes nobody else registers in.
LEMMA VisitedTree ==
    ASSUME NEW R, TreeOK(R, {1}, {}), NEW s, Visited(R, s), s \in 1..R.scopes
    PROVE  TreeOK(R, {1, s}, {})
<1>1. Unsealed(R, s)
  BY DEF TreeOK, Visited
<1> QED
  BY <1>1 DEF TreeOK

\* lower_expr leaves the scopes as they must be, and passes on Registers from
\* which the names of the expressions mean what they meant.
LEMMA LowerExprFaithful ==
    ASSUME WellFormed(reg), TreeOK(reg, {1}, {}), Faithful(reg, uses), NEW s, NEW i,
           i \in Ids => /\ s \in Scopes /\ Visited(reg, s)
                        /\ Same(reg, s, reg.flat[i].scope),
           LowerExpr(s, i)
    PROVE  /\ AddsAtoms(reg', reg) /\ TreeOK(reg', {1}, {}) /\ Faithful(reg', uses')
<1>1. AddsAtoms(reg', reg)
  BY LowerExprAdds
<1>2. /\ WellFormed(reg') /\ Follows(reg', reg) /\ reg'.names = reg.names
      /\ reg'.scopes = reg.scopes /\ IdsOf(reg) \subseteq IdsOf(reg')
      /\ \A j \in IdsOf(reg) : reg'.flat[j] = reg.flat[j]
  <2>1. reg.next \in Nat \ {0} /\ reg'.next \in Nat \ {0} /\ reg'.next >= reg.next
    BY <1>1, Sizes DEF AddsAtoms, Grows, Follows
  <2> QED
    BY <1>1, <2>1 DEF AddsAtoms, Grows, Follows, IdsOf
<1>3. \A U : Faithful(reg, U) => Faithful(reg', U)
  BY <1>2, SameStays DEF Faithful
<1>4. CASE i \notin Ids
  BY <1>1, <1>3, <1>4 DEF LowerExpr
<1>5. CASE i \in Ids
  <2> DEFINE made == {<<i, s>>} \cup {<<j, s>> : j \in reg.next..(reg'.next - 1)}
  <2>1. /\ s \in 1..reg.scopes /\ Visited(reg, s) /\ Same(reg, s, reg.flat[i].scope)
        /\ i \in IdsOf(reg)
    BY <1>5 DEF Scopes, Ids
  <2>2. /\ reg' = Again(reg, s, i)
        /\ uses' = uses \cup IF reg.flat[i].tag = "ExprStructCall" THEN made ELSE Uses(reg, s, i)
    BY <1>5 DEF LowerExpr
  <2>3. /\ reg.flat[i].pos \in Nat /\ reg.next \in Nat \ {0} /\ TreeOK(reg, {1, s}, {})
    BY <2>1, VisitedTree, Sizes, EntryFacts DEF EntryType
  <2>4. CASE reg' = reg
    <3>1. \A j \in reg.next..(reg'.next - 1) : FALSE
      BY <2>3, <2>4
    <3>2. Faithful(reg, {<<i, s>>})
      BY <2>1 DEF Faithful
    <3>3. Faithful(reg, made)
      BY <3>1, <3>2 DEF Faithful
    <3>4. Faithful(reg, Uses(reg, s, i))
      BY <2>1, UsesFaithful
    <3> QED
      BY <1>1, <2>2, <2>4, <3>3, <3>4 DEF Faithful
  <2>5. CASE reg' # reg
    <3> DEFINE t == reg.flat[i - 1].tag
               p == reg.flat[i].pos
               Q == Atom(reg, s, t, p)
    <3>1. reg.flat[i].tag = "ExprStructCall" /\ Before(reg, i) # {} /\ reg' = Q
      BY <2>2, <2>5 DEF Again
    <3>2. t \in AtomTags /\ s \in {1, s}
      BY <3>1 DEF Before
    <3> HIDE DEF t, p
    <3>3. /\ TreeOK(Q, {1, s}, {}) /\ Q.next = reg.next + 1 /\ Q.flat[reg.next].scope = s
      <4> DEFINE X == {1, s}
      <4>1. s \in X /\ TreeOK(reg, X, {}) /\ p \in Nat
        BY <2>3 DEF p
      <4> HIDE DEF X
      <4>2. TreeOK(Q, X, {}) /\ Q.next = reg.next + 1 /\ Q.flat[reg.next].scope = s
        BY <3>2, <4>1, AtomTree
      <4> QED
        BY <4>2 DEF X
    <3> HIDE DEF Q
    <3>4. TreeOK(reg', {1}, {})
      <4> DEFINE X == {1, s}
                 Y == {1}
      <4>1. TreeOK(reg', X, {}) /\ 1 \in Y /\ Y \subseteq X
        BY <3>1, <3>3
      <4> HIDE DEF X, Y
      <4>2. TreeOK(reg', Y, {})
        BY <4>1, TreeLess
      <4> QED
        BY <4>2 DEF Y
    <3>5. \A j \in reg.next..(reg'.next - 1) : j \in IdsOf(reg') /\ reg'.flat[j].scope = s
      <4>1. reg.next..reg.next = {reg.next}
        BY <2>3
      <4>2. reg'.next - 1 = reg.next /\ reg.next \in 1..(reg'.next - 1)
        BY <2>3, <3>1, <3>3
      <4> QED
        BY <3>1, <3>3, <4>1, <4>2 DEF IdsOf
    <3>6. Same(reg', s, s) /\ Same(reg', s, reg'.flat[i].scope) /\ s \in 1..reg'.scopes
      BY <1>2, <2>1, SameStays DEF Same
    <3>7. Faithful(reg', made)
      BY <1>2, <2>1, <3>5, <3>6 DEF Faithful
    <3>8. uses' = uses \cup made /\ Faithful(reg', uses)
      BY <1>3, <2>2, <3>1
    <3> HIDE DEF made
    <3>9. Faithful(reg', uses')
      BY <3>7, <3>8 DEF Faithful
    <3> QED
      BY <1>1, <3>4, <3>9
  <2> QED
    BY <2>4, <2>5
<1> QED
  BY <1>4, <1>5

\* A nonempty sequence has a first and a last element.
LEMMA Ends ==
    ASSUME NEW T, NEW q \in Seq(T), q # <<>>
    PROVE  /\ Len(q) \in DOMAIN q /\ 1 \in DOMAIN q /\ Len(q) \in Nat \ {0}
           /\ DOMAIN q = 1..Len(q) /\ Head(q) = q[1] /\ q[Len(q)] \in T
<1>1. Len(q) \in Nat /\ DOMAIN q = 1..Len(q) /\ Len(q) # 0
  BY EmptySeq
<1>2. Len(q) \in 1..Len(q) /\ 1 \in 1..Len(q)
  BY <1>1
<1> QED
  BY <1>1, <1>2

\* The loop of lower_stmt goes on.
LEMMA PastLow ==
    ASSUME NEW R, NEW c, CallsOK(R, c), c # <<>>, R.next \in Nat, NEW i \in IdsOf(R)
    PROVE  LET l == Len(c) IN CallsOK(R, [c EXCEPT ![l] = Past(c[l], i)])
<1> DEFINE l == Len(c)
           p == Past(c[l], i)
           Q == [c EXCEPT ![l] = p]
<1>1. c \in Seq(Calls(R)) /\ l \in DOMAIN c /\ c[l] \in Calls(R)
  BY Ends DEF CallsOK
<1>2. i + 1 \in 1..R.next
  BY DEF IdsOf
<1>3. p \in Calls(R) /\ p.entry = c[l].entry /\ p.todo = c[l].todo
  BY <1>1, <1>2 DEF Calls, Past
<1> HIDE DEF p
<1>4. /\ Q \in Seq(Calls(R)) /\ DOMAIN Q = DOMAIN c
      /\ \A k \in DOMAIN c : Q[k] = IF k = l THEN p ELSE c[k]
  BY <1>1, <1>3
<1> HIDE DEF Q
<1>5. \A k \in DOMAIN Q : Q[k].entry = c[k].entry /\ Q[k].todo = c[k].todo
  BY <1>3, <1>4
<1>6. CallsOK(R, Q)
  BY <1>4, <1>5 DEF CallsOK
<1> QED
  BY <1>6 DEF Q, p

\* A handler calls lower_stmt.
LEMMA VisitLow ==
    ASSUME NEW R, NEW c, CallsOK(R, c), R.next \in Nat \ {0}, NEW e \in {0} \cup IdsOf(R),
           NEW todo \in Seq(1..R.scopes) \ {<<>>},
           \A m \in DOMAIN todo : Visited(R, todo[m]), c # <<>> => e # 0
    PROVE  CallsOK(R, Append(c, Visit(e, todo)))
<1> DEFINE v == Visit(e, todo)
           Q == Append(c, v)
           n == Len(c)
<1>1. c \in Seq(Calls(R)) /\ n \in Nat /\ DOMAIN c = 1..n
  BY DEF CallsOK
<1>2. v \in Calls(R) /\ v.entry = e /\ v.todo = todo
  <2>1. 1 \in 1..R.next
    OBVIOUS
  <2> QED
    BY <2>1 DEF Calls, Visit
<1> HIDE DEF v
<1>3. /\ Q \in Seq(Calls(R)) /\ DOMAIN Q = 1..(n + 1) /\ Q[n + 1] = v
      /\ \A k \in 1..n : Q[k] = c[k]
  BY <1>1, <1>2
<1> HIDE DEF Q, n
<1>4. \A k \in 1..(n + 1) : k \in 1..n \/ k = n + 1
  BY <1>1
<1>5. n + 1 > 1 => c # <<>>
  BY DEF n
<1>6. ASSUME NEW k \in DOMAIN Q
      PROVE  /\ k > 1 => Q[k].entry # 0
             /\ \A m \in DOMAIN Q[k].todo : Visited(R, Q[k].todo[m])
  <2>1. CASE k \in 1..n
    BY <1>1, <1>3, <2>1 DEF CallsOK
  <2>2. CASE k = n + 1
    BY <1>2, <1>3, <1>5, <2>2
  <2> QED
    BY <1>3, <1>4, <2>1, <2>2
<1>7. CallsOK(R, Q)
  BY <1>3, <1>6 DEF CallsOK
<1> QED
  BY <1>7 DEF Q, v

\* A body with one more entry is a body.
LEMMA EmitLow ==
    ASSUME NEW R, NEW b \in Blocks(R), NEW s \in 1..R.scopes, NEW i \in IdsOf(R)
    PROVE  [b EXCEPT ![s] = Append(@, i)] \in Blocks(R)
<1>1. Append(b[s], i) \in Seq(IdsOf(R))
  BY DEF Blocks
<1> QED
  BY <1>1 DEF Blocks

\* lower_stmt returns, and the handler goes on with its next scope or returns.
LEMMA EndLow ==
    ASSUME NEW R, NEW c, CallsOK(R, c), c # <<>>, R.next \in Nat \ {0}
    PROVE  LET l == Len(c)
               e == c[l].entry
           IN /\ CallsOK(R, SubSeq(c, 1, l - 1))
              /\ Len(c[l].todo) > 1 => CallsOK(R, [c EXCEPT ![l] = Visit(e, Tail(c[l].todo))])
<1> DEFINE l == Len(c)
           todo == c[l].todo
           v == Visit(c[l].entry, Tail(todo))
           P == SubSeq(c, 1, l - 1)
           Q == [c EXCEPT ![l] = v]
<1>1. c \in Seq(Calls(R)) /\ l \in DOMAIN c /\ c[l] \in Calls(R) /\ l \in Nat \ {0} /\ DOMAIN c = 1..l
  BY Ends DEF CallsOK
<1>2. CallsOK(R, P)
  <2>1. P \in Seq(Calls(R)) /\ DOMAIN P = 1..(l - 1) /\ \A k \in 1..(l - 1) : k \in DOMAIN c /\ P[k] = c[k]
    BY <1>1
  <2> HIDE DEF P
  <2> QED
    BY <2>1 DEF CallsOK
<1>3. ASSUME Len(todo) > 1 PROVE CallsOK(R, Q)
  <2>1. todo \in Seq(1..R.scopes) /\ c[l].entry \in {0} \cup IdsOf(R)
    BY <1>1 DEF Calls
  <2>2. /\ Tail(todo) \in Seq(1..R.scopes) /\ Tail(todo) # <<>>
        /\ \A m \in DOMAIN Tail(todo) : m + 1 \in DOMAIN todo /\ Tail(todo)[m] = todo[m + 1]
    <3> HIDE DEF todo
    <3> QED
      BY <1>3, <2>1, SMTT(30)
  <2>3. \A m \in DOMAIN Tail(todo) : Visited(R, Tail(todo)[m])
    <3>1. \A m \in DOMAIN todo : Visited(R, todo[m])
      BY <1>1 DEF CallsOK
    <3> HIDE DEF todo
    <3> QED
      BY <2>2, <3>1
  <2>4. v \in Calls(R) /\ v.entry = c[l].entry /\ v.todo = Tail(todo)
    <3>1. 1 \in 1..R.next
      OBVIOUS
    <3> HIDE DEF todo
    <3> QED
      BY <2>1, <2>2, <3>1 DEF Calls, Visit
  <2> HIDE DEF v
  <2>5. /\ Q \in Seq(Calls(R)) /\ DOMAIN Q = DOMAIN c
        /\ \A k \in DOMAIN c : Q[k] = IF k = l THEN v ELSE c[k]
    BY <1>1, <2>4
  <2> HIDE DEF Q
  <2> QED
    BY <2>3, <2>4, <2>5 DEF CallsOK
<1> QED
  BY <1>2, <1>3

\* What lowering keeps, over the registers and its own state.
Lowering == /\ WellFormed(reg) /\ TreeOK(reg, {1}, {})
            /\ Low(reg, calls, ir, uses)
Lowers == TreeOK(reg', {1}, {}) /\ Low(reg', calls', ir', uses')

\* The scope of the entry the loop comes to is one that some entry leads to.
LEMMA UpcomingVisited ==
    ASSUME Lowering, NEW i \in Upcoming
    PROVE  /\ calls # <<>> /\ i \in IdsOf(reg) /\ reg.flat[i].scope = Scope
           /\ Scope \in 1..reg.scopes /\ Visited(reg, Scope)
<1>1. calls # <<>> /\ i \in Left
  BY DEF Upcoming
<1>2. i \in IdsOf(reg) /\ reg.flat[i].scope = Scope
  BY <1>1 DEF Left
<1>3. Scope \in 1..reg.scopes
  BY UpcomingScope DEF Lowering, Scopes
<1>4. Call \in Calls(reg) /\ Len(calls) \in DOMAIN calls
  BY <1>1, Ends DEF Lowering, Low, CallsOK, Call
<1>5. Call.todo \in Seq(1..reg.scopes) /\ Call.todo # <<>>
  BY <1>4 DEF Calls
<1>6. Scope = Call.todo[1] /\ 1 \in DOMAIN Call.todo
  BY <1>5, Ends DEF Scope
<1>7. \A m \in DOMAIN Call.todo : Visited(reg, Call.todo[m])
  BY <1>4 DEF Lowering, Low, CallsOK, Call
<1> QED
  BY <1>1, <1>2, <1>3, <1>6, <1>7

\* The loop goes on behind the entry it has lowered, or let drop.
LEMMA GoesOn ==
    ASSUME Lowering, NEW i \in Upcoming,
           AddsAtoms(reg', reg), TreeOK(reg', {1}, {}), Faithful(reg', uses'),
           calls' = SetCall(Past(Call, i)), UNCHANGED ir \/ Emit(Scope, i)
    PROVE  Lowers
<1>1. Low(reg', calls, ir, uses) /\ WellFormed(reg')
  BY LowGrows DEF Lowering, AddsAtoms, Grows
<1>2. calls # <<>> /\ i \in IdsOf(reg') /\ Scope \in 1..reg'.scopes /\ reg'.next \in Nat
  <2>1. /\ calls # <<>> /\ i \in IdsOf(reg) /\ Scope \in 1..reg.scopes
    BY UpcomingVisited
  <2>2. reg'.scopes = reg.scopes /\ reg'.next \in Nat /\ reg'.next >= reg.next /\ reg.next \in Nat
    BY <1>1, Sizes DEF AddsAtoms, Grows, Follows, Lowering
  <2> QED
    BY <2>1, <2>2 DEF IdsOf
<1>3. CallsOK(reg', calls')
  <2>1. calls' = [calls EXCEPT ![Len(calls)] = Past(calls[Len(calls)], i)]
    BY DEF SetCall, Call
  <2>2. CallsOK(reg', calls)
    BY <1>1 DEF Low
  <2>3. CallsOK(reg', [calls EXCEPT ![Len(calls)] = Past(calls[Len(calls)], i)])
    BY <1>2, <2>2, PastLow
  <2> QED
    BY <2>1, <2>3
<1>4. ir' \in Blocks(reg')
  BY <1>1, <1>2, EmitLow DEF Low, Emit
<1> QED
  BY <1>3, <1>4 DEF Lowers, Low

\* The registers are as they were.
LEMMA SameRegister ==
    ASSUME Lowering, UNCHANGED <<reg, uses>>
    PROVE  AddsAtoms(reg', reg) /\ TreeOK(reg', {1}, {}) /\ Faithful(reg', uses')
<1>1. reg' = reg /\ uses' = uses
  OBVIOUS
<1>2. AddsAtoms(reg, reg) /\ TreeOK(reg, {1}, {}) /\ Faithful(reg, uses)
  BY AddsNothing DEF Lowering, Low
<1> QED
  BY <1>1, <1>2

\* Nothing is lowered for a definition, nor for a return that is dropped.
LEMMA DefinitionLowers ==
    ASSUME Lowering, NEW i \in Upcoming, LowerDefinition(i) \/ DropReturn(i)
    PROVE  Lowers
<1>1. UNCHANGED <<reg, uses>> /\ calls' = SetCall(Past(Call, i)) /\ (UNCHANGED ir \/ Emit(Scope, i))
  BY DEF LowerDefinition, DropReturn
<1> QED
  BY <1>1, SameRegister, GoesOn

\* What the handlers of a declaration, of an expression statement and of a
\* return lower in the scope of the statement.
LEMMA InitialiserSame ==
    ASSUME Lowering, NEW i \in IdsOf(reg), reg.flat[i].tag \in Declared \cup {"Return"},
           reg.flat[i].expr \in Ids
    PROVE  Same(reg, reg.flat[i].scope, reg.flat[reg.flat[i].expr].scope)
<1> DEFINE e == reg.flat[i]
           x == reg.flat[e.expr].scope
<1>1. Fits(reg, i) /\ e.expr # 0
  BY Sizes DEF Lowering, TreeOK, Ids, IdsOf
<1>2. x = e.scope \/ Nameless(reg, x, e.scope)
  BY <1>1 DEF Fits, Declared
<1> HIDE DEF x, e
<1>3. CASE x = e.scope
  BY <1>3 DEF Same, x, e
<1>4. CASE Nameless(reg, x, e.scope)
  <2>1. Same(reg, x, e.scope)
    BY <1>4, NamelessSame DEF Lowering
  <2> QED
    BY <2>1 DEF Same, x, e
<1> QED
  BY <1>2, <1>3, <1>4

\* What register_from_scope finds was registered in a scope of the same names.
LEMMA FoundSame ==
    ASSUME Lowering, NEW s, NEW x, RegisterFromScope(reg, s, x) \in Ids
    PROVE  /\ s \in Scopes
           /\ Same(reg, s, reg.flat[RegisterFromScope(reg, s, x)].scope)
<1>1. RegisterFromScope(reg, s, x) # 0
  BY Sizes DEF Ids, IdsOf, Lowering
<1>2. reg.flat[RegisterFromScope(reg, s, x)].scope = s
  BY <1>1 DEF RegisterFromScope
<1>3. s \in Scopes
  BY FoundScope DEF Lowering
<1> QED
  BY <1>2, <1>3 DEF Same

\* What the handlers of a declaration, of an expression statement and of a
\* return add to the register.
LEMMA StatementGrows ==
    ASSUME Lowering, NEW i \in Upcoming, LowerBinding(i) \/ LowerExprStmt(i) \/ LowerReturn(i)
    PROVE  AddsAtoms(reg', reg) /\ TreeOK(reg', {1}, {}) /\ Faithful(reg', uses')
<1>1. /\ i \in IdsOf(reg) /\ reg.flat[i].scope = Scope
      /\ Scope \in 1..reg.scopes /\ Visited(reg, Scope)
  BY UpcomingVisited
<1>2. ASSUME NEW x, x \in Ids => Same(reg, Scope, reg.flat[x].scope), LowerExpr(Scope, x)
      PROVE  AddsAtoms(reg', reg) /\ TreeOK(reg', {1}, {}) /\ Faithful(reg', uses')
  BY <1>1, <1>2, LowerExprFaithful DEF Lowering, Low, Scopes
<1>3. CASE LowerExprStmt(i)
  <2> DEFINE x == RegisterFromScope(reg, Scope, reg.flat[i].expr)
  <2>1. LowerExpr(Scope, x) /\ (x \in Ids => Same(reg, Scope, reg.flat[x].scope))
    BY <1>3, FoundSame DEF LowerExprStmt
  <2> HIDE DEF x
  <2> QED
    BY <1>2, <2>1
<1>4. CASE LowerBinding(i) \/ LowerReturn(i)
  <2> DEFINE x == reg.flat[i].expr
  <2>1. LowerExpr(Scope, x) /\ reg.flat[i].tag \in Declared \cup {"Return"}
    BY <1>4 DEF LowerBinding, LowerReturn, At
  <2>2. x \in Ids => Same(reg, Scope, reg.flat[x].scope)
    BY <1>1, <2>1, InitialiserSame
  <2> HIDE DEF x
  <2> QED
    BY <1>2, <2>1, <2>2
<1> QED
  BY <1>3, <1>4

\* These handlers keep what lowering keeps.
LEMMA StatementLowers ==
    ASSUME Lowering, NEW i \in Upcoming, LowerBinding(i) \/ LowerExprStmt(i) \/ LowerReturn(i)
    PROVE  Lowers
<1>1. calls' = SetCall(Past(Call, i)) /\ Emit(Scope, i)
  BY DEF LowerBinding, LowerExprStmt, LowerReturn
<1> QED
  BY <1>1, StatementGrows, GoesOn

\* The scopes an entry leads to.
LEMMA KidsLed ==
    ASSUME Lowering, NEW i \in IdsOf(reg), reg.flat[i].tag \in Branching
    PROVE  /\ reg.flat[i].kids \in Seq(1..reg.scopes)
           /\ \A k \in DOMAIN reg.flat[i].kids : Visited(reg, reg.flat[i].kids[k])
           /\ CASE reg.flat[i].tag = "Function" -> Len(reg.flat[i].kids) = 1
                [] reg.flat[i].tag \in {"Return", "ExprStmt", "Atomic"} -> reg.flat[i].kids = <<>>
                [] OTHER -> Len(reg.flat[i].kids) >= 2
<1> DEFINE e == reg.flat[i]
           q == e.kids
<1>1. Leads(reg, e, e.scope) /\ e \in EntryType /\ e.scope \in 1..reg.scopes /\ reg.scopes \in Nat
  BY Sizes, EntryFacts DEF Lowering, TreeOK
<1>2. KidsOf(e) \subseteq (e.scope + 1)..reg.scopes
  BY <1>1 DEF Leads
<1>3. q \in Seq(Nat) /\ \A k \in DOMAIN q : q[k] \in KidsOf(e)
  BY <1>1 DEF EntryType, KidsOf
<1>4. \A k \in DOMAIN q : Led(reg, q[k])
  BY <1>3 DEF Led
<1>5. \A k \in DOMAIN q : q[k] \in 1..reg.scopes
  <2> HIDE DEF q, e
  <2>1. (e.scope + 1)..reg.scopes \subseteq 1..reg.scopes
    BY <1>1 DEF e
  <2> QED
    BY <1>2, <1>3, <2>1
<1>6. (CASE e.tag = "Function" -> Len(e.kids) = 1
         [] e.tag \in {"Return", "ExprStmt", "Atomic"} -> e.kids = <<>>
         [] OTHER -> Len(e.kids) >= 2)
  BY <1>1 DEF Leads
<1>7. q \in Seq(1..reg.scopes)
  <2> DEFINE T == 1..reg.scopes
  <2>1. q \in Seq(Nat) /\ \A k \in DOMAIN q : q[k] \in T
    BY <1>3, <1>5
  <2> HIDE DEF q, T
  <2>2. q \in Seq(T)
    BY <2>1
  <2> QED
    BY <2>2 DEF T
<1> QED
  BY <1>4, <1>6, <1>7 DEF Visited

\* A handler calls lower_stmt on scopes its entry leads to.
LEMMA GoesIn ==
    ASSUME Lowering, NEW i \in Upcoming,
           AddsAtoms(reg', reg), TreeOK(reg', {1}, {}), Faithful(reg', uses'),
           NEW todo \in Seq(1..reg.scopes) \ {<<>>}, \A m \in DOMAIN todo : Visited(reg, todo[m]),
           calls' = Append(SetCall(Past(Call, i)), Visit(i, todo)), UNCHANGED ir
    PROVE  Lowers
<1>1. Low(reg', calls, ir, uses) /\ WellFormed(reg')
  BY LowGrows DEF Lowering, AddsAtoms, Grows
<1>2. calls # <<>> /\ i \in IdsOf(reg) /\ i # 0
  BY UpcomingVisited, Sizes DEF Lowering, IdsOf
<1>3. /\ reg'.scopes = reg.scopes /\ reg'.next \in Nat \ {0} /\ IdsOf(reg) \subseteq IdsOf(reg')
      /\ \A j \in IdsOf(reg) : reg'.flat[j] = reg.flat[j]
  <2>1. /\ reg'.scopes = reg.scopes /\ reg'.next \in Nat \ {0} /\ reg'.next >= reg.next
        /\ reg.next \in Nat /\ \A j \in IdsOf(reg) : reg'.flat[j] = reg.flat[j]
    BY <1>1, Sizes DEF AddsAtoms, Grows, Follows, Lowering
  <2> QED
    BY <2>1 DEF IdsOf
<1>4. \A m \in DOMAIN todo : Visited(reg', todo[m])
  BY <1>3 DEF Visited, Led
<1> DEFINE c == SetCall(Past(Call, i))
<1>5. CallsOK(reg', c)
  <2>1. c = [calls EXCEPT ![Len(calls)] = Past(calls[Len(calls)], i)]
    BY DEF SetCall, Call
  <2>2. CallsOK(reg', calls)
    BY <1>1 DEF Low
  <2>3. CallsOK(reg', [calls EXCEPT ![Len(calls)] = Past(calls[Len(calls)], i)])
    BY <1>2, <1>3, <2>2, PastLow
  <2> QED
    BY <2>1, <2>3
<1> HIDE DEF c
<1>6. CallsOK(reg', Append(c, Visit(i, todo)))
  <2>1. i \in {0} \cup IdsOf(reg') /\ todo \in Seq(1..reg'.scopes) \ {<<>>}
    BY <1>2, <1>3
  <2> QED
    BY <1>2, <1>3, <1>4, <1>5, <2>1, VisitLow
<1>7. CallsOK(reg', calls') /\ ir' \in Blocks(reg')
  BY <1>1, <1>6 DEF c, Low
<1> QED
  BY <1>7 DEF Lowers, Low

\* lower_function, up to its call of lower_stmt.
LEMMA FunctionLowers ==
    ASSUME Lowering, NEW i \in Upcoming, LowerFunction(i) PROVE Lowers
<1> DEFINE todo == reg.flat[i].kids
<1>1. /\ UNCHANGED <<reg, uses, ir>> /\ reg.flat[i].tag = "Function"
      /\ calls' = Append(SetCall(Past(Call, i)), Visit(i, todo))
  BY DEF LowerFunction, At
<1>2. i \in IdsOf(reg) /\ reg.flat[i].tag \in Branching
  BY <1>1, UpcomingVisited DEF Branching
<1>3. /\ todo \in Seq(1..reg.scopes) /\ Len(todo) = 1
      /\ \A m \in DOMAIN todo : Visited(reg, todo[m])
  BY <1>1, <1>2, KidsLed
<1> HIDE DEF todo
<1>4. todo # <<>>
  BY <1>3
<1> QED
  BY <1>1, <1>3, <1>4, SameRegister, GoesIn

\* The bodies of a branch, loop or match are among the scopes it leads to.
LEMMA BodiesLed ==
    ASSUME NEW T, NEW e, e.kids \in Seq(T), Len(e.kids) >= 2
    PROVE  /\ Bodies(e) \in Seq(T)
           /\ \A m \in DOMAIN Bodies(e) : \E k \in DOMAIN e.kids : Bodies(e)[m] = e.kids[k]
<1> DEFINE q == e.kids
<1>1. CASE e.tag = "Match"
  <2>1. Bodies(e) = SubSeq(q, 3, Len(q))
    BY <1>1 DEF Bodies
  <2> HIDE DEF q
  <2>2. /\ SubSeq(q, 3, Len(q)) \in Seq(T)
        /\ \A m \in DOMAIN SubSeq(q, 3, Len(q)) :
               m + 2 \in DOMAIN q /\ SubSeq(q, 3, Len(q))[m] = q[m + 2]
    BY DEF q
  <2> QED
    BY <2>1, <2>2 DEF q
<1>2. CASE e.tag # "Match"
  <2>1. Bodies(e) = Tail(q)
    BY <1>2 DEF Bodies
  <2> HIDE DEF q
  <2>2. /\ Tail(q) \in Seq(T)
        /\ \A m \in DOMAIN Tail(q) : m + 1 \in DOMAIN q /\ Tail(q)[m] = q[m + 1]
    BY DEF q
  <2> QED
    BY <2>1, <2>2 DEF q
<1> QED
  BY <1>1, <1>2

\* The register after the condition or the subject, and the bodies to visit.
LEMMA FlowGrows ==
    ASSUME Lowering, NEW i \in Upcoming, LowerFlow(i)
    PROVE  /\ AddsAtoms(reg', reg) /\ TreeOK(reg', {1}, {}) /\ Faithful(reg', uses')
           /\ Bodies(reg.flat[i]) \in Seq(1..reg.scopes)
           /\ \A m \in DOMAIN Bodies(reg.flat[i]) : Visited(reg, Bodies(reg.flat[i])[m])
<1> DEFINE e == reg.flat[i]
           s == e.kids[1]
           x == RegisterFromScope(reg, s, e.expr)
<1>1. LowerExpr(s, x) /\ e.tag \in {"If", "Elif", "While", "For", "Match"}
  BY DEF LowerFlow, CondScope, At
<1>2. i \in IdsOf(reg) /\ e.tag \in Branching
  BY <1>1, UpcomingVisited DEF Branching, Flow
<1>3. /\ e.kids \in Seq(1..reg.scopes) /\ Len(e.kids) >= 2
      /\ \A k \in DOMAIN e.kids : Visited(reg, e.kids[k])
  BY <1>1, <1>2, KidsLed
<1>4. /\ Bodies(e) \in Seq(1..reg.scopes)
      /\ \A m \in DOMAIN Bodies(e) : \E k \in DOMAIN e.kids : Bodies(e)[m] = e.kids[k]
  <2> HIDE DEF e
  <2> QED
    BY <1>3, BodiesLed
<1>5. 1 \in DOMAIN e.kids /\ Visited(reg, s)
  BY <1>3
<1>6. x \in Ids => s \in Scopes /\ Same(reg, s, reg.flat[x].scope)
  BY FoundSame
<1> HIDE DEF x, s, e
<1>7. AddsAtoms(reg', reg) /\ TreeOK(reg', {1}, {}) /\ Faithful(reg', uses')
  BY <1>1, <1>5, <1>6, LowerExprFaithful DEF Lowering, Low
<1>8. \A m \in DOMAIN Bodies(e) : Visited(reg, Bodies(e)[m])
  BY <1>3, <1>4
<1> QED
  BY <1>4, <1>7, <1>8 DEF e

\* lower_if, lower_while, lower_for and lower_match, up to the first call.
LEMMA FlowLowers ==
    ASSUME Lowering, NEW i \in Upcoming, LowerFlow(i) PROVE Lowers
<1> DEFINE todo == Bodies(reg.flat[i])
<1>1. IF todo = <<>>
      THEN calls' = SetCall(Past(Call, i)) /\ Emit(Scope, i)
      ELSE calls' = Append(SetCall(Past(Call, i)), Visit(i, todo)) /\ UNCHANGED ir
  BY DEF LowerFlow
<1>2. /\ AddsAtoms(reg', reg) /\ TreeOK(reg', {1}, {}) /\ Faithful(reg', uses')
      /\ todo \in Seq(1..reg.scopes) /\ \A m \in DOMAIN todo : Visited(reg, todo[m])
  BY FlowGrows
<1> HIDE DEF todo
<1>3. CASE todo = <<>>
  BY <1>1, <1>2, <1>3, GoesOn
<1>4. CASE todo # <<>>
  BY <1>1, <1>2, <1>4, GoesIn
<1> QED
  BY <1>3, <1>4

\* lower_stmt returns.
LEMMA EndLowers == ASSUME Lowering, EndVisit PROVE Lowers
<1> DEFINE l == Len(calls)
           e == Call.entry
<1>1. reg' = reg /\ uses' = uses /\ calls # <<>> /\ TreeOK(reg', {1}, {})
  BY DEF EndVisit, Lowering
<1>2. CallsOK(reg, calls) /\ ir \in Blocks(reg) /\ Faithful(reg, uses) /\ reg.next \in Nat \ {0}
  BY Sizes DEF Lowering, Low
<1>3. /\ calls \in Seq(Calls(reg)) /\ l \in Nat \ {0} /\ l \in DOMAIN calls
      /\ DOMAIN calls = 1..l
  BY <1>1, <1>2, Ends DEF CallsOK
<1>4. CASE Len(Call.todo) > 1
  <2>1. calls' = [calls EXCEPT ![l] = Visit(e, Tail(calls[l].todo))] /\ ir' = ir
    BY <1>4 DEF EndVisit, SetCall, Call
  <2>2. CallsOK(reg, [calls EXCEPT ![l] = Visit(e, Tail(calls[l].todo))])
    BY <1>1, <1>2, <1>4, EndLow DEF Call
  <2> QED
    BY <1>1, <1>2, <2>1, <2>2 DEF Lowers, Low
<1>5. CASE ~(Len(Call.todo) > 1)
  <2>1. /\ calls' = SubSeq(calls, 1, l - 1)
        /\ UNCHANGED ir \/ (~IsMain /\ Emit(Head(calls[l - 1].todo), e))
    BY <1>5 DEF EndVisit
  <2>2. CallsOK(reg, SubSeq(calls, 1, l - 1))
    BY <1>1, <1>2, EndLow
  <2>3. CASE UNCHANGED ir
    BY <1>1, <1>2, <2>1, <2>2, <2>3 DEF Lowers, Low
  <2>4. CASE ~IsMain /\ Emit(Head(calls[l - 1].todo), e)
    <3>1. l > 1 /\ l - 1 \in DOMAIN calls
      <4>1. l # 1
        BY <2>4 DEF IsMain
      <4> QED
        BY <1>3, <4>1
    <3>2. calls[l - 1] \in Calls(reg) /\ calls[l] \in Calls(reg) /\ e # 0
      BY <1>2, <1>3, <3>1 DEF CallsOK, Call
    <3>3. calls[l - 1].todo \in Seq(1..reg.scopes) /\ calls[l - 1].todo # <<>> /\ e \in IdsOf(reg)
      BY <3>2 DEF Calls, Call
    <3>4. Head(calls[l - 1].todo) \in 1..reg.scopes
      <4> DEFINE q == calls[l - 1].todo
                 T == 1..reg.scopes
      <4>1. q \in Seq(T) /\ q # <<>>
        BY <3>3
      <4> HIDE DEF q, T
      <4>2. Head(q) \in T
        BY <4>1
      <4> QED
        BY <4>2 DEF q, T
    <3>5. ir' \in Blocks(reg)
      BY <1>2, <2>4, <3>3, <3>4, EmitLow DEF Emit
    <3> QED
      BY <1>1, <1>2, <2>1, <2>2, <3>5 DEF Lowers, Low
  <2> QED
    BY <2>1, <2>3, <2>4
<1> QED
  BY <1>4, <1>5

\* The process ends.
LEMMA CrashLowers == ASSUME Lowering, NEW i, CrashReturn(i) PROVE Lowers
<1>1. reg' = reg /\ uses' = uses /\ ir' = ir /\ calls' = <<>>
  BY DEF CrashReturn
<1>2. CallsOK(reg, <<>>)
  BY DEF CallsOK
<1> QED
  BY <1>1, <1>2 DEF Lowers, Lowering, Low

-----------------------------------------------------------------------------
(* What has been emitted.                                                  *)

\* An entry has its bodies inside its scope, among those it leads to.
LEMMA InsideLed ==
    ASSUME NEW R, WellFormed(R), TreeOK(R, {1}, {}), NEW i \in IdsOf(R),
           NEW s \in Inside(R.flat[i])
    PROVE  /\ R.flat[i].tag \in Branching /\ s \in KidsOf(R.flat[i])
           /\ s \in 1..R.scopes /\ R.flat[i].scope < s /\ s # 1
<1> DEFINE e == R.flat[i]
           n == e.scope
<1>1. /\ Leads(R, e, n) /\ e \in EntryType /\ n \in 1..R.scopes /\ R.scopes \in Nat
  BY Sizes, EntryFacts DEF TreeOK
<1>2. e.tag \in Branching
  BY DEF Inside, Branching, Flow
<1>3. s \in KidsOf(e)
  <2>1. CASE e.tag = "Function"
    BY <2>1 DEF Inside
  <2>2. CASE e.tag # "Function"
    <3>1. e.tag \in {"If", "Elif", "While", "For", "Match"} /\ s \in {Bodies(e)[k] : k \in DOMAIN Bodies(e)}
      BY <2>2 DEF Inside
    <3>2. Len(e.kids) >= 2 /\ e.kids \in Seq(Nat)
      BY <1>1, <1>2, <3>1 DEF Leads, EntryType
    <3> HIDE DEF e
    <3>3. \A m \in DOMAIN Bodies(e) : \E k \in DOMAIN e.kids : Bodies(e)[m] = e.kids[k]
      BY <3>2, BodiesLed, SMTT(30)
    <3>4. PICK m \in DOMAIN Bodies(e) : s = Bodies(e)[m]
      BY <3>1
    <3>5. PICK k \in DOMAIN e.kids : s = e.kids[k]
      BY <3>3, <3>4
    <3> QED
      BY <3>5 DEF KidsOf
  <2> QED
    BY <2>1, <2>2
<1>4. s \in (n + 1)..R.scopes
  BY <1>1, <1>2, <1>3 DEF Leads
<1> HIDE DEF e, n
<1>5. s \in 1..R.scopes /\ n < s /\ s # 1
  BY <1>1, <1>4
<1> QED
  BY <1>2, <1>3, <1>5 DEF e, n

\* A scope is the body of one entry only.
LEMMA InsideOnce ==
    ASSUME NEW R, WellFormed(R), TreeOK(R, {1}, {}), NEW i \in IdsOf(R), NEW j \in IdsOf(R),
           NEW s, s \in Inside(R.flat[i]), s \in Inside(R.flat[j])
    PROVE  i = j
<1>1. /\ R.flat[i].tag \in Branching /\ s \in KidsOf(R.flat[i])
      /\ R.flat[j].tag \in Branching /\ s \in KidsOf(R.flat[j])
  BY InsideLed
<1>2. Disjoint(R)
  BY DEF TreeOK
<1> QED
  BY <1>1, <1>2 DEF Disjoint

\* A handler in progress has a scope to be in.
LEMMA CallFacts ==
    ASSUME NEW R, NEW c, CallsOK(R, c), NEW k \in DOMAIN c
    PROVE  /\ c[k] \in Calls(R) /\ c[k].todo \in Seq(1..R.scopes) /\ c[k].todo # <<>>
           /\ c[k].entry \in {0} \cup IdsOf(R) /\ c[k].at \in 1..R.next
           /\ Cur(c, k) = c[k].todo[1] /\ 1 \in DOMAIN c[k].todo
           /\ Cur(c, k) \in Todo(c, k) /\ Todo(c, k) \subseteq 1..R.scopes
           /\ Len(c) \in Nat /\ DOMAIN c = 1..Len(c)
<1>1. c \in Seq(Calls(R)) /\ c[k] \in Calls(R)
  BY DEF CallsOK
<1>2. /\ c[k].todo \in Seq(1..R.scopes) /\ c[k].todo # <<>>
      /\ c[k].entry \in {0} \cup IdsOf(R) /\ c[k].at \in 1..R.next
  BY <1>1 DEF Calls
<1>3. Head(c[k].todo) = c[k].todo[1] /\ 1 \in DOMAIN c[k].todo
  BY <1>2, Ends
<1>4. \A m \in DOMAIN c[k].todo : c[k].todo[m] \in 1..R.scopes
  <2> DEFINE q == c[k].todo
             T == 1..R.scopes
  <2>1. q \in Seq(T)
    BY <1>2
  <2> HIDE DEF q, T
  <2>2. \A m \in DOMAIN q : q[m] \in T
    BY <2>1
  <2> QED
    BY <2>2 DEF q, T
<1>5. Len(c) \in Nat /\ DOMAIN c = 1..Len(c)
  BY <1>1
<1> QED
  BY <1>1, <1>2, <1>3, <1>4, <1>5 DEF Cur, Todo

\* The scopes the handlers are in are distinct, and not done.
LEMMA CursApart ==
    ASSUME NEW R, NEW c, NEW d, CallsOK(R, c), CallsPlaced(R, c, d)
    PROVE  /\ \A j, k \in DOMAIN c : Cur(c, j) = Cur(c, k) => j = k
           /\ \A k \in DOMAIN c : Cur(c, k) \notin d /\ (k > 1 => Cur(c, k) # 1)
           /\ \A j, k \in DOMAIN c : j < k => Cur(c, j) < Cur(c, k)
<1>1. \A k \in DOMAIN c : /\ Cur(c, k) \in Todo(c, k) /\ Cur(c, k) \in Nat /\ Todo(c, k) \cap d = {}
                          /\ Len(c) \in Nat /\ DOMAIN c = 1..Len(c)
  <2>1. ASSUME NEW k \in DOMAIN c PROVE Cur(c, k) \in Todo(c, k) /\ Cur(c, k) \in Nat
    <3>1. Cur(c, k) \in Todo(c, k) /\ Cur(c, k) \in 1..R.scopes
      BY CallFacts
    <3> QED
      BY <3>1
  <2> QED
    BY <2>1, CallFacts DEF CallsPlaced
<1>2. \A k \in DOMAIN c : \A j \in 1..(k - 1) : Cur(c, j) < Cur(c, k)
  BY <1>1 DEF CallsPlaced
<1>3. \A j, k \in DOMAIN c : j < k => Cur(c, j) < Cur(c, k)
  <2>1. ASSUME NEW j \in DOMAIN c, NEW k \in DOMAIN c, j < k PROVE j \in 1..(k - 1)
    BY <1>1, <2>1
  <2> QED
    BY <1>2, <2>1
<1>4. \A j, k \in DOMAIN c : Cur(c, j) = Cur(c, k) => j = k
  <2>1. ASSUME NEW j \in DOMAIN c, NEW k \in DOMAIN c, Cur(c, j) = Cur(c, k) PROVE j = k
    <3>1. ~(j < k) /\ ~(k < j) /\ j \in Nat /\ k \in Nat
      BY <1>1, <1>3, <2>1
    <3> QED
      BY <3>1
  <2> QED
    BY <2>1
<1>5. ASSUME NEW k \in DOMAIN c, k > 1 PROVE Cur(c, k) # 1
  <2>1. 1 \in DOMAIN c /\ 1 \in 1..(k - 1)
    BY <1>1, <1>5
  <2>2. Cur(c, 1) \in Nat \ {0}
    <3>1. Cur(c, 1) \in 1..R.scopes
      BY <2>1, CallFacts
    <3> QED
      BY <3>1
  <2> QED
    BY <1>2, <1>5, <2>1, <2>2
<1>6. \A k \in DOMAIN c : Cur(c, k) \notin d
  BY <1>1
<1> QED
  BY <1>3, <1>4, <1>5, <1>6

\* The handlers of entries are called from the scope of the entry.
LEMMA HandFacts ==
    ASSUME NEW R, NEW c, NEW d, CallsOK(R, c), CallsPlaced(R, c, d),
           NEW i \in IdsOf(R), i # 0, i \in InHand(c)
    PROVE  \E k \in DOMAIN c : /\ k > 1 /\ i = c[k].entry /\ k - 1 \in DOMAIN c
                               /\ R.flat[i].scope = Cur(c, k - 1) /\ c[k - 1].at = i + 1
<1>1. PICK k \in DOMAIN c : i = c[k].entry
  BY DEF InHand
<1>2. Len(c) \in Nat /\ DOMAIN c = 1..Len(c) /\ c # <<>>
  BY <1>1, CallFacts
<1>3. k > 1 /\ k - 1 \in DOMAIN c
  <2>1. k # 1
    BY <1>1, <1>2 DEF CallsPlaced
  <2> QED
    BY <1>2, <2>1
<1>4. R.flat[i].scope = Cur(c, k - 1) /\ c[k - 1].at = i + 1
  BY <1>1, <1>3 DEF CallsPlaced
<1> QED
  BY <1>1, <1>3, <1>4

\* What is finished in the scope a handler is in.
LEMMA FinishedHere ==
    ASSUME NEW R, NEW c, NEW d, CallsOK(R, c), CallsPlaced(R, c, d), NEW i \in IdsOf(R),
           NEW k \in DOMAIN c, R.flat[i].scope = Cur(c, k)
    PROVE  Finished(R, c, d, i) <=> i \notin InHand(c) /\ i < c[k].at
<1>1. /\ \A j \in DOMAIN c : Cur(c, j) = Cur(c, k) => j = k
      /\ Cur(c, k) \notin d
  BY CursApart
<1> QED
  BY <1>1 DEF Finished

\* Entries of atoms are no statements.
LEMMA AtomsUnwanted ==
    ASSUME NEW R, NEW Q, WellFormed(R), AddsAtoms(Q, R)
    PROVE  /\ \A slot, s : Wanted(Q, slot, s) = Wanted(R, slot, s)
           /\ \A i \in IdsOf(Q) \ IdsOf(R) : Inside(Q.flat[i]) = {}
           /\ \A i \in IdsOf(R) : i \in IdsOf(Q) /\ Q.flat[i] = R.flat[i]
           /\ Q.scopes = R.scopes
<1>1. /\ \A i \in IdsOf(R) : i \in IdsOf(Q) /\ Q.flat[i] = R.flat[i]
      /\ \A i \in IdsOf(Q) \ IdsOf(R) : Q.flat[i].tag \in AtomTags
      /\ Q.scopes = R.scopes
  <2>1. /\ WellFormed(Q) /\ R.next \in Nat \ {0} /\ Q.next \in Nat \ {0} /\ Q.next >= R.next
    BY Sizes DEF AddsAtoms, Grows, Follows
  <2> QED
    BY <2>1 DEF AddsAtoms, Grows, Follows, IdsOf
<1>2. \A i \in IdsOf(Q) \ IdsOf(R) : Inside(Q.flat[i]) = {}
  BY <1>1 DEF Inside, AtomTags
<1>3. ASSUME NEW slot, NEW s PROVE Wanted(Q, slot, s) = Wanted(R, slot, s)
  <2>1. \A i \in IdsOf(Q) \ IdsOf(R) :
            Q.flat[i].tag \notin Declared \cup IF s = 1 THEN Definitions ELSE Flow
    BY <1>1 DEF AtomTags, Declared, Definitions, Flow
  <2> QED
    BY <1>1, <2>1 DEF Wanted
<1> QED
  BY <1>1, <1>2, <1>3

\* Entries of expressions leave what is said of the handlers as it is.
LEMMA VisitsGrow ==
    ASSUME NEW R, NEW Q, WellFormed(R), AddsAtoms(Q, R), NEW c, NEW d, NEW b, NEW slot,
           CallsOK(R, c), CallsPlaced(R, c, d), BodiesOK(R, c, d, b, slot)
    PROVE  CallsPlaced(Q, c, d) /\ BodiesOK(Q, c, d, b, slot)
<1>1. /\ \A s : Wanted(Q, slot, s) = Wanted(R, slot, s)
      /\ \A i \in IdsOf(Q) \ IdsOf(R) : Inside(Q.flat[i]) = {}
      /\ \A i \in IdsOf(R) : i \in IdsOf(Q) /\ Q.flat[i] = R.flat[i]
      /\ Q.scopes = R.scopes
  BY AtomsUnwanted
<1>2. \A k \in DOMAIN c : k > 1 => c[k].entry \in IdsOf(R)
  <2>1. ASSUME NEW k \in DOMAIN c, k > 1 PROVE c[k].entry \in IdsOf(R)
    <3>1. c[k].entry \in {0} \cup IdsOf(R)
      BY CallFacts
    <3>2. c[k].entry # 0
      BY <2>1 DEF CallsOK
    <3> QED
      BY <3>1, <3>2
  <2> QED
    BY <2>1
<1>3. CallsPlaced(Q, c, d)
  BY <1>1, <1>2 DEF CallsPlaced
<1>4. \A i \in IdsOf(R) : Finished(Q, c, d, i) <=> Finished(R, c, d, i)
  BY <1>1 DEF Finished
<1>5. \A i \in IdsOf(Q) : Finished(Q, c, d, i) => Inside(Q.flat[i]) \subseteq d
  BY <1>1, <1>4 DEF BodiesOK
<1>6. ASSUME NEW s \in 1..Q.scopes
      PROVE  Ascending(b[s]) /\ Emitted(b[s]) = {i \in Wanted(Q, slot, s) : Finished(Q, c, d, i)}
  <2>1. Wanted(R, slot, s) \subseteq IdsOf(R)
    BY DEF Wanted
  <2>2. Ascending(b[s]) /\ Emitted(b[s]) = {i \in Wanted(R, slot, s) : Finished(R, c, d, i)}
    BY <1>1 DEF BodiesOK
  <2> QED
    BY <1>1, <1>4, <2>1, <2>2
<1>7. ASSUME NEW s \in d \cup UNION {Todo(c, k) : k \in DOMAIN c}, s # 1
      PROVE  \E i \in IdsOf(Q) : s \in Inside(Q.flat[i]) /\ (Finished(Q, c, d, i) \/ i \in InHand(c))
  <2>1. PICK i \in IdsOf(R) : s \in Inside(R.flat[i]) /\ (Finished(R, c, d, i) \/ i \in InHand(c))
    BY <1>7 DEF BodiesOK
  <2> QED
    BY <1>1, <1>4, <2>1
<1> QED
  BY <1>3, <1>5, <1>6, <1>7 DEF BodiesOK

\* Entry i is not among those being handled when the loop comes to it.
LEMMA NotInHand ==
    ASSUME NEW R, NEW c, NEW d, CallsOK(R, c), CallsPlaced(R, c, d), c # <<>>,
           NEW i \in IdsOf(R), i # 0, R.flat[i].scope = Cur(c, Len(c))
    PROVE  i \notin InHand(c)
<1>1. SUFFICES ASSUME i \in InHand(c) PROVE FALSE
  OBVIOUS
<1>2. PICK k \in DOMAIN c : k > 1 /\ k - 1 \in DOMAIN c /\ R.flat[i].scope = Cur(c, k - 1)
  BY <1>1, HandFacts
<1>3. Len(c) \in DOMAIN c /\ DOMAIN c = 1..Len(c) /\ Len(c) \in Nat
  BY Ends DEF CallsOK
<1>4. Len(c) = k - 1
  BY <1>2, <1>3, CursApart
<1> QED
  BY <1>2, <1>3, <1>4

-----------------------------------------------------------------------------
(* The loop goes on.                                                       *)

\* Between the entry it was at and entry i the loop has met nothing.
Quiet(R, c, slot, i) ==
    \A j \in IdsOf(R) :
        R.flat[j].scope = Cur(c, Len(c)) /\ c[Len(c)].at <= j /\ j < i
            => Inside(R.flat[j]) = {} /\ \A s : j \notin Wanted(R, slot, s)

\* The frame of the loop, gone on behind i.
PastLast(c, i) == [c EXCEPT ![Len(c)] = Past(c[Len(c)], i)]

\* The frames after the loop has gone on behind i: only at has changed.
LEMMA PastFrames ==
    ASSUME NEW R, NEW c, NEW d, CallsOK(R, c), CallsPlaced(R, c, d), c # <<>>, NEW i,
           i \in IdsOf(R)
    PROVE  LET P == PastLast(c, i)
               l == Len(c)
           IN /\ DOMAIN P = DOMAIN c /\ Len(P) = l /\ l \in DOMAIN c /\ l \in Nat
              /\ \A k \in DOMAIN c : /\ Cur(P, k) = Cur(c, k) /\ Todo(P, k) = Todo(c, k)
                                     /\ P[k].entry = c[k].entry /\ P[k].todo = c[k].todo
                                     /\ k # l => P[k].at = c[k].at
              /\ P[l].at = i + 1
              /\ InHand(P) = InHand(c)
              /\ CallsPlaced(R, P, d)
<1> DEFINE l == Len(c)
           P == PastLast(c, i)
<1>1. c \in Seq(Calls(R)) /\ l \in DOMAIN c /\ l \in Nat \ {0} /\ DOMAIN c = 1..l /\ c[l] \in Calls(R)
  BY Ends DEF CallsOK
<1>2. /\ Past(c[l], i).at = i + 1 /\ Past(c[l], i).todo = c[l].todo
      /\ Past(c[l], i).entry = c[l].entry
  BY <1>1 DEF Calls, Past
<1>3. /\ DOMAIN P = DOMAIN c /\ Len(P) = l /\ P[l].at = i + 1
      /\ \A k \in DOMAIN c : /\ P[k].entry = c[k].entry /\ P[k].todo = c[k].todo
                             /\ k # l => P[k].at = c[k].at
  BY <1>1, <1>2 DEF PastLast
<1> HIDE DEF P
<1>4. \A k \in DOMAIN c : Cur(P, k) = Cur(c, k) /\ Todo(P, k) = Todo(c, k)
  BY <1>3 DEF Cur, Todo
<1>5. InHand(P) = InHand(c)
  BY <1>3 DEF InHand
<1>6. P # <<>> /\ 1 \in DOMAIN c
  BY <1>1, <1>3
<1>7. \A k \in DOMAIN c : k > 1 => k - 1 \in DOMAIN c /\ k - 1 # l
  BY <1>1
<1>8. \A k \in DOMAIN c : \A j \in 1..(k - 1) : j \in DOMAIN c
  BY <1>1
<1>9. CallsPlaced(R, P, d)
  <2>1. P[1].entry = 0 /\ P[1].todo = <<1>>
    BY <1>3, <1>6 DEF CallsPlaced
  <2>2. ASSUME NEW k \in DOMAIN P
        PROVE  /\ \A m, n \in DOMAIN P[k].todo : P[k].todo[m] = P[k].todo[n] => m = n
               /\ Todo(P, k) \cap d = {}
               /\ \A j \in 1..(k - 1), s \in Todo(P, k) : Cur(P, j) < s
    <3>1. k \in DOMAIN c /\ P[k].todo = c[k].todo /\ Todo(P, k) = Todo(c, k)
      BY <1>3, <1>4, <2>2
    <3>2. /\ \A m, n \in DOMAIN c[k].todo : c[k].todo[m] = c[k].todo[n] => m = n
          /\ Todo(c, k) \cap d = {}
          /\ \A j \in 1..(k - 1), s \in Todo(c, k) : Cur(c, j) < s
      BY <3>1 DEF CallsPlaced
    <3>3. \A j \in 1..(k - 1) : Cur(P, j) = Cur(c, j)
      BY <1>4, <1>8, <3>1
    <3> QED
      BY <3>1, <3>2, <3>3
  <2>3. ASSUME NEW k \in DOMAIN P, k > 1
        PROVE  LET e == R.flat[P[k].entry]
                       IN /\ e.scope = Cur(P, k - 1) /\ P[k - 1].at = P[k].entry + 1
                          /\ Todo(P, k) \subseteq Inside(e)
                          /\ Inside(e) \subseteq Todo(P, k) \cup d
    BY <1>3, <1>4, <1>7, <2>3 DEF CallsPlaced
  <2> QED
    BY <1>6, <2>1, <2>2, <2>3 DEF CallsPlaced
<1> QED
  BY <1>1, <1>3, <1>4, <1>5, <1>9 DEF P

\* The loop finishes what it comes past, whether it has a handler or not.
LEMMA PastFinished ==
    ASSUME NEW R, NEW c, NEW d, WellFormed(R), CallsOK(R, c), CallsPlaced(R, c, d), c # <<>>,
           NEW i \in IdsOf(R), R.flat[i].scope = Cur(c, Len(c)), NEW j \in IdsOf(R)
    PROVE  Finished(R, PastLast(c, i), d, j) <=>
               IF R.flat[j].scope = Cur(c, Len(c)) THEN j <= i ELSE Finished(R, c, d, j)
<1> DEFINE l == Len(c)
           P == PastLast(c, i)
           s == R.flat[j].scope
<1>1. /\ DOMAIN P = DOMAIN c /\ Len(P) = l /\ l \in DOMAIN c
      /\ \A k \in DOMAIN c : Cur(P, k) = Cur(c, k) /\ (k # l => P[k].at = c[k].at)
      /\ P[l].at = i + 1 /\ InHand(P) = InHand(c) /\ CallsPlaced(R, P, d)
  BY PastFrames
<1>2. R.next \in Nat /\ i \in Nat \ {0} /\ j \in Nat \ {0}
  BY Sizes DEF IdsOf
<1>3. CallsOK(R, P)
  BY <1>2, PastLow DEF PastLast
<1>4. CASE s = Cur(c, l)
  <2>1. j \notin InHand(c)
    BY <1>2, <1>4, NotInHand
  <2>2. Finished(R, P, d, j) <=> j < i + 1
    <3>1. s = Cur(P, l) /\ l \in DOMAIN P /\ j \notin InHand(P)
      BY <1>1, <1>4, <2>1
    <3> HIDE DEF P, l
    <3>2. Finished(R, P, d, j) <=> j < P[l].at
      BY <1>1, <1>3, <3>1, FinishedHere DEF s
    <3> QED
      BY <1>1, <3>2
  <2> QED
    BY <1>2, <1>4, <2>2
<1>5. CASE s # Cur(c, l)
  <2> HIDE DEF P
  <2>1. Finished(R, P, d, j) <=> Finished(R, c, d, j)
    BY <1>1, <1>5 DEF Finished
  <2> QED
    BY <1>5, <2>1 DEF P
<1> QED
  BY <1>4, <1>5

\* An ascending sequence with a larger element behind it.
LEMMA AppendAscends ==
    ASSUME NEW q \in Seq(Nat), Ascending(q), NEW i \in Nat, \A x \in Emitted(q) : x < i
    PROVE  Ascending(Append(q, i)) /\ Emitted(Append(q, i)) = Emitted(q) \cup {i}
<1> DEFINE n == Len(q)
           p == Append(q, i)
<1>1. /\ n \in Nat /\ DOMAIN q = 1..n /\ DOMAIN p = 1..(n + 1) /\ p[n + 1] = i
      /\ \A k \in 1..n : p[k] = q[k] /\ k # n + 1
  OBVIOUS
<1> HIDE DEF p, n
<1>2. \A k \in 1..(n + 1) : k \in 1..n \/ k = n + 1
  BY <1>1
<1>3. 1..n \subseteq 1..(n + 1) /\ n + 1 \in 1..(n + 1)
  BY <1>1
<1>4. Emitted(p) = Emitted(q) \cup {i}
  BY <1>1, <1>2, <1>3 DEF Emitted
<1>5. \A k \in 1..n : q[k] < i /\ ~(n + 1 < k) /\ k < n + 1
  BY <1>1 DEF Emitted
<1>6. ~(n + 1 < n + 1)
  BY <1>1
<1>7. Ascending(p)
  BY <1>1, <1>2, <1>5, <1>6, SMTT(30) DEF Ascending
<1> QED
  BY <1>4, <1>7 DEF p

\* What becomes of the bodies when entry i of scope s is finished.
Outcome(R, slot, s, i, b, nb) ==
    \/ i \in Wanted(R, slot, s) /\ nb = [b EXCEPT ![s] = Append(@, i)]
    \/ i \notin Wanted(R, slot, s) /\ nb = b

\* A body holds what is finished and wanted of its scope.
BodiesHold(R, c, d, b, slot) ==
    \A t \in 1..R.scopes :
        /\ Ascending(b[t])
        /\ Emitted(b[t]) = {j \in Wanted(R, slot, t) : Finished(R, c, d, j)}

\* Between the frames c and C one entry has been finished that may be wanted.
FinishesOnly(R, c, d, C, nd, slot, i) ==
    /\ ~Finished(R, c, d, i) /\ Finished(R, C, nd, i)
    /\ \A j \in IdsOf(R) :
           /\ Finished(R, c, d, j) => Finished(R, C, nd, j)
           /\ j # i /\ Finished(R, C, nd, j) =>
                  Finished(R, c, d, j) \/ \A t : j \notin Wanted(R, slot, t)

\* Entry i is emitted if it is wanted; whatever else is finished is not wanted.
LEMMA OutcomeBodies ==
    ASSUME NEW R, NEW c, NEW d, NEW slot, WellFormed(R), NEW b \in Blocks(R), NEW nb,
           NEW s \in 1..R.scopes, NEW i \in IdsOf(R), R.flat[i].scope = s,
           Outcome(R, slot, s, i, b, nb), NEW C, NEW nd,
           BodiesHold(R, c, d, b, slot), FinishesOnly(R, c, d, C, nd, slot, i),
           \A j \in Wanted(R, slot, s) : Finished(R, c, d, j) => j < i
    PROVE  BodiesHold(R, C, nd, nb, slot)
<1>1. \A t : Wanted(R, slot, t) \subseteq {j \in IdsOf(R) : R.flat[j].scope = t}
  BY DEF Wanted
<1>2. ASSUME NEW t \in 1..R.scopes, i \notin Wanted(R, slot, t) \/ t # s
      PROVE  Ascending(nb[t]) /\ Emitted(nb[t]) = {j \in Wanted(R, slot, t) : Finished(R, C, nd, j)}
  <2>1. nb[t] = b[t]
    <3>1. CASE t # s
      BY <3>1 DEF Outcome, Blocks
    <3>2. CASE t = s
      BY <1>2, <3>2 DEF Outcome
    <3> QED
      BY <3>1, <3>2
  <2>2. i \notin Wanted(R, slot, t)
    BY <1>1, <1>2
  <2>3. \A j \in Wanted(R, slot, t) : Finished(R, C, nd, j) <=> Finished(R, c, d, j)
    BY <1>1, <2>2 DEF FinishesOnly
  <2> QED
    BY <2>1, <2>3 DEF BodiesHold
<1>3. ASSUME i \in Wanted(R, slot, s)
      PROVE  Ascending(nb[s]) /\ Emitted(nb[s]) = {j \in Wanted(R, slot, s) : Finished(R, C, nd, j)}
  <2>1. nb[s] = Append(b[s], i) /\ i \in Nat
    <3>1. nb = [b EXCEPT ![s] = Append(@, i)] /\ IdsOf(R) \subseteq Nat
      BY <1>3, Sizes DEF Outcome, IdsOf
    <3> QED
      BY <3>1 DEF Blocks
  <2>2. b[s] \in Seq(Nat) /\ \A x \in Emitted(b[s]) : x < i
    <3>1. IdsOf(R) \subseteq Nat
      BY Sizes DEF IdsOf
    <3>2. b[s] \in Seq(IdsOf(R))
      BY DEF Blocks
    <3>3. b[s] \in Seq(Nat)
      <4> DEFINE q == b[s]
      <4> HIDE DEF q
      <4>1. q \in Seq(IdsOf(R)) => q \in Seq(Nat)
        BY <3>1
      <4> QED
        BY <3>2, <4>1 DEF q
    <3> QED
      BY <3>3 DEF BodiesHold
  <2>3. Ascending(b[s])
    BY DEF BodiesHold
  <2>4. Ascending(nb[s]) /\ Emitted(nb[s]) = Emitted(b[s]) \cup {i}
    BY <2>1, <2>2, <2>3, AppendAscends
  <2>5. \A j \in Wanted(R, slot, s) : Finished(R, C, nd, j) <=> Finished(R, c, d, j) \/ j = i
    BY <1>1 DEF FinishesOnly
  <2> QED
    BY <1>3, <2>4, <2>5 DEF BodiesHold
<1> QED
  BY <1>2, <1>3 DEF BodiesHold

\* The handlers in progress and what they have left behind.
Visits(R, c, d, b, slot) ==
    /\ WellFormed(R) /\ TreeOK(R, {1}, {}) /\ CallsOK(R, c) /\ b \in Blocks(R)
    /\ CallsPlaced(R, c, d) /\ BodiesOK(R, c, d, b, slot)

\* The loop, in the scope of the innermost handler, has come to entry i.
ComesTo(R, c, slot, i) ==
    /\ c # <<>> /\ i \in IdsOf(R) /\ R.flat[i].scope = Cur(c, Len(c))
    /\ c[Len(c)].at <= i /\ Quiet(R, c, slot, i)

\* What is finished before the loop comes to entry i, and what behind it.
LEMMA ComesFacts ==
    ASSUME NEW R, NEW c, NEW d, NEW b, NEW slot, Visits(R, c, d, b, slot),
           NEW i, ComesTo(R, c, slot, i)
    PROVE  /\ i \notin InHand(c) /\ ~Finished(R, c, d, i) /\ i \in Nat
           /\ Cur(c, Len(c)) \in 1..R.scopes /\ Cur(c, Len(c)) \notin d
           /\ \A j \in IdsOf(R) :
                  /\ Finished(R, c, d, j) => Finished(R, PastLast(c, i), d, j)
                  /\ Finished(R, PastLast(c, i), d, j) /\ j # i /\ ~Finished(R, c, d, j) =>
                         Inside(R.flat[j]) = {} /\ \A s : j \notin Wanted(R, slot, s)
                  /\ R.flat[j].scope = R.flat[i].scope /\ Finished(R, c, d, j) => j < i
           /\ Finished(R, PastLast(c, i), d, i)
<1> DEFINE l == Len(c)
           s == Cur(c, l)
           P == PastLast(c, i)
<1>1. /\ c # <<>> /\ i \in IdsOf(R) /\ R.flat[i].scope = s /\ c[l].at <= i /\ l \in DOMAIN c
      /\ IdsOf(R) \subseteq Nat \ {0}
  BY Sizes, Ends DEF ComesTo, Visits, CallsOK, IdsOf
<1>2. c[l].at \in Nat /\ s \in 1..R.scopes /\ s \notin d
  <2>1. c[l].at \in 1..R.next /\ s \in 1..R.scopes
    BY <1>1, CallFacts DEF Visits
  <2>2. s \notin d
    BY <1>1, CursApart DEF Visits
  <2> QED
    BY <2>1, <2>2
<1>3. \A j \in IdsOf(R) : Finished(R, P, d, j) <=>
                              IF R.flat[j].scope = s THEN j <= i ELSE Finished(R, c, d, j)
  BY <1>1, PastFinished DEF Visits
<1>4. \A j \in IdsOf(R) : R.flat[j].scope = s =>
                              j \notin InHand(c) /\ (Finished(R, c, d, j) <=> j < c[l].at)
  <2>1. ASSUME NEW j \in IdsOf(R), R.flat[j].scope = s
        PROVE  j \notin InHand(c) /\ (Finished(R, c, d, j) <=> j < c[l].at)
    <3>1. j # 0
      BY <1>1
    <3>2. j \notin InHand(c)
      BY <1>1, <2>1, <3>1, NotInHand DEF Visits
    <3> QED
      BY <1>1, <2>1, <3>2, FinishedHere DEF Visits
  <2> QED
    BY <2>1
<1>5. \A j \in IdsOf(R) : R.flat[j].scope = s /\ c[l].at <= j /\ j < i =>
                              Inside(R.flat[j]) = {} /\ \A t : j \notin Wanted(R, slot, t)
  BY DEF ComesTo, Quiet
<1> HIDE DEF P, s, l
<1>6. ASSUME NEW j \in IdsOf(R)
      PROVE  /\ Finished(R, c, d, j) => Finished(R, P, d, j)
             /\ Finished(R, P, d, j) /\ j # i /\ ~Finished(R, c, d, j) =>
                    Inside(R.flat[j]) = {} /\ \A t : j \notin Wanted(R, slot, t)
             /\ R.flat[j].scope = s /\ Finished(R, c, d, j) => j < i
  <2>1. CASE R.flat[j].scope = s
    <3>1. /\ Finished(R, c, d, j) <=> j < c[l].at
          /\ Finished(R, P, d, j) <=> j <= i
          /\ j \in Nat /\ i \in Nat
      BY <1>1, <1>3, <1>4, <2>1
    <3>2. c[l].at <= j /\ j < i =>
              Inside(R.flat[j]) = {} /\ \A t : j \notin Wanted(R, slot, t)
      BY <1>5, <2>1
    <3>3. (j < c[l].at => j < i) /\ (j < i => j <= i) /\ (j <= i /\ j # i => j < i)
          /\ (~(j < c[l].at) => c[l].at <= j)
      BY <1>1, <1>2, <3>1
    <3> QED
      BY <3>1, <3>2, <3>3
  <2>2. CASE R.flat[j].scope # s
    BY <1>3, <2>2
  <2> QED
    BY <2>1, <2>2
<1>7. i \notin InHand(c) /\ ~Finished(R, c, d, i) /\ Finished(R, P, d, i) /\ i \in Nat
  <2>1. ~(i < c[l].at) /\ i <= i
    BY <1>1, <1>2
  <2> QED
    BY <1>1, <1>3, <1>4, <2>1
<1> QED
  BY <1>1, <1>2, <1>6, <1>7 DEF P, s, l

\* The entry needs no visit.
LEMMA PastVisits ==
    ASSUME NEW R, NEW c, NEW d, NEW b, NEW slot, Visits(R, c, d, b, slot),
           NEW i, ComesTo(R, c, slot, i), Inside(R.flat[i]) = {},
           NEW nb, Outcome(R, slot, R.flat[i].scope, i, b, nb)
    PROVE  CallsPlaced(R, PastLast(c, i), d) /\ BodiesOK(R, PastLast(c, i), d, nb, slot)
<1> DEFINE P == PastLast(c, i)
           s == R.flat[i].scope
<1>1. c # <<>> /\ i \in IdsOf(R) /\ s = Cur(c, Len(c))
  BY DEF ComesTo
<1>2. /\ DOMAIN P = DOMAIN c /\ \A k \in DOMAIN c : Todo(P, k) = Todo(c, k)
      /\ InHand(P) = InHand(c) /\ CallsPlaced(R, P, d)
  BY <1>1, PastFrames DEF Visits
<1>3. /\ i \notin InHand(c) /\ ~Finished(R, c, d, i) /\ s \in 1..R.scopes
      /\ \A j \in IdsOf(R) :
             /\ Finished(R, c, d, j) => Finished(R, P, d, j)
             /\ Finished(R, P, d, j) /\ j # i /\ ~Finished(R, c, d, j) =>
                    Inside(R.flat[j]) = {} /\ \A t : j \notin Wanted(R, slot, t)
             /\ R.flat[j].scope = s /\ Finished(R, c, d, j) => j < i
      /\ Finished(R, P, d, i)
  <2>1. /\ i \notin InHand(c) /\ ~Finished(R, c, d, i) /\ Cur(c, Len(c)) \in 1..R.scopes
        /\ \A j \in IdsOf(R) :
               /\ Finished(R, c, d, j) => Finished(R, PastLast(c, i), d, j)
               /\ Finished(R, PastLast(c, i), d, j) /\ j # i /\ ~Finished(R, c, d, j) =>
                      Inside(R.flat[j]) = {} /\ \A t : j \notin Wanted(R, slot, t)
               /\ R.flat[j].scope = R.flat[i].scope /\ Finished(R, c, d, j) => j < i
        /\ Finished(R, PastLast(c, i), d, i)
    BY ComesFacts
  <2> QED
    BY <1>1, <2>1
<1> HIDE DEF P
<1>4. \A j \in IdsOf(R) : Finished(R, P, d, j) => Inside(R.flat[j]) \subseteq d
  BY <1>3 DEF Visits, BodiesOK
<1>5. BodiesHold(R, P, d, nb, slot)
  <2>1. WellFormed(R) /\ b \in Blocks(R) /\ s \in 1..R.scopes /\ i \in IdsOf(R)
    BY <1>1, <1>3 DEF Visits
  <2>2. BodiesHold(R, c, d, b, slot)
    BY DEF Visits, BodiesOK, BodiesHold
  <2>3. \A j \in Wanted(R, slot, s) : Finished(R, c, d, j) => j < i
    <3>1. \A j \in Wanted(R, slot, s) : j \in IdsOf(R) /\ R.flat[j].scope = s
      BY DEF Wanted
    <3> QED
      BY <1>3, <3>1
  <2>4. FinishesOnly(R, c, d, P, d, slot, i)
    BY <1>3 DEF FinishesOnly
  <2>5. Outcome(R, slot, s, i, b, nb)
    BY <1>3
  <2> HIDE DEF s
  <2>6. R.flat[i].scope = s
    BY DEF s
  <2> QED
    BY <2>1, <2>2, <2>3, <2>4, <2>5, <2>6, OutcomeBodies
<1>6. ASSUME NEW x \in d \cup UNION {Todo(P, k) : k \in DOMAIN P}, x # 1
      PROVE  \E j \in IdsOf(R) : x \in Inside(R.flat[j]) /\ (Finished(R, P, d, j) \/ j \in InHand(P))
  <2>1. x \in d \cup UNION {Todo(c, k) : k \in DOMAIN c}
    BY <1>2, <1>6
  <2>2. \E j \in IdsOf(R) : x \in Inside(R.flat[j]) /\ (Finished(R, c, d, j) \/ j \in InHand(c))
    BY <1>6, <2>1 DEF Visits, BodiesOK
  <2> QED
    BY <1>2, <1>3, <2>2
<1> QED
  BY <1>2, <1>4, <1>5, <1>6 DEF BodiesOK, BodiesHold, P

\* The frames C are those of p, and the handler of i that is to visit todo.
OneCalled(C, p, n, i, todo) ==
    /\ DOMAIN C = 1..(n + 1) /\ DOMAIN p = 1..n /\ n \in Nat
    /\ \A k \in 1..n : C[k] = p[k] /\ k # n + 1 /\ k \in 1..(n + 1)
    /\ \A k \in 1..(n + 1) : k \in 1..n \/ k = n + 1
    /\ C[n + 1].entry = i /\ C[n + 1].todo = todo /\ C[n + 1].at = 1
    /\ InHand(C) = InHand(p) \cup {i}

\* The frames after a call of lower_stmt.
LEMMA PushFrames ==
    ASSUME NEW R, NEW p, NEW i, NEW todo, CallsOK(R, p)
    PROVE  OneCalled(Append(p, Visit(i, todo)), p, Len(p), i, todo)
<1> DEFINE C == Append(p, Visit(i, todo))
           n == Len(p)
<1> DEFINE v == Visit(i, todo)
<1>1. n \in Nat /\ DOMAIN p = 1..n /\ p \in Seq(Calls(R))
  BY DEF CallsOK
<1>2. v.entry = i /\ v.todo = todo /\ v.at = 1
  BY DEF Visit
<1> HIDE DEF v
<1>3. DOMAIN C = 1..(n + 1) /\ C[n + 1] = v /\ \A k \in 1..n : C[k] = p[k]
  <2>1. C = Append(p, v) /\ n = Len(p)
    BY DEF v
  <2> QED
    BY <1>1, <2>1
<1> HIDE DEF C, n
<1>4. /\ \A k \in 1..n : k # n + 1 /\ k \in 1..(n + 1)
      /\ \A k \in 1..(n + 1) : k \in 1..n \/ k = n + 1
      /\ n + 1 \in 1..(n + 1)
  BY <1>1
<1>5. InHand(C) = InHand(p) \cup {i}
  BY <1>1, <1>2, <1>3, <1>4 DEF InHand
<1>6. OneCalled(C, p, n, i, todo)
  BY <1>1, <1>2, <1>3, <1>4, <1>5 DEF OneCalled
<1> QED
  BY <1>6 DEF C, n

-----------------------------------------------------------------------------
(* A handler calls lower_stmt.                                             *)

\* The frames of p and one more: what is placed stays placed.
LEMMA PushPlaced ==
    ASSUME NEW R, NEW p, NEW d, CallsOK(R, p), CallsPlaced(R, p, d), p # <<>>,
           NEW i, NEW todo,
           \A m, n \in DOMAIN todo : todo[m] = todo[n] => m = n,
           {todo[m] : m \in DOMAIN todo} = Inside(R.flat[i]),
           Inside(R.flat[i]) \cap d = {},
           \A k \in DOMAIN p : \A s \in Inside(R.flat[i]) : Cur(p, k) < s,
           R.flat[i].scope = Cur(p, Len(p)), p[Len(p)].at = i + 1
    PROVE  CallsPlaced(R, Append(p, Visit(i, todo)), d)
<1> DEFINE C == Append(p, Visit(i, todo))
           n == Len(p)
           e == R.flat[i]
<1>0. OneCalled(C, p, n, i, todo)
  BY PushFrames
<1> HIDE DEF C, n
<1>1. /\ DOMAIN C = 1..(n + 1) /\ DOMAIN p = 1..n /\ n \in Nat
      /\ \A k \in 1..n : C[k] = p[k] /\ k # n + 1 /\ k \in 1..(n + 1)
      /\ \A k \in 1..(n + 1) : k \in 1..n \/ k = n + 1
      /\ C[n + 1].entry = i /\ C[n + 1].todo = todo /\ C[n + 1].at = 1
      /\ InHand(C) = InHand(p) \cup {i}
  BY <1>0 DEF OneCalled
<1>2. n # 0 /\ 1 \in 1..n /\ n \in 1..n
  <2>1. n # 0
    BY DEF CallsOK, n
  <2> QED
    BY <1>1, <2>1
<1>3. /\ \A k \in 1..n : Cur(C, k) = Cur(p, k) /\ Todo(C, k) = Todo(p, k)
      /\ Todo(C, n + 1) = Inside(e)
  BY <1>1 DEF Cur, Todo
<1>4. C # <<>> /\ C[1].entry = 0 /\ C[1].todo = <<1>>
  <2>1. p[1].entry = 0 /\ p[1].todo = <<1>>
    BY DEF CallsPlaced
  <2>2. DOMAIN C # {} /\ DOMAIN <<>> = {}
    BY <1>1, <1>2
  <2> QED
    BY <1>1, <1>2, <2>1, <2>2
<1>5. ASSUME NEW k \in 1..n
      PROVE  /\ \A x, y \in DOMAIN C[k].todo : C[k].todo[x] = C[k].todo[y] => x = y
             /\ Todo(C, k) \cap d = {}
             /\ \A j \in 1..(k - 1), s \in Todo(C, k) : Cur(C, j) < s
  <2>1. \A j \in 1..(k - 1) : j \in 1..n
    BY <1>1
  <2>2. /\ \A x, y \in DOMAIN p[k].todo : p[k].todo[x] = p[k].todo[y] => x = y
        /\ Todo(p, k) \cap d = {}
        /\ \A j \in 1..(k - 1), s \in Todo(p, k) : Cur(p, j) < s
    BY <1>1 DEF CallsPlaced
  <2>3. C[k].todo = p[k].todo /\ Todo(C, k) = Todo(p, k)
    BY <1>1, <1>3
  <2>4. \A j \in 1..(k - 1), s \in Todo(C, k) : Cur(C, j) < s
    BY <1>3, <2>1, <2>2, <2>3
  <2> QED
    BY <2>2, <2>3, <2>4
<1>6. ASSUME NEW k \in 1..n, k > 1
      PROVE  LET f == R.flat[C[k].entry]
             IN /\ f.scope = Cur(C, k - 1) /\ C[k - 1].at = C[k].entry + 1
                /\ Todo(C, k) \subseteq Inside(f)
                /\ Inside(f) \subseteq Todo(C, k) \cup d
  <2>1. k - 1 \in 1..n
    BY <1>1, <1>6
  <2>2. LET f == R.flat[p[k].entry]
        IN /\ f.scope = Cur(p, k - 1) /\ p[k - 1].at = p[k].entry + 1
           /\ Todo(p, k) \subseteq Inside(f)
           /\ Inside(f) \subseteq Todo(p, k) \cup d
    BY <1>1, <1>6 DEF CallsPlaced
  <2> QED
    BY <1>1, <1>3, <2>1, <2>2
<1>7. /\ \A x, y \in DOMAIN C[n + 1].todo : C[n + 1].todo[x] = C[n + 1].todo[y] => x = y
      /\ Todo(C, n + 1) \cap d = {}
      /\ \A j \in 1..((n + 1) - 1), s \in Todo(C, n + 1) : Cur(C, j) < s
  <2>1. (n + 1) - 1 = n
    BY <1>1
  <2> QED
    BY <1>1, <1>3, <2>1
<1>8. LET f == R.flat[C[n + 1].entry]
      IN /\ f.scope = Cur(C, (n + 1) - 1) /\ C[(n + 1) - 1].at = C[n + 1].entry + 1
         /\ Todo(C, n + 1) \subseteq Inside(f)
         /\ Inside(f) \subseteq Todo(C, n + 1) \cup d
  <2>1. (n + 1) - 1 = n /\ e.scope = Cur(p, n) /\ p[n].at = i + 1
    BY <1>1 DEF n
  <2> QED
    BY <1>1, <1>2, <1>3, <2>1
<1>9. CallsPlaced(R, C, d)
  <2>1. ASSUME NEW k \in DOMAIN C
        PROVE  /\ \A x, y \in DOMAIN C[k].todo : C[k].todo[x] = C[k].todo[y] => x = y
               /\ Todo(C, k) \cap d = {}
               /\ \A j \in 1..(k - 1), s \in Todo(C, k) : Cur(C, j) < s
    BY <1>1, <1>5, <1>7
  <2>2. ASSUME NEW k \in DOMAIN C, k > 1
        PROVE  LET f == R.flat[C[k].entry]
               IN /\ f.scope = Cur(C, k - 1) /\ C[k - 1].at = C[k].entry + 1
                  /\ Todo(C, k) \subseteq Inside(f)
                  /\ Inside(f) \subseteq Todo(C, k) \cup d
    BY <1>1, <1>6, <1>8, <2>2
  <2> QED
    BY <1>4, <2>1, <2>2 DEF CallsPlaced
<1> QED
  BY <1>9 DEF C

\* The handler of the entry visits its bodies.
LEMMA PushVisits ==
    ASSUME NEW R, NEW c, NEW d, NEW b, NEW slot, Visits(R, c, d, b, slot),
           NEW i, ComesTo(R, c, slot, i), NEW todo,
           \A m, n \in DOMAIN todo : todo[m] = todo[n] => m = n,
           {todo[m] : m \in DOMAIN todo} = Inside(R.flat[i])
    PROVE  LET C == Append(PastLast(c, i), Visit(i, todo))
           IN CallsPlaced(R, C, d) /\ BodiesOK(R, C, d, b, slot)
<1> DEFINE P == PastLast(c, i)
           C == Append(P, Visit(i, todo))
           n == Len(c)
           e == R.flat[i]
<1>1. /\ c # <<>> /\ i \in IdsOf(R) /\ e.scope = Cur(c, n)
      /\ WellFormed(R) /\ TreeOK(R, {1}, {}) /\ CallsOK(R, c) /\ CallsPlaced(R, c, d)
  BY DEF ComesTo, Visits
<1>2. /\ DOMAIN P = DOMAIN c /\ Len(P) = n /\ n \in DOMAIN c
      /\ \A k \in DOMAIN c : Cur(P, k) = Cur(c, k) /\ Todo(P, k) = Todo(c, k)
      /\ P[n].at = i + 1 /\ InHand(P) = InHand(c) /\ CallsPlaced(R, P, d)
  BY <1>1, PastFrames
<1>3. /\ i \notin InHand(c) /\ ~Finished(R, c, d, i) /\ e.scope \notin d
      /\ \A j \in IdsOf(R) :
             /\ Finished(R, c, d, j) => Finished(R, P, d, j)
             /\ Finished(R, P, d, j) /\ j # i /\ ~Finished(R, c, d, j) =>
                    Inside(R.flat[j]) = {} /\ \A t : j \notin Wanted(R, slot, t)
  <2>1. /\ i \notin InHand(c) /\ ~Finished(R, c, d, i) /\ Cur(c, Len(c)) \notin d
        /\ \A j \in IdsOf(R) :
               /\ Finished(R, c, d, j) => Finished(R, PastLast(c, i), d, j)
               /\ Finished(R, PastLast(c, i), d, j) /\ j # i /\ ~Finished(R, c, d, j) =>
                      Inside(R.flat[j]) = {} /\ \A t : j \notin Wanted(R, slot, t)
    BY ComesFacts
  <2> QED
    BY <1>1, <2>1
<1>4. CallsOK(R, P)
  <2>1. R.next \in Nat
    BY <1>1, Sizes
  <2> QED
    BY <1>1, <2>1, PastLow DEF PastLast
<1> HIDE DEF P
<1>5. /\ DOMAIN C = 1..(n + 1) /\ DOMAIN P = 1..n
      /\ \A k \in 1..n : C[k] = P[k] /\ k # n + 1 /\ k \in 1..(n + 1)
      /\ \A k \in 1..(n + 1) : k \in 1..n \/ k = n + 1
      /\ C[n + 1].entry = i /\ C[n + 1].todo = todo /\ C[n + 1].at = 1
      /\ InHand(C) = InHand(P) \cup {i}
  <2>1. OneCalled(C, P, Len(P), i, todo)
    BY <1>4, PushFrames
  <2> HIDE DEF C
  <2> QED
    BY <1>2, <2>1 DEF OneCalled
<1> HIDE DEF C
<1>6. Inside(e) \cap d = {}
  <2>1. ASSUME NEW x \in Inside(e), x \in d PROVE FALSE
    <3>1. x # 1
      BY <1>1, InsideLed
    <3>2. PICK j \in IdsOf(R) : x \in Inside(R.flat[j]) /\ (Finished(R, c, d, j) \/ j \in InHand(c))
      BY <2>1, <3>1 DEF Visits, BodiesOK
    <3>3. j = i
      BY <1>1, <3>2, InsideOnce
    <3> QED
      BY <1>3, <3>2, <3>3
  <2> QED
    BY <2>1
<1>7. \A k \in DOMAIN P : \A x \in Inside(e) : Cur(P, k) < x
  <2>1. ASSUME NEW k \in DOMAIN c, NEW x \in Inside(e) PROVE Cur(c, k) < x
    <3>1. Cur(c, n) < x /\ Cur(c, n) \in Nat /\ x \in Nat /\ Cur(c, k) \in Nat
      <4>1. x \in 1..R.scopes /\ e.scope < x
        BY <1>1, InsideLed
      <4>2. Cur(c, n) \in 1..R.scopes /\ Cur(c, k) \in 1..R.scopes
        <5>1. \A m \in DOMAIN c : Cur(c, m) \in Todo(c, m) /\ Todo(c, m) \subseteq 1..R.scopes
          BY <1>1, CallFacts
        <5> QED
          BY <1>2, <5>1
      <4> QED
        BY <1>1, <4>1, <4>2
    <3>2. k = n \/ k < n
      <4>1. k \in 1..n
        BY <1>2, <1>5
      <4> QED
        BY <4>1
    <3>3. k < n => Cur(c, k) < Cur(c, n)
      BY <1>1, <1>2, CursApart
    <3> QED
      BY <3>1, <3>2, <3>3
  <2> QED
    BY <1>2, <2>1
<1>8. CallsPlaced(R, C, d)
  <2>1. P # <<>> /\ e.scope = Cur(P, Len(P)) /\ P[Len(P)].at = i + 1
    <3>1. DOMAIN P # {} /\ DOMAIN <<>> = {}
      BY <1>2
    <3> QED
      BY <1>1, <1>2, <3>1
  <2> QED
    BY <1>2, <1>4, <1>6, <1>7, <2>1, PushPlaced DEF C
<1>9. \A j \in IdsOf(R) : /\ Finished(R, C, d, j) => j # i /\ Finished(R, P, d, j)
                          /\ Finished(R, c, d, j) => Finished(R, C, d, j)
  <2>1. ASSUME NEW j \in IdsOf(R), Finished(R, C, d, j) PROVE j # i /\ Finished(R, P, d, j)
    <3>1. CASE R.flat[j].scope \in d
      BY <1>3, <3>1 DEF Finished
    <3>2. CASE R.flat[j].scope \notin d
      <4>1. PICK k \in 1..(n + 1) : R.flat[j].scope = Cur(C, k) /\ j < C[k].at
        BY <1>5, <2>1, <3>2 DEF Finished
      <4>2. k # n + 1
        <5>1. j \in Nat \ {0}
          BY <1>1, Sizes DEF IdsOf
        <5> QED
          BY <1>5, <4>1, <5>1
      <4>3. k \in 1..n /\ Cur(C, k) = Cur(P, k) /\ C[k].at = P[k].at
        BY <1>5, <4>2 DEF Cur
      <4>4. j \notin InHand(P) /\ j # i
        BY <1>5, <2>1, <3>2 DEF Finished
      <4> QED
        BY <1>5, <4>1, <4>3, <4>4 DEF Finished
    <3> QED
      BY <3>1, <3>2
  <2>2. ASSUME NEW j \in IdsOf(R), Finished(R, c, d, j) PROVE Finished(R, C, d, j)
    <3>1. Finished(R, P, d, j) /\ j # i
      BY <1>3, <2>2
    <3>2. \A k \in 1..n : Cur(C, k) = Cur(P, k) /\ C[k].at = P[k].at
      BY <1>5 DEF Cur
    <3> QED
      BY <1>5, <3>1, <3>2 DEF Finished
  <2> QED
    BY <2>1, <2>2
<1>10. \A j \in IdsOf(R) : Finished(R, C, d, j) => Inside(R.flat[j]) \subseteq d
  BY <1>3, <1>9 DEF Visits, BodiesOK
<1>11. ASSUME NEW t \in 1..R.scopes
       PROVE  Ascending(b[t]) /\ Emitted(b[t]) = {j \in Wanted(R, slot, t) : Finished(R, C, d, j)}
  <2>1. Ascending(b[t]) /\ Emitted(b[t]) = {j \in Wanted(R, slot, t) : Finished(R, c, d, j)}
    BY DEF Visits, BodiesOK
  <2>2. \A j \in Wanted(R, slot, t) : j \in IdsOf(R)
    BY DEF Wanted
  <2>3. \A j \in Wanted(R, slot, t) : Finished(R, C, d, j) <=> Finished(R, c, d, j)
    BY <1>3, <1>9, <2>2
  <2> QED
    BY <2>1, <2>3
<1>12. ASSUME NEW x \in d \cup UNION {Todo(C, k) : k \in DOMAIN C}, x # 1
       PROVE  \E j \in IdsOf(R) : x \in Inside(R.flat[j]) /\ (Finished(R, C, d, j) \/ j \in InHand(C))
  <2>1. Todo(C, n + 1) = Inside(e) /\ \A k \in 1..n : Todo(C, k) = Todo(c, k) /\ k \in DOMAIN c
    <3>1. Todo(C, n + 1) = Inside(e)
      BY <1>5 DEF Todo
    <3>2. \A k \in 1..n : Todo(C, k) = Todo(P, k)
      BY <1>5 DEF Todo
    <3> QED
      BY <1>2, <1>5, <3>1, <3>2
  <2>2. CASE x \in Inside(e)
    BY <1>1, <1>5, <2>2
  <2>3. CASE x \in d \cup UNION {Todo(c, k) : k \in DOMAIN c}
    <3>1. PICK j \in IdsOf(R) : x \in Inside(R.flat[j]) /\ (Finished(R, c, d, j) \/ j \in InHand(c))
      BY <1>12, <2>3 DEF Visits, BodiesOK
    <3> QED
      BY <1>2, <1>5, <1>9, <3>1
  <2>4. x \in Inside(e) \/ x \in d \cup UNION {Todo(c, k) : k \in DOMAIN c}
    <3>1. x \in d \/ \E k \in 1..(n + 1) : x \in Todo(C, k)
      BY <1>5, <1>12
    <3> QED
      BY <1>5, <2>1, <3>1
  <2> QED
    BY <2>2, <2>3, <2>4
<1>13. BodiesOK(R, C, d, b, slot)
  BY <1>10, <1>11, <1>12 DEF BodiesOK
<1> QED
  BY <1>8, <1>13 DEF C, P

-----------------------------------------------------------------------------
(* A handler goes on with its next scope.                                  *)

\* The handlers in progress are those of distinct entries, and have no scope to
\* visit in common.
LEMMA CallsApart ==
    ASSUME NEW R, NEW c, NEW d, WellFormed(R), TreeOK(R, {1}, {}), CallsOK(R, c),
           CallsPlaced(R, c, d), NEW j \in DOMAIN c, NEW k \in DOMAIN c, j # k
    PROVE  c[j].entry # c[k].entry /\ Todo(c, j) \cap Todo(c, k) = {}
<1>1. /\ c # <<>> /\ 1 \in DOMAIN c /\ c[1].entry = 0 /\ Todo(c, 1) = {1}
      /\ \A m \in DOMAIN c : m \in Nat \ {0} /\ (m # 1 => m > 1 /\ m - 1 \in DOMAIN c)
  <2>1. Len(c) \in Nat /\ DOMAIN c = 1..Len(c) /\ c # <<>>
    BY CallFacts
  <2>2. c[1].entry = 0 /\ c[1].todo = <<1>>
    BY <2>1 DEF CallsPlaced
  <2>3. Todo(c, 1) = {1}
    BY <2>2 DEF Todo
  <2> QED
    BY <2>1, <2>2, <2>3
<1>2. ASSUME NEW m \in DOMAIN c, m # 1
      PROVE  /\ c[m].entry \in IdsOf(R) /\ c[m].entry # 0
             /\ R.flat[c[m].entry].scope = Cur(c, m - 1)
             /\ Todo(c, m) \subseteq Inside(R.flat[c[m].entry])
  <2>1. m > 1
    BY <1>1, <1>2
  <2>2. c[m].entry \in {0} \cup IdsOf(R) /\ c[m].entry # 0
    BY <2>1, CallFacts DEF CallsOK
  <2> QED
    BY <2>1, <2>2 DEF CallsPlaced
<1>3. ASSUME NEW m \in DOMAIN c, NEW n \in DOMAIN c, m # 1, n # 1, c[m].entry = c[n].entry
      PROVE  m = n
  <2>1. Cur(c, m - 1) = Cur(c, n - 1) /\ m - 1 \in DOMAIN c /\ n - 1 \in DOMAIN c
    BY <1>1, <1>2, <1>3
  <2>2. m - 1 = n - 1
    BY <2>1, CursApart
  <2> QED
    BY <1>1, <2>2
<1>4. c[j].entry # c[k].entry
  <2>1. CASE j = 1
    BY <1>1, <1>2, <2>1
  <2>2. CASE k = 1
    BY <1>1, <1>2, <2>2
  <2>3. CASE j # 1 /\ k # 1
    BY <1>3, <2>3
  <2> QED
    BY <2>1, <2>2, <2>3
<1>5. \A m \in DOMAIN c : m # 1 => 1 \notin Todo(c, m)
  BY <1>2, InsideLed
<1>6. ASSUME NEW x \in Todo(c, j), x \in Todo(c, k) PROVE FALSE
  <2>1. CASE j = 1 \/ k = 1
    BY <1>1, <1>5, <1>6, <2>1
  <2>2. CASE j # 1 /\ k # 1
    <3>1. /\ c[j].entry \in IdsOf(R) /\ x \in Inside(R.flat[c[j].entry])
          /\ c[k].entry \in IdsOf(R) /\ x \in Inside(R.flat[c[k].entry])
      BY <1>2, <1>6, <2>2
    <3> QED
      BY <1>4, <3>1, InsideOnce
  <2> QED
    BY <2>1, <2>2
<1> QED
  BY <1>4, <1>6

\* The loop has met all there is in its scope.
AllMet(R, c, slot) ==
    \A j \in IdsOf(R) :
        R.flat[j].scope = Cur(c, Len(c)) /\ c[Len(c)].at <= j
            => Inside(R.flat[j]) = {} /\ \A s : j \notin Wanted(R, slot, s)

\* When the loop is at its end, what is left of the scope is not wanted.
LEMMA MetFacts ==
    ASSUME NEW R, NEW c, NEW d, NEW b, NEW slot, Visits(R, c, d, b, slot), c # <<>>,
           AllMet(R, c, slot), NEW j \in IdsOf(R), R.flat[j].scope = Cur(c, Len(c))
    PROVE  /\ j \notin InHand(c)
           /\ Finished(R, c, d, j) \/ (Inside(R.flat[j]) = {} /\ \A s : j \notin Wanted(R, slot, s))
<1> DEFINE l == Len(c)
<1>1. l \in DOMAIN c /\ j \in Nat \ {0} /\ c[l].at \in Nat
  <2>1. l \in DOMAIN c /\ j \in Nat \ {0}
    BY Sizes, Ends DEF Visits, CallsOK, IdsOf
  <2>2. c[l].at \in 1..R.next
    BY <2>1, CallFacts DEF Visits
  <2> QED
    BY <2>1, <2>2
<1>2. j \notin InHand(c)
  BY <1>1, NotInHand DEF Visits
<1>3. Finished(R, c, d, j) <=> j < c[l].at
  BY <1>1, <1>2, FinishedHere DEF Visits
<1>4. j < c[l].at \/ c[l].at <= j
  BY <1>1
<1> QED
  BY <1>2, <1>3, <1>4 DEF AllMet

\* The handler goes on with the next of the scopes it has to visit.
NextCalls(c) == [c EXCEPT ![Len(c)] = Visit(c[Len(c)].entry, Tail(c[Len(c)].todo))]

\* The frames after the first of several scopes.
LEMMA NextFrames ==
    ASSUME NEW R, NEW c, NEW d, WellFormed(R), TreeOK(R, {1}, {}), CallsOK(R, c),
           CallsPlaced(R, c, d), c # <<>>, Len(c[Len(c)].todo) > 1
    PROVE  /\ DOMAIN NextCalls(c) = DOMAIN c /\ Len(c) \in DOMAIN c /\ Len(c) > 1
           /\ \A k \in DOMAIN c : k # Len(c) => NextCalls(c)[k] = c[k]
           /\ NextCalls(c)[Len(c)].entry = c[Len(c)].entry /\ NextCalls(c)[Len(c)].at = 1
           /\ Todo(NextCalls(c), Len(c)) = Todo(c, Len(c)) \ {Cur(c, Len(c))}
           /\ \A m, n \in DOMAIN NextCalls(c)[Len(c)].todo :
                  NextCalls(c)[Len(c)].todo[m] = NextCalls(c)[Len(c)].todo[n] => m = n
           /\ InHand(NextCalls(c)) = InHand(c)
<1> DEFINE l == Len(c)
           C == NextCalls(c)
           q == c[l].todo
           v == Visit(c[l].entry, Tail(q))
<1>1. /\ c \in Seq(Calls(R)) /\ l \in DOMAIN c /\ DOMAIN c = 1..l /\ l \in Nat \ {0}
      /\ q \in Seq(1..R.scopes) /\ Cur(c, l) = q[1] /\ Len(q) > 1
  <2>1. c \in Seq(Calls(R)) /\ l \in DOMAIN c /\ DOMAIN c = 1..l /\ l \in Nat \ {0}
    BY Ends DEF CallsOK
  <2> QED
    BY <2>1, CallFacts
<1>2. l > 1
  <2>1. l # 1
    <3>1. c[1].todo = <<1>>
      BY DEF CallsPlaced
    <3>2. Len(<<1>>) = 1
      OBVIOUS
    <3> QED
      BY <1>1, <3>1, <3>2
  <2> QED
    BY <1>1, <2>1
<1>3. v.entry = c[l].entry /\ v.todo = Tail(q) /\ v.at = 1
  BY DEF Visit
<1>4. \A m, n \in DOMAIN q : q[m] = q[n] => m = n
  BY <1>1 DEF CallsPlaced
<1> HIDE DEF v, q
<1>5. DOMAIN C = DOMAIN c /\ C[l] = v /\ \A k \in DOMAIN c : k # l => C[k] = c[k]
  BY <1>1 DEF NextCalls, v, q
<1> HIDE DEF C, l
<1>6. /\ \A m \in DOMAIN Tail(q) : m + 1 \in DOMAIN q /\ Tail(q)[m] = q[m + 1] /\ m + 1 # 1
                                   /\ m \in Nat
      /\ \A m \in DOMAIN q : m # 1 => m - 1 \in DOMAIN Tail(q) /\ Tail(q)[m - 1] = q[m]
      /\ 1 \in DOMAIN q
  BY <1>1
<1>7. Todo(C, l) = Todo(c, l) \ {Cur(c, l)}
  <2>1. Todo(C, l) = {Tail(q)[m] : m \in DOMAIN Tail(q)}
    BY <1>3, <1>5 DEF Todo
  <2>2. Todo(c, l) = {q[m] : m \in DOMAIN q}
    BY DEF Todo, q
  <2>3. {Tail(q)[m] : m \in DOMAIN Tail(q)} = {q[m] : m \in DOMAIN q} \ {q[1]}
    <3>1. ASSUME NEW x \in {Tail(q)[m] : m \in DOMAIN Tail(q)}
          PROVE  x \in {q[m] : m \in DOMAIN q} \ {q[1]}
      BY <1>4, <1>6
    <3>2. ASSUME NEW x \in {q[m] : m \in DOMAIN q} \ {q[1]}
          PROVE  x \in {Tail(q)[m] : m \in DOMAIN Tail(q)}
      <4>1. PICK m \in DOMAIN q : x = q[m] /\ m # 1
        OBVIOUS
      <4> QED
        BY <1>6, <4>1
    <3> QED
      BY <3>1, <3>2
  <2> QED
    BY <1>1, <2>1, <2>2, <2>3
<1>8. \A m, n \in DOMAIN Tail(q) : Tail(q)[m] = Tail(q)[n] => m = n
  <2>1. ASSUME NEW m \in DOMAIN Tail(q), NEW n \in DOMAIN Tail(q), Tail(q)[m] = Tail(q)[n]
        PROVE  m = n
    <3>1. m + 1 = n + 1 /\ m \in Nat /\ n \in Nat
      BY <1>4, <1>6, <2>1
    <3> QED
      BY <3>1
  <2> QED
    BY <2>1
<1>9. InHand(C) = InHand(c)
  <2>1. \A k \in DOMAIN c : C[k].entry = c[k].entry
    BY <1>3, <1>5
  <2> QED
    BY <1>5, <2>1 DEF InHand
<1> QED
  BY <1>1, <1>2, <1>3, <1>5, <1>7, <1>8, <1>9 DEF C, l

\* The handlers stay placed.
LEMMA NextPlaced ==
    ASSUME NEW R, NEW c, NEW d, WellFormed(R), TreeOK(R, {1}, {}), CallsOK(R, c),
           CallsPlaced(R, c, d), c # <<>>, Len(c[Len(c)].todo) > 1
    PROVE  CallsPlaced(R, NextCalls(c), d \cup {Cur(c, Len(c))})
<1> DEFINE l == Len(c)
           C == NextCalls(c)
           s == Cur(c, l)
           nd == d \cup {s}
<1>1. /\ DOMAIN C = DOMAIN c /\ l \in DOMAIN c /\ l > 1
      /\ \A k \in DOMAIN c : k # l => C[k] = c[k]
      /\ C[l].entry = c[l].entry
      /\ Todo(C, l) = Todo(c, l) \ {s}
      /\ \A m, n \in DOMAIN C[l].todo : C[l].todo[m] = C[l].todo[n] => m = n
  BY NextFrames
<1>2. DOMAIN c = 1..l /\ l \in Nat /\ s \in Todo(c, l)
  BY <1>1, CallFacts
<1> HIDE DEF C, l, s
<1>3. /\ 1 \in DOMAIN C /\ 1 # l /\ DOMAIN C # {} /\ DOMAIN <<>> = {}
      /\ \A k \in DOMAIN c : \A j \in 1..(k - 1) : j \in DOMAIN c /\ j # l /\ j \in Nat
      /\ \A k \in DOMAIN c : k > 1 => k - 1 \in DOMAIN c /\ k - 1 # l
  BY <1>1, <1>2
<1>4. \A k \in DOMAIN c : k # l => /\ Cur(C, k) = Cur(c, k) /\ Todo(C, k) = Todo(c, k)
                                   /\ s \notin Todo(c, k)
  <2>1. ASSUME NEW k \in DOMAIN c, k # l PROVE s \notin Todo(c, k)
    BY <1>1, <1>2, <2>1, CallsApart
  <2> QED
    BY <1>1, <2>1 DEF Cur, Todo
<1>5. \A k \in DOMAIN c : Todo(C, k) \subseteq Todo(c, k) /\ Todo(c, k) \subseteq Todo(C, k) \cup {s}
  BY <1>1, <1>4
<1>6. C[1].entry = 0 /\ C[1].todo = <<1>> /\ C # <<>>
  BY <1>1, <1>3 DEF CallsPlaced
<1>7. ASSUME NEW k \in DOMAIN C
      PROVE  /\ \A m, n \in DOMAIN C[k].todo : C[k].todo[m] = C[k].todo[n] => m = n
             /\ Todo(C, k) \cap nd = {}
             /\ \A j \in 1..(k - 1), x \in Todo(C, k) : Cur(C, j) < x
  <2>1. /\ \A m, n \in DOMAIN c[k].todo : c[k].todo[m] = c[k].todo[n] => m = n
        /\ Todo(c, k) \cap d = {}
        /\ \A j \in 1..(k - 1), x \in Todo(c, k) : Cur(c, j) < x
    BY <1>1 DEF CallsPlaced
  <2>2. \A m, n \in DOMAIN C[k].todo : C[k].todo[m] = C[k].todo[n] => m = n
    <3>1. CASE k = l
      BY <1>1, <3>1
    <3>2. CASE k # l
      BY <1>1, <2>1, <3>2
    <3> QED
      BY <3>1, <3>2
  <2>3. Todo(C, k) \cap nd = {}
    BY <1>1, <1>4, <1>5, <2>1
  <2>4. \A j \in 1..(k - 1), x \in Todo(C, k) : Cur(C, j) < x
    BY <1>1, <1>3, <1>4, <1>5, <2>1
  <2> QED
    BY <2>2, <2>3, <2>4
<1>8. ASSUME NEW k \in DOMAIN C, k > 1
      PROVE  LET e == R.flat[C[k].entry]
             IN /\ e.scope = Cur(C, k - 1) /\ C[k - 1].at = C[k].entry + 1
                /\ Todo(C, k) \subseteq Inside(e)
                /\ Inside(e) \subseteq Todo(C, k) \cup nd
  <2>1. LET e == R.flat[c[k].entry]
        IN /\ e.scope = Cur(c, k - 1) /\ c[k - 1].at = c[k].entry + 1
           /\ Todo(c, k) \subseteq Inside(e)
           /\ Inside(e) \subseteq Todo(c, k) \cup d
    BY <1>1, <1>8 DEF CallsPlaced
  <2>2. C[k].entry = c[k].entry
    BY <1>1
  <2>3. k - 1 \in DOMAIN c /\ Cur(C, k - 1) = Cur(c, k - 1) /\ C[k - 1] = c[k - 1]
    BY <1>1, <1>3, <1>4, <1>8
  <2>4. Todo(C, k) \subseteq Todo(c, k) /\ Todo(c, k) \subseteq Todo(C, k) \cup {s}
    BY <1>1, <1>5
  <2> QED
    BY <2>1, <2>2, <2>3, <2>4
<1>9. CallsPlaced(R, C, nd)
  BY <1>6, <1>7, <1>8 DEF CallsPlaced
<1> QED
  BY <1>9 DEF C, s, l

\* The handler goes on with its next scope: what was left of the first one is
\* not wanted.
LEMMA NextVisits ==
    ASSUME NEW R, NEW c, NEW d, NEW b, NEW slot, Visits(R, c, d, b, slot), c # <<>>,
           AllMet(R, c, slot), Len(c[Len(c)].todo) > 1
    PROVE  /\ CallsPlaced(R, NextCalls(c), d \cup {Cur(c, Len(c))})
           /\ BodiesOK(R, NextCalls(c), d \cup {Cur(c, Len(c))}, b, slot)
<1> DEFINE l == Len(c)
           C == NextCalls(c)
           s == Cur(c, l)
           nd == d \cup {s}
<1>1. /\ WellFormed(R) /\ TreeOK(R, {1}, {}) /\ CallsOK(R, c) /\ CallsPlaced(R, c, d)
      /\ BodiesOK(R, c, d, b, slot)
  BY DEF Visits
<1>2. /\ DOMAIN C = DOMAIN c /\ l \in DOMAIN c
      /\ \A k \in DOMAIN c : k # l => C[k] = c[k]
      /\ C[l].at = 1 /\ InHand(C) = InHand(c)
      /\ Todo(C, l) = Todo(c, l) \ {s}
  BY <1>1, NextFrames
<1>3. CallsPlaced(R, C, nd) /\ s \in Todo(c, l)
  BY <1>1, <1>2, NextPlaced, CallFacts
<1>4. \A j \in IdsOf(R) : R.flat[j].scope = s =>
          \/ Finished(R, c, d, j)
          \/ Inside(R.flat[j]) = {} /\ \A t : j \notin Wanted(R, slot, t)
  BY MetFacts
<1> HIDE DEF C, s, l
<1>5. \A j \in IdsOf(R) : /\ R.flat[j].scope = s => Finished(R, C, nd, j)
                          /\ R.flat[j].scope # s =>
                                 (Finished(R, C, nd, j) <=> Finished(R, c, d, j))
  <2>1. ASSUME NEW j \in IdsOf(R), R.flat[j].scope # s
        PROVE  Finished(R, C, nd, j) <=> Finished(R, c, d, j)
    <3>1. ~(j < 1)
      BY <1>1, Sizes DEF IdsOf
    <3>2. \A k \in DOMAIN c : R.flat[j].scope = Cur(C, k) /\ j < C[k].at
                              <=> R.flat[j].scope = Cur(c, k) /\ j < c[k].at
      <4>1. ASSUME NEW k \in DOMAIN c, k # l PROVE Cur(C, k) = Cur(c, k) /\ C[k].at = c[k].at
        BY <1>2, <4>1 DEF Cur
      <4>2. ~(R.flat[j].scope = Cur(c, l)) /\ ~(j < C[l].at)
        BY <1>2, <2>1, <3>1 DEF s
      <4> QED
        BY <4>1, <4>2
    <3> QED
      BY <1>2, <2>1, <3>2 DEF Finished
  <2> QED
    BY <2>1 DEF Finished
<1>6. \A j \in IdsOf(R) : Finished(R, c, d, j) => Finished(R, C, nd, j)
  BY <1>5
<1>7. \A j \in IdsOf(R) : Finished(R, C, nd, j) =>
          \/ Finished(R, c, d, j)
          \/ Inside(R.flat[j]) = {} /\ \A t : j \notin Wanted(R, slot, t)
  BY <1>4, <1>5
<1>8. \A j \in IdsOf(R) : Finished(R, C, nd, j) => Inside(R.flat[j]) \subseteq nd
  BY <1>1, <1>7 DEF BodiesOK
<1>9. ASSUME NEW t \in 1..R.scopes
      PROVE  Ascending(b[t]) /\ Emitted(b[t]) = {j \in Wanted(R, slot, t) : Finished(R, C, nd, j)}
  <2>1. Ascending(b[t]) /\ Emitted(b[t]) = {j \in Wanted(R, slot, t) : Finished(R, c, d, j)}
    BY <1>1 DEF BodiesOK
  <2>2. \A j \in Wanted(R, slot, t) : j \in IdsOf(R)
    BY DEF Wanted
  <2>3. \A j \in Wanted(R, slot, t) : Finished(R, C, nd, j) <=> Finished(R, c, d, j)
    BY <1>6, <1>7, <2>2
  <2> QED
    BY <2>1, <2>3
<1>10. ASSUME NEW x \in nd \cup UNION {Todo(C, k) : k \in DOMAIN C}, x # 1
       PROVE  \E j \in IdsOf(R) : x \in Inside(R.flat[j]) /\ (Finished(R, C, nd, j) \/ j \in InHand(C))
  <2>1. \A k \in DOMAIN c : Todo(C, k) \subseteq Todo(c, k)
    <3>1. \A k \in DOMAIN c : k # l => Todo(C, k) = Todo(c, k)
      BY <1>2 DEF Todo
    <3> QED
      BY <1>2, <3>1
  <2>2. x \in d \cup UNION {Todo(c, k) : k \in DOMAIN c}
    BY <1>2, <1>3, <1>10, <2>1
  <2>3. PICK j \in IdsOf(R) : x \in Inside(R.flat[j]) /\ (Finished(R, c, d, j) \/ j \in InHand(c))
    BY <1>1, <1>10, <2>2 DEF BodiesOK
  <2> QED
    BY <1>2, <1>6, <2>3
<1>11. BodiesOK(R, C, nd, b, slot)
  BY <1>8, <1>9, <1>10, ZenonT(30) DEF BodiesOK
<1> QED
  BY <1>3, <1>11 DEF C, s, l

-----------------------------------------------------------------------------
(* A handler returns.                                                      *)

\* The handler returns.
LastCalls(c) == SubSeq(c, 1, Len(c) - 1)

\* The frames after the last scope.
LEMMA LastFrames ==
    ASSUME NEW R, NEW c, NEW d, WellFormed(R), TreeOK(R, {1}, {}), CallsOK(R, c),
           CallsPlaced(R, c, d), c # <<>>, ~(Len(c[Len(c)].todo) > 1)
    PROVE  /\ Len(c) \in DOMAIN c /\ DOMAIN c = 1..Len(c) /\ Len(c) \in Nat \ {0}
           /\ DOMAIN LastCalls(c) = 1..(Len(c) - 1)
           /\ \A k \in 1..(Len(c) - 1) :
                  k \in DOMAIN c /\ k # Len(c) /\ LastCalls(c)[k] = c[k]
           /\ \A k \in DOMAIN c : k # Len(c) => k \in 1..(Len(c) - 1)
           /\ Todo(c, Len(c)) = {Cur(c, Len(c))}
           /\ InHand(LastCalls(c)) = InHand(c) \ {c[Len(c)].entry}
<1> DEFINE l == Len(c)
           C == LastCalls(c)
           q == c[l].todo
<1>1. /\ c \in Seq(Calls(R)) /\ l \in DOMAIN c /\ DOMAIN c = 1..l /\ l \in Nat \ {0}
      /\ q \in Seq(1..R.scopes) /\ q # <<>> /\ Cur(c, l) = q[1] /\ ~(Len(q) > 1)
  <2>1. c \in Seq(Calls(R)) /\ l \in DOMAIN c /\ DOMAIN c = 1..l /\ l \in Nat \ {0}
    BY Ends DEF CallsOK
  <2> QED
    BY <2>1, CallFacts
<1> HIDE DEF q
<1>2. DOMAIN q = {1}
  <2>1. Len(q) \in Nat /\ Len(q) # 0 /\ DOMAIN q = 1..Len(q)
    BY <1>1
  <2>2. Len(q) = 1 /\ 1..1 = {1}
    BY <1>1, <2>1
  <2> QED
    BY <2>1, <2>2
<1>3. Todo(c, l) = {Cur(c, l)}
  <2>1. Todo(c, l) = {q[m] : m \in DOMAIN q}
    BY DEF Todo, q
  <2> QED
    BY <1>1, <1>2, <2>1
<1>4. /\ DOMAIN C = 1..(l - 1)
      /\ \A k \in 1..(l - 1) : k \in DOMAIN c /\ k # l /\ C[k] = c[k]
      /\ \A k \in DOMAIN c : k # l => k \in 1..(l - 1)
  <2>1. C = SubSeq(c, 1, l - 1) /\ l = Len(c)
    BY DEF LastCalls
  <2>2. c \in Seq(Calls(R)) /\ l \in Nat \ {0} /\ DOMAIN c = 1..l
    BY <1>1
  <2> HIDE DEF C, l
  <2>3. l - 1 \in Nat /\ l - 1 <= l /\ \A k \in 1..(l - 1) : k \in 1..l /\ k # l
    BY <2>2
  <2>4. DOMAIN C = 1..(l - 1) /\ \A k \in 1..(l - 1) : C[k] = c[k]
    BY <2>1, <2>2, <2>3
  <2>5. \A k \in 1..l : k # l => k \in 1..(l - 1)
    BY <2>2
  <2> QED
    BY <2>2, <2>3, <2>4, <2>5
<1> HIDE DEF C, l
<1>5. InHand(C) = InHand(c) \ {c[l].entry}
  <2>1. \A k \in DOMAIN c : k # l => c[k].entry # c[l].entry
    BY <1>1, CallsApart
  <2>2. \A k \in DOMAIN C : k \in DOMAIN c /\ k # l /\ C[k].entry = c[k].entry
    BY <1>4
  <2>3. \A k \in DOMAIN c : k # l => k \in DOMAIN C /\ C[k].entry = c[k].entry
    BY <1>4
  <2> QED
    BY <2>1, <2>2, <2>3 DEF InHand
<1> QED
  BY <1>1, <1>3, <1>4, <1>5, ZenonT(30) DEF C, l

\* The handlers that remain stay placed.
LEMMA LastPlaced ==
    ASSUME NEW R, NEW c, NEW d, WellFormed(R), TreeOK(R, {1}, {}), CallsOK(R, c),
           CallsPlaced(R, c, d), c # <<>>, ~(Len(c[Len(c)].todo) > 1)
    PROVE  CallsPlaced(R, LastCalls(c), d \cup {Cur(c, Len(c))})
<1> DEFINE l == Len(c)
           C == LastCalls(c)
           s == Cur(c, l)
           nd == d \cup {s}
<1>1. /\ l \in DOMAIN c /\ DOMAIN c = 1..l /\ l \in Nat \ {0}
      /\ DOMAIN C = 1..(l - 1)
      /\ \A k \in 1..(l - 1) : k \in DOMAIN c /\ k # l /\ C[k] = c[k]
      /\ \A k \in DOMAIN c : k # l => k \in 1..(l - 1)
      /\ Todo(c, l) = {s}
  BY LastFrames
<1>2. c[1].entry = 0 /\ c[1].todo = <<1>>
  BY DEF CallsPlaced
<1>3. l = 1 => s = 1
  BY <1>2 DEF Cur
<1> HIDE DEF C, l, s
<1>4. l # 1 => 1 \in 1..(l - 1)
  BY <1>1
<1>5. \A k \in 1..(l - 1) : /\ Cur(C, k) = Cur(c, k) /\ Todo(C, k) = Todo(c, k)
                            /\ s \notin Todo(c, k)
  <2>1. ASSUME NEW k \in 1..(l - 1) PROVE s \notin Todo(c, k)
    BY <1>1, <2>1, CallsApart
  <2> QED
    BY <1>1, <2>1 DEF Cur, Todo
<1>6. \A k \in 1..(l - 1) : /\ \A j \in 1..(k - 1) : j \in 1..(l - 1)
                            /\ k > 1 => k - 1 \in 1..(l - 1)
  BY <1>1
<1>7. IF C = <<>> THEN 1 \in nd ELSE C[1].entry = 0 /\ C[1].todo = <<1>>
  <2>1. CASE l = 1
    <3>1. 1 \in nd
      BY <1>3, <2>1
    <3>2. C = <<>>
      <4>1. 1..(l - 1) = {}
        BY <2>1
      <4>2. \E T : c \in Seq(T)
        BY DEF CallsOK
      <4>3. SubSeq(c, 1, 0) = <<>>
        OBVIOUS
      <4> QED
        BY <2>1, <4>3 DEF C, l, LastCalls
    <3> QED
      BY <3>1, <3>2
  <2>2. CASE l # 1
    <3>1. 1 \in DOMAIN C /\ C[1] = c[1]
      BY <1>1, <1>4, <2>2
    <3>2. C # <<>>
      BY <3>1
    <3> QED
      BY <1>2, <3>1, <3>2
  <2> QED
    BY <2>1, <2>2
<1>8. ASSUME NEW k \in DOMAIN C
      PROVE  /\ \A m, n \in DOMAIN C[k].todo : C[k].todo[m] = C[k].todo[n] => m = n
             /\ Todo(C, k) \cap nd = {}
             /\ \A j \in 1..(k - 1), x \in Todo(C, k) : Cur(C, j) < x
  <2>1. /\ \A m, n \in DOMAIN c[k].todo : c[k].todo[m] = c[k].todo[n] => m = n
        /\ Todo(c, k) \cap d = {}
        /\ \A j \in 1..(k - 1), x \in Todo(c, k) : Cur(c, j) < x
    BY <1>1 DEF CallsPlaced
  <2>2. \A m, n \in DOMAIN C[k].todo : C[k].todo[m] = C[k].todo[n] => m = n
    BY <1>1, <2>1
  <2>3. Todo(C, k) \cap nd = {}
    BY <1>1, <1>5, <2>1
  <2>4. \A j \in 1..(k - 1), x \in Todo(C, k) : Cur(C, j) < x
    BY <1>1, <1>5, <1>6, <2>1
  <2> QED
    BY <2>2, <2>3, <2>4
<1>9. ASSUME NEW k \in DOMAIN C, k > 1
      PROVE  LET e == R.flat[C[k].entry]
             IN /\ e.scope = Cur(C, k - 1) /\ C[k - 1].at = C[k].entry + 1
                /\ Todo(C, k) \subseteq Inside(e)
                /\ Inside(e) \subseteq Todo(C, k) \cup nd
  <2>1. LET e == R.flat[c[k].entry]
        IN /\ e.scope = Cur(c, k - 1) /\ c[k - 1].at = c[k].entry + 1
           /\ Todo(c, k) \subseteq Inside(e)
           /\ Inside(e) \subseteq Todo(c, k) \cup d
    BY <1>1, <1>9 DEF CallsPlaced
  <2>2. C[k] = c[k] /\ Todo(C, k) = Todo(c, k)
    BY <1>1, <1>5
  <2>3. Cur(C, k - 1) = Cur(c, k - 1) /\ C[k - 1] = c[k - 1]
    BY <1>1, <1>5, <1>6, <1>9
  <2> QED
    BY <2>1, <2>2, <2>3
<1>10. CallsPlaced(R, C, nd)
  BY <1>7, <1>8, <1>9 DEF CallsPlaced
<1> QED
  BY <1>10 DEF C, s, l

\* What the handler's return finishes: nothing but its entry is wanted.
LEMMA LastFinished ==
    ASSUME NEW R, NEW c, NEW d, NEW b, NEW slot, Visits(R, c, d, b, slot), c # <<>>,
           AllMet(R, c, slot), ~(Len(c[Len(c)].todo) > 1), NEW j \in IdsOf(R)
    PROVE  /\ Finished(R, c, d, j) =>
                  Finished(R, LastCalls(c), d \cup {Cur(c, Len(c))}, j)
           /\ Finished(R, LastCalls(c), d \cup {Cur(c, Len(c))}, j) =>
                  \/ Finished(R, c, d, j)
                  \/ j = c[Len(c)].entry
                  \/ Inside(R.flat[j]) = {} /\ \A t : j \notin Wanted(R, slot, t)
<1> DEFINE l == Len(c)
           C == LastCalls(c)
           s == Cur(c, l)
           nd == d \cup {s}
           e == c[l].entry
<1>1. /\ WellFormed(R) /\ TreeOK(R, {1}, {}) /\ CallsOK(R, c) /\ CallsPlaced(R, c, d)
  BY DEF Visits
<1>2. /\ l \in DOMAIN c /\ DOMAIN C = 1..(l - 1)
      /\ \A k \in 1..(l - 1) : k \in DOMAIN c /\ k # l /\ C[k] = c[k]
      /\ \A k \in DOMAIN c : k # l => k \in 1..(l - 1)
      /\ InHand(C) = InHand(c) \ {e}
  BY <1>1, LastFrames
<1>3. R.flat[j].scope = s =>
          \/ Finished(R, c, d, j)
          \/ Inside(R.flat[j]) = {} /\ \A t : j \notin Wanted(R, slot, t)
  BY MetFacts
<1> HIDE DEF C, s, l, e
<1>4. \A k \in 1..(l - 1) : Cur(C, k) = Cur(c, k) /\ C[k].at = c[k].at
  BY <1>2 DEF Cur
<1>5. CASE R.flat[j].scope = s
  <2>1. Finished(R, C, nd, j)
    BY <1>5 DEF Finished
  <2> QED
    BY <1>3, <1>5, <2>1 DEF C, s, l, e
<1>6. CASE R.flat[j].scope # s
  <2>1. (\E k \in DOMAIN c : R.flat[j].scope = Cur(c, k) /\ j < c[k].at)
        <=> \E k \in DOMAIN C : R.flat[j].scope = Cur(C, k) /\ j < C[k].at
    <3>1. \A k \in DOMAIN c : R.flat[j].scope = Cur(c, k) => k # l
      BY <1>6 DEF s
    <3> QED
      BY <1>2, <1>4, <3>1
  <2>2. Finished(R, c, d, j) => Finished(R, C, nd, j)
    BY <1>2, <2>1 DEF Finished
  <2>3. Finished(R, C, nd, j) => Finished(R, c, d, j) \/ j = e
    BY <1>2, <1>6, <2>1 DEF Finished
  <2> QED
    BY <2>2, <2>3 DEF C, s, l, e
<1> QED
  BY <1>5, <1>6

\* The handler returns; what its entry was lowered to is pushed behind what its
\* caller has emitted, when it is wanted there.
LEMMA LastVisits ==
    ASSUME NEW R, NEW c, NEW d, NEW b, NEW slot, Visits(R, c, d, b, slot), c # <<>>,
           AllMet(R, c, slot), ~(Len(c[Len(c)].todo) > 1), NEW nb,
           IF Len(c) = 1 THEN nb = b
           ELSE Outcome(R, slot, Cur(c, Len(c) - 1), c[Len(c)].entry, b, nb)
    PROVE  /\ CallsPlaced(R, LastCalls(c), d \cup {Cur(c, Len(c))})
           /\ BodiesOK(R, LastCalls(c), d \cup {Cur(c, Len(c))}, nb, slot)
<1> DEFINE l == Len(c)
           C == LastCalls(c)
           s == Cur(c, l)
           nd == d \cup {s}
           e == c[l].entry
<1>1. /\ WellFormed(R) /\ TreeOK(R, {1}, {}) /\ CallsOK(R, c) /\ CallsPlaced(R, c, d)
      /\ BodiesOK(R, c, d, b, slot) /\ b \in Blocks(R)
  BY DEF Visits
<1>2. /\ l \in DOMAIN c /\ DOMAIN C = 1..(l - 1) /\ l \in Nat \ {0}
      /\ \A k \in 1..(l - 1) : k \in DOMAIN c /\ k # l /\ C[k] = c[k]
      /\ Todo(c, l) = {s} /\ InHand(C) = InHand(c) \ {e}
  BY <1>1, LastFrames
<1>3. CallsPlaced(R, C, nd)
  BY <1>1, LastPlaced
<1>4. \A j \in IdsOf(R) :
          /\ Finished(R, c, d, j) => Finished(R, C, nd, j)
          /\ Finished(R, C, nd, j) =>
                 \/ Finished(R, c, d, j)
                 \/ j = e
                 \/ Inside(R.flat[j]) = {} /\ \A t : j \notin Wanted(R, slot, t)
  BY LastFinished
<1>5. CASE l = 1
  <2>1. e = 0 /\ nb = b /\ IdsOf(R) \subseteq Nat \ {0}
    BY <1>1, <1>5, Sizes DEF CallsPlaced, IdsOf
  <2> HIDE DEF C, nd, e, l, s
  <2>2. \A j \in IdsOf(R) : Finished(R, C, nd, j) =>
            \/ Finished(R, c, d, j)
            \/ Inside(R.flat[j]) = {} /\ \A t : j \notin Wanted(R, slot, t)
    BY <1>4, <2>1
  <2>3. \A j \in IdsOf(R) : Finished(R, C, nd, j) => Inside(R.flat[j]) \subseteq nd
    BY <1>1, <2>2 DEF BodiesOK, nd
  <2>4. ASSUME NEW t \in 1..R.scopes
        PROVE  Ascending(nb[t]) /\ Emitted(nb[t]) = {j \in Wanted(R, slot, t) : Finished(R, C, nd, j)}
    <3>1. Ascending(b[t]) /\ Emitted(b[t]) = {j \in Wanted(R, slot, t) : Finished(R, c, d, j)}
      BY <1>1 DEF BodiesOK
    <3>2. \A j \in Wanted(R, slot, t) : j \in IdsOf(R)
      BY DEF Wanted
    <3>3. \A j \in Wanted(R, slot, t) : Finished(R, C, nd, j) <=> Finished(R, c, d, j)
      BY <1>4, <2>2, <3>2
    <3> QED
      BY <2>1, <3>1, <3>3
  <2>5. ASSUME NEW x \in nd \cup UNION {Todo(C, k) : k \in DOMAIN C}, x # 1
        PROVE  \E j \in IdsOf(R) : x \in Inside(R.flat[j]) /\ (Finished(R, C, nd, j) \/ j \in InHand(C))
    <3>1. \A k \in DOMAIN C : Todo(C, k) = Todo(c, k) /\ k \in DOMAIN c
      BY <1>2 DEF Todo
    <3>2. x \in d \cup UNION {Todo(c, k) : k \in DOMAIN c}
      BY <1>2, <2>5, <3>1 DEF nd
    <3>3. PICK j \in IdsOf(R) : x \in Inside(R.flat[j]) /\ (Finished(R, c, d, j) \/ j \in InHand(c))
      BY <1>1, <2>5, <3>2 DEF BodiesOK
    <3> QED
      BY <1>2, <1>4, <2>1, <3>3
  <2>6. BodiesOK(R, C, nd, nb, slot)
    BY <2>3, <2>4, <2>5 DEF BodiesOK
  <2> QED
    BY <1>3, <2>6 DEF C, nd, s, l
<1>6. CASE l # 1
  <2> DEFINE p == Cur(c, l - 1)
  <2>1. /\ e \in IdsOf(R) /\ e # 0 /\ R.flat[e].scope = p /\ c[l - 1].at = e + 1
        /\ Inside(R.flat[e]) \subseteq Todo(c, l) \cup d /\ l - 1 \in DOMAIN c /\ l - 1 \in 1..(l - 1)
    <3>1. l > 1 /\ l - 1 \in 1..(l - 1)
      <4>1. l \in Nat \ {0} /\ l # 1
        BY <1>2, <1>6
      <4> HIDE DEF l
      <4> QED
        BY <4>1
    <3>2. e \in {0} \cup IdsOf(R)
      BY <1>1, <1>2, CallFacts
    <3> QED
      BY <1>1, <1>2, <3>1, <3>2 DEF CallsOK, CallsPlaced
  <2>2. p \in 1..R.scopes /\ p \notin d /\ Outcome(R, slot, p, e, b, nb)
    <3>1. p \in Todo(c, l - 1) /\ Todo(c, l - 1) \subseteq 1..R.scopes
      BY <1>1, <2>1, CallFacts
    <3>2. p \notin d
      BY <1>1, <2>1, CursApart
    <3> QED
      BY <1>6, <3>1, <3>2
  <2> HIDE DEF p
  <2>3. e \in InHand(c) /\ e \notin InHand(C)
    BY <1>2 DEF InHand
  <2>4. ~Finished(R, c, d, e) /\ Finished(R, C, nd, e)
    <3>1. ~Finished(R, c, d, e)
      BY <2>1, <2>2, <2>3 DEF Finished
    <3>2. Cur(C, l - 1) = p /\ C[l - 1].at = e + 1 /\ l - 1 \in DOMAIN C
      BY <1>2, <2>1 DEF Cur, p
    <3>3. e < e + 1
      BY <2>1, Sizes, <1>1 DEF IdsOf
    <3> HIDE DEF C, nd, e, l
    <3>4. Finished(R, C, nd, e)
      BY <2>1, <2>3, <3>2, <3>3 DEF Finished
    <3> QED
      BY <3>1, <3>4
  <2>5. \A j \in Wanted(R, slot, p) : Finished(R, c, d, j) => j < e
    <3>1. ASSUME NEW j \in IdsOf(R), R.flat[j].scope = p, Finished(R, c, d, j) PROVE j < e
      <4>1. j \notin InHand(c) /\ j < c[l - 1].at
        BY <1>1, <2>1, <3>1, FinishedHere DEF p
      <4>2. j # e /\ j < e + 1 /\ j \in Nat /\ e \in Nat
        BY <1>1, <2>1, <2>3, <4>1, Sizes DEF IdsOf
      <4> HIDE DEF e
      <4> QED
        BY <4>2
    <3>2. \A j \in Wanted(R, slot, p) : j \in IdsOf(R) /\ R.flat[j].scope = p
      BY DEF Wanted
    <3> QED
      BY <3>1, <3>2
  <2> HIDE DEF C, nd, e, l, s
  <2>6. \A j \in IdsOf(R) : Finished(R, C, nd, j) => Inside(R.flat[j]) \subseteq nd
    BY <1>1, <1>2, <1>4, <2>1 DEF BodiesOK, nd
  <2>7. BodiesHold(R, C, nd, nb, slot)
    <3>1. BodiesHold(R, c, d, b, slot)
      BY <1>1 DEF BodiesOK, BodiesHold
    <3>2. FinishesOnly(R, c, d, C, nd, slot, e)
      BY <1>4, <2>4 DEF FinishesOnly
    <3> QED
      BY <1>1, <2>1, <2>2, <2>5, <3>1, <3>2, OutcomeBodies
  <2>8. ASSUME NEW x \in nd \cup UNION {Todo(C, k) : k \in DOMAIN C}, x # 1
        PROVE  \E j \in IdsOf(R) : x \in Inside(R.flat[j]) /\ (Finished(R, C, nd, j) \/ j \in InHand(C))
    <3>1. \A k \in DOMAIN C : Todo(C, k) = Todo(c, k) /\ k \in DOMAIN c
      BY <1>2 DEF Todo
    <3>2. x \in d \cup UNION {Todo(c, k) : k \in DOMAIN c}
      BY <1>2, <2>8, <3>1 DEF nd
    <3>3. PICK j \in IdsOf(R) : x \in Inside(R.flat[j]) /\ (Finished(R, c, d, j) \/ j \in InHand(c))
      BY <1>1, <2>8, <3>2 DEF BodiesOK
    <3> QED
      BY <1>2, <1>4, <2>4, <3>3
  <2>9. BodiesOK(R, C, nd, nb, slot)
    BY <2>6, <2>7, <2>8 DEF BodiesOK, BodiesHold
  <2> QED
    BY <1>3, <2>9 DEF C, nd, s, l
<1> QED
  BY <1>5, <1>6

-----------------------------------------------------------------------------
(* The steps of lowering.                                                  *)

\* The handlers in progress, while lowering goes on.
Visiting == Visits(reg, calls, done, ir, slot0) /\ calls # <<>>

\* The scope of the innermost handler is the global one in main's call only.
LEMMA MainScope ==
    ASSUME Visiting
    PROVE  /\ Scope = Cur(calls, Len(calls)) /\ Call = calls[Len(calls)]
           /\ IsMain <=> Scope = 1
           /\ Len(calls) \in DOMAIN calls
<1> DEFINE l == Len(calls)
<1>1. /\ CallsOK(reg, calls) /\ CallsPlaced(reg, calls, done) /\ calls # <<>>
      /\ l \in DOMAIN calls /\ l \in Nat \ {0} /\ DOMAIN calls = 1..l
  BY Ends DEF Visiting, Visits, CallsOK
<1>2. Scope = Cur(calls, l) /\ Call = calls[l]
  BY DEF Scope, Call, Cur
<1>3. ASSUME l = 1 PROVE Cur(calls, l) = 1
  <2>1. calls[1].todo = <<1>>
    BY <1>1 DEF CallsPlaced
  <2>2. Cur(calls, 1) = calls[1].todo[1]
    BY <1>1, <1>3, CallFacts
  <2> QED
    BY <1>3, <2>1, <2>2
<1>4. ASSUME l # 1 PROVE Cur(calls, l) # 1
  <2>1. l > 1
    <3> HIDE DEF l
    <3> QED
      BY <1>1, <1>4
  <2> QED
    BY <1>1, <2>1, CursApart
<1> QED
  BY <1>1, <1>2, <1>3, <1>4 DEF IsMain

\* An entry lower_stmt has no call for has nothing inside and is not wanted.
LEMMA Unhandled ==
    ASSUME Visiting, NEW j \in IdsOf(reg), reg.flat[j].scope = Scope,
           reg.flat[j].tag \notin Handled
    PROVE  Inside(reg.flat[j]) = {} /\ \A s : j \notin Wanted(reg, slot0, s)
<1>1. IsMain <=> Scope = 1
  BY MainScope
<1>2. reg.flat[j].tag \notin Declared \cup IF Scope = 1 THEN Definitions ELSE Flow
  BY <1>1 DEF Handled
<1>3. \A s : j \notin Wanted(reg, slot0, s)
  BY <1>2 DEF Wanted
<1>4. reg.flat[j].tag # "Function" /\ (Scope # 1 => reg.flat[j].tag \notin Flow)
  BY <1>1 DEF Handled, Definitions
<1>5. Inside(reg.flat[j]) = {}
  BY <1>4 DEF Inside, Flow
<1> QED
  BY <1>3, <1>5

\* What the loop comes to next.
LEMMA ComesUp ==
    ASSUME Visiting, NEW i \in Upcoming
    PROVE  ComesTo(reg, calls, slot0, i) /\ reg.flat[i].tag \in Handled
<1>1. i \in Left /\ \A j \in Left : i <= j
  BY DEF Upcoming
<1>2. /\ i \in IdsOf(reg) /\ i >= Call.at /\ reg.flat[i].scope = Scope
      /\ reg.flat[i].tag \in Handled
  BY <1>1 DEF Left
<1>3. Scope = Cur(calls, Len(calls)) /\ Call = calls[Len(calls)] /\ Len(calls) \in DOMAIN calls
  BY MainScope
<1>4. IdsOf(reg) \subseteq Nat /\ Call.at \in Nat
  <2>1. IdsOf(reg) \subseteq Nat
    BY Sizes DEF Visiting, Visits, IdsOf
  <2>2. Call.at \in 1..reg.next
    BY <1>3, CallFacts DEF Visiting, Visits
  <2> QED
    BY <2>1, <2>2
<1>5. ASSUME NEW j \in IdsOf(reg), reg.flat[j].scope = Scope, Call.at <= j, j < i
      PROVE  reg.flat[j].tag \notin Handled
  <2>1. SUFFICES ASSUME reg.flat[j].tag \in Handled PROVE FALSE
    OBVIOUS
  <2>2. j >= Call.at /\ ~(i <= j)
    BY <1>2, <1>4, <1>5
  <2>3. j \in Left
    BY <1>5, <2>1, <2>2 DEF Left
  <2> QED
    BY <1>1, <2>2, <2>3
<1>6. Quiet(reg, calls, slot0, i)
  BY <1>3, <1>5, Unhandled DEF Quiet
<1>7. Call.at <= i
  BY <1>2, <1>4
<1> QED
  BY <1>2, <1>3, <1>6, <1>7 DEF ComesTo, Visiting

\* The loop is at its end.
LEMMA AllUp == ASSUME Visiting, Left = {} PROVE AllMet(reg, calls, slot0)
<1>1. Scope = Cur(calls, Len(calls)) /\ Call = calls[Len(calls)] /\ Len(calls) \in DOMAIN calls
  BY MainScope
<1>2. IdsOf(reg) \subseteq Nat /\ Call.at \in Nat
  <2>1. IdsOf(reg) \subseteq Nat
    BY Sizes DEF Visiting, Visits, IdsOf
  <2>2. Call.at \in 1..reg.next
    BY <1>1, CallFacts DEF Visiting, Visits
  <2> QED
    BY <2>1, <2>2
<1>3. ASSUME NEW j \in IdsOf(reg), reg.flat[j].scope = Scope, Call.at <= j
      PROVE  reg.flat[j].tag \notin Handled
  <2>1. j >= Call.at
    BY <1>2, <1>3
  <2> QED
    BY <1>3, <2>1 DEF Left
<1> QED
  BY <1>1, <1>3, Unhandled DEF AllMet

\* What is said of the handlers after a step.
VisitsKept == CallsPlaced(reg', calls', done') /\ BodiesOK(reg', calls', done', ir', slot0')

\* Expressions that are registered on the way do not come between the loop and
\* its entry.
LEMMA StillComes ==
    ASSUME Lowering, Visiting, NEW i \in Upcoming,
           AddsAtoms(reg', reg), TreeOK(reg', {1}, {})
    PROVE  /\ Visits(reg', calls, done, ir, slot0) /\ ComesTo(reg', calls, slot0, i)
           /\ reg'.flat[i] = reg.flat[i] /\ i \in IdsOf(reg) /\ reg.flat[i].scope = Scope
           /\ \A slot, s : Wanted(reg', slot, s) = Wanted(reg, slot, s)
<1>1. WellFormed(reg) /\ Low(reg', calls, ir, uses) /\ WellFormed(reg')
  BY LowGrows DEF Lowering, AddsAtoms, Grows
<1>2. /\ \A slot, s : Wanted(reg', slot, s) = Wanted(reg, slot, s)
      /\ \A j \in IdsOf(reg') \ IdsOf(reg) : Inside(reg'.flat[j]) = {}
      /\ \A j \in IdsOf(reg) : j \in IdsOf(reg') /\ reg'.flat[j] = reg.flat[j]
  BY <1>1, AtomsUnwanted
<1>3. Visits(reg', calls, done, ir, slot0)
  <2>1. CallsPlaced(reg', calls, done) /\ BodiesOK(reg', calls, done, ir, slot0)
    BY <1>1, VisitsGrow DEF Visiting, Visits
  <2> QED
    BY <1>1, <2>1 DEF Visits, Low
<1>4. ComesTo(reg, calls, slot0, i)
  BY ComesUp
<1>5. i \in IdsOf(reg) /\ reg.flat[i].scope = Scope
  BY <1>4, MainScope DEF ComesTo
<1>6. ASSUME NEW j \in IdsOf(reg'), reg'.flat[j].scope = Cur(calls, Len(calls)),
             calls[Len(calls)].at <= j, j < i
      PROVE  Inside(reg'.flat[j]) = {} /\ \A s : j \notin Wanted(reg', slot0, s)
  <2>1. CASE j \in IdsOf(reg)
    BY <1>2, <1>4, <1>6, <2>1 DEF ComesTo, Quiet
  <2>2. CASE j \notin IdsOf(reg)
    <3>1. \A s : j \notin Wanted(reg, slot0, s)
      BY <2>2 DEF Wanted
    <3> QED
      BY <1>2, <2>2, <3>1
  <2> QED
    BY <2>1, <2>2
<1>7. ComesTo(reg', calls, slot0, i)
  BY <1>2, <1>4, <1>5, <1>6 DEF ComesTo, Quiet
<1> QED
  BY <1>2, <1>3, <1>5, <1>7

\* The handler makes no visit.
LEMMA GoesOnVisits ==
    ASSUME Lowering, Visiting, NEW i \in Upcoming,
           AddsAtoms(reg', reg), TreeOK(reg', {1}, {}),
           calls' = SetCall(Past(Call, i)), done' = done, slot0' = slot0,
           Inside(reg.flat[i]) = {}, Outcome(reg, slot0, Scope, i, ir, ir')
    PROVE  VisitsKept
<1>1. /\ Visits(reg', calls, done, ir, slot0) /\ ComesTo(reg', calls, slot0, i)
      /\ reg'.flat[i] = reg.flat[i] /\ i \in IdsOf(reg) /\ reg.flat[i].scope = Scope
      /\ \A slot, s : Wanted(reg', slot, s) = Wanted(reg, slot, s)
  BY StillComes
<1>2. calls' = PastLast(calls, i)
  BY DEF SetCall, Call, PastLast
<1>3. Outcome(reg', slot0, reg'.flat[i].scope, i, ir, ir') /\ Inside(reg'.flat[i]) = {}
  BY <1>1 DEF Outcome
<1>4. /\ CallsPlaced(reg', PastLast(calls, i), done)
      /\ BodiesOK(reg', PastLast(calls, i), done, ir', slot0)
  BY <1>1, <1>3, PastVisits
<1> QED
  BY <1>2, <1>4 DEF VisitsKept

\* The handler calls lower_stmt on what is inside its entry.
LEMMA GoesInVisits ==
    ASSUME Lowering, Visiting, NEW i \in Upcoming,
           AddsAtoms(reg', reg), TreeOK(reg', {1}, {}), NEW todo,
           calls' = Append(SetCall(Past(Call, i)), Visit(i, todo)),
           done' = done, slot0' = slot0, ir' = ir,
           \A m, n \in DOMAIN todo : todo[m] = todo[n] => m = n,
           {todo[m] : m \in DOMAIN todo} = Inside(reg.flat[i])
    PROVE  VisitsKept
<1>1. /\ Visits(reg', calls, done, ir, slot0) /\ ComesTo(reg', calls, slot0, i)
      /\ reg'.flat[i] = reg.flat[i]
  BY StillComes
<1>2. calls' = Append(PastLast(calls, i), Visit(i, todo))
  BY DEF SetCall, Call, PastLast
<1>3. /\ CallsPlaced(reg', Append(PastLast(calls, i), Visit(i, todo)), done)
      /\ BodiesOK(reg', Append(PastLast(calls, i), Visit(i, todo)), done, ir, slot0)
  BY <1>1, PushVisits
<1> QED
  BY <1>2, <1>3 DEF VisitsKept

\* Which of the entries the loop comes to are wanted.
LEMMA Wants ==
    ASSUME Lowering, Visiting, NEW i \in Upcoming
    PROVE  /\ i \in IdsOf(reg) /\ reg.flat[i].scope = Scope /\ reg.flat[i].tag \in Handled
           /\ i \in Wanted(reg, slot0, Scope) <=>
                  /\ reg.flat[i].tag \in Declared \cup IF IsMain THEN Definitions ELSE Flow
                  /\ (reg.flat[i].tag = "Return" /\ reg.flat[i].fn = 0) => slot0 # "null"
<1>1. ComesTo(reg, calls, slot0, i) /\ reg.flat[i].tag \in Handled
  BY ComesUp
<1>2. i \in IdsOf(reg) /\ reg.flat[i].scope = Scope /\ (IsMain <=> Scope = 1)
  BY <1>1, MainScope DEF ComesTo
<1> QED
  BY <1>1, <1>2 DEF Wanted

\* A definition is emitted in main's call, and nowhere else.
LEMMA DefinitionVisits ==
    ASSUME Lowering, Visiting, NEW i \in Upcoming, LowerDefinition(i) PROVE VisitsKept
<1>1. /\ reg.flat[i].tag \in {"Struct", "Enum", "Trait", "Extern"}
      /\ calls' = SetCall(Past(Call, i)) /\ UNCHANGED <<reg, uses, done, slot0>>
      /\ IF IsMain THEN Emit(Scope, i) ELSE UNCHANGED ir
  BY DEF LowerDefinition, At
<1>2. i \in Wanted(reg, slot0, Scope) <=> IsMain
  BY <1>1, Wants DEF Definitions, Declared, Flow
<1>3. Outcome(reg, slot0, Scope, i, ir, ir') /\ Inside(reg.flat[i]) = {}
  BY <1>1, <1>2 DEF Outcome, Emit, Inside
<1>4. AddsAtoms(reg', reg) /\ TreeOK(reg', {1}, {}) /\ done' = done /\ slot0' = slot0
  BY <1>1, SameRegister
<1> QED
  BY <1>1, <1>3, <1>4, GoesOnVisits

\* A return that is dropped is one that is not wanted.
LEMMA DropVisits ==
    ASSUME Lowering, Visiting, NEW i \in Upcoming, DropReturn(i) PROVE VisitsKept
<1>1. /\ reg.flat[i].tag = "Return" /\ RegisterGetFunction(reg, i) = 0 /\ slot0 = "null"
      /\ calls' = SetCall(Past(Call, i)) /\ UNCHANGED <<reg, uses, ir, done, slot0>>
  BY DEF DropReturn, At
<1>2. reg.flat[i].fn = 0
  BY <1>1 DEF RegisterGetFunction
<1>3. Outcome(reg, slot0, Scope, i, ir, ir') /\ Inside(reg.flat[i]) = {}
  BY <1>1, <1>2, Wants DEF Outcome, Inside
<1>4. AddsAtoms(reg', reg) /\ TreeOK(reg', {1}, {}) /\ done' = done /\ slot0' = slot0
  BY <1>1, SameRegister
<1> QED
  BY <1>1, <1>3, <1>4, GoesOnVisits

\* A declaration, an expression statement or a return is wanted and emitted.
LEMMA StatementVisits ==
    ASSUME Lowering, Visiting, NEW i \in Upcoming,
           LowerBinding(i) \/ LowerExprStmt(i) \/ LowerReturn(i)
    PROVE  VisitsKept
<1>1. /\ reg.flat[i].tag \in Declared \cup {"ExprStmt", "Atomic", "Return"}
      /\ reg.flat[i].tag = "Return" => RegisterGetFunction(reg, i) # 0 \/ slot0 = "readable"
      /\ calls' = SetCall(Past(Call, i)) /\ Emit(Scope, i)
      /\ done' = done /\ slot0' = slot0
  BY DEF LowerBinding, LowerExprStmt, LowerReturn, At, Declared
<1>2. i \in Wanted(reg, slot0, Scope)
  BY <1>1, Wants DEF Handled, Definitions, Declared, Flow, RegisterGetFunction
<1>3. Outcome(reg, slot0, Scope, i, ir, ir') /\ Inside(reg.flat[i]) = {}
  BY <1>1, <1>2 DEF Outcome, Emit, Inside, Declared
<1>4. AddsAtoms(reg', reg) /\ TreeOK(reg', {1}, {})
  BY StatementGrows
<1> QED
  BY <1>1, <1>3, <1>4, GoesOnVisits

\* lower_function calls lower_stmt on all that is inside the entry.
LEMMA FunctionVisits ==
    ASSUME Lowering, Visiting, NEW i \in Upcoming, LowerFunction(i) PROVE VisitsKept
<1> DEFINE todo == reg.flat[i].kids
<1>1. /\ UNCHANGED <<reg, uses>> /\ reg.flat[i].tag = "Function"
      /\ calls' = Append(SetCall(Past(Call, i)), Visit(i, todo))
      /\ done' = done /\ slot0' = slot0 /\ ir' = ir
  BY DEF LowerFunction, At
<1>2. i \in IdsOf(reg) /\ reg.flat[i].tag \in Branching
  BY <1>1, UpcomingVisited DEF Branching
<1>3. \A m, n \in DOMAIN todo : todo[m] = todo[n] => m = n
  BY <1>2 DEF Lowering, TreeOK, Leads
<1>4. {todo[m] : m \in DOMAIN todo} = Inside(reg.flat[i])
  BY <1>1 DEF Inside, KidsOf
<1> HIDE DEF todo
<1>5. AddsAtoms(reg', reg) /\ TreeOK(reg', {1}, {})
  BY <1>1, SameRegister
<1> QED
  BY <1>1, <1>3, <1>4, <1>5, GoesInVisits

\* The bodies of a branch, loop or match are distinct.
LEMMA BodiesApart ==
    ASSUME NEW T, NEW e, e.kids \in Seq(T), Len(e.kids) >= 2,
           \A k, l \in DOMAIN e.kids : e.kids[k] = e.kids[l] => k = l
    PROVE  \A m, n \in DOMAIN Bodies(e) : Bodies(e)[m] = Bodies(e)[n] => m = n
<1> DEFINE q == e.kids
<1>1. q \in Seq(T) /\ Len(q) >= 2 /\ \A k, l \in DOMAIN q : q[k] = q[l] => k = l
  OBVIOUS
<1>2. CASE e.tag = "Match"
  <2>1. Bodies(e) = SubSeq(q, 3, Len(q))
    BY <1>2 DEF Bodies
  <2> HIDE DEF q
  <2>2. \A m \in DOMAIN SubSeq(q, 3, Len(q)) :
            m \in Nat /\ m + 2 \in DOMAIN q /\ SubSeq(q, 3, Len(q))[m] = q[m + 2]
    BY <1>1
  <2>3. \A m, n \in Nat : m + 2 = n + 2 => m = n
    OBVIOUS
  <2>4. \A m, n \in DOMAIN SubSeq(q, 3, Len(q)) :
            SubSeq(q, 3, Len(q))[m] = SubSeq(q, 3, Len(q))[n] => m = n
    BY <1>1, <2>2, <2>3, ZenonT(30)
  <2> QED
    BY <2>1, <2>4
<1>3. CASE e.tag # "Match"
  <2>1. Bodies(e) = Tail(q)
    BY <1>3 DEF Bodies
  <2> HIDE DEF q
  <2>2. \A m \in DOMAIN Tail(q) : m \in Nat /\ m + 1 \in DOMAIN q /\ Tail(q)[m] = q[m + 1]
    BY <1>1
  <2>3. \A m, n \in Nat : m + 1 = n + 1 => m = n
    OBVIOUS
  <2>4. \A m, n \in DOMAIN Tail(q) : Tail(q)[m] = Tail(q)[n] => m = n
    BY <1>1, <2>2, <2>3, ZenonT(30)
  <2> QED
    BY <2>1, <2>4
<1> QED
  BY <1>2, <1>3

\* A branch, loop or match calls lower_stmt on its bodies, or is emitted at once.
LEMMA FlowVisits ==
    ASSUME Lowering, Visiting, NEW i \in Upcoming, LowerFlow(i) PROVE VisitsKept
<1> DEFINE e == reg.flat[i]
           todo == Bodies(e)
<1>1. /\ e.tag \in {"If", "Elif", "While", "For", "Match"}
      /\ IF todo = <<>>
         THEN calls' = SetCall(Past(Call, i)) /\ Emit(Scope, i)
         ELSE calls' = Append(SetCall(Past(Call, i)), Visit(i, todo)) /\ UNCHANGED ir
      /\ done' = done /\ slot0' = slot0
  BY DEF LowerFlow, At
<1>2. /\ i \in IdsOf(reg) /\ e.tag \in Branching /\ e.scope = Scope /\ ~IsMain
      /\ i \in Wanted(reg, slot0, Scope)
  BY <1>1, Wants DEF Branching, Handled, Definitions, Declared, Flow
<1>3. e.scope # 1
  BY <1>2, MainScope
<1>4. {todo[m] : m \in DOMAIN todo} = Inside(e)
  BY <1>1, <1>3 DEF Inside
<1>5. \A m, n \in DOMAIN todo : todo[m] = todo[n] => m = n
  <2>1. e.kids \in Seq(1..reg.scopes) /\ Len(e.kids) >= 2
    BY <1>1, <1>2, KidsLed
  <2>2. \A k, l \in DOMAIN e.kids : e.kids[k] = e.kids[l] => k = l
    BY <1>2 DEF Lowering, TreeOK, Leads
  <2> HIDE DEF e
  <2> QED
    BY <2>1, <2>2, BodiesApart
<1>6. AddsAtoms(reg', reg) /\ TreeOK(reg', {1}, {})
  BY FlowGrows
<1> HIDE DEF todo
<1>7. CASE todo = <<>>
  <2>1. Inside(reg.flat[i]) = {}
    <3>1. \A x \in Inside(e) : \E m \in DOMAIN <<>> : TRUE
      BY <1>4, <1>7
    <3> QED
      BY <3>1
  <2>2. Outcome(reg, slot0, Scope, i, ir, ir')
    BY <1>1, <1>2, <1>7 DEF Outcome, Emit
  <2> QED
    BY <1>1, <1>6, <1>7, <2>1, <2>2, GoesOnVisits
<1>8. CASE todo # <<>>
  <2>1. calls' = Append(SetCall(Past(Call, i)), Visit(i, todo)) /\ ir' = ir
    BY <1>1, <1>8
  <2>2. \A m, n \in DOMAIN todo : todo[m] = todo[n] => m = n
    BY <1>5
  <2>3. {todo[m] : m \in DOMAIN todo} = Inside(reg.flat[i])
    BY <1>4
  <2> QED
    BY <1>1, <1>6, <2>1, <2>2, <2>3, GoesInVisits
<1> QED
  BY <1>7, <1>8

\* What EndVisit pushes is what is wanted in the scope of the entry.
LEMMA PushedWanted ==
    ASSUME Visiting, ~IsMain
    PROVE  LET l == Len(calls)
               e == calls[l].entry
           IN /\ l > 1 /\ l - 1 \in DOMAIN calls /\ e \in IdsOf(reg)
              /\ Pushed(l - 1, e) <=> e \in Wanted(reg, slot0, Cur(calls, l - 1))
<1> DEFINE l == Len(calls)
           e == calls[l].entry
           p == Cur(calls, l - 1)
<1>1. /\ CallsOK(reg, calls) /\ CallsPlaced(reg, calls, done) /\ l \in DOMAIN calls
      /\ l \in Nat \ {0} /\ DOMAIN calls = 1..l /\ l # 1
  BY Ends DEF Visiting, Visits, CallsOK, IsMain
<1>2. l > 1 /\ l - 1 \in DOMAIN calls
  <2> HIDE DEF l
  <2> QED
    BY <1>1
<1>3. e \in IdsOf(reg) /\ reg.flat[e].scope = p /\ Todo(calls, l) \subseteq Inside(reg.flat[e])
  <2>1. e \in {0} \cup IdsOf(reg)
    BY <1>1, CallFacts
  <2>2. e # 0
    BY <1>1, <1>2 DEF CallsOK
  <2> QED
    BY <1>1, <1>2, <2>1, <2>2 DEF CallsPlaced
<1>4. Inside(reg.flat[e]) # {}
  BY <1>1, <1>3, CallFacts, SMTT(30)
<1>5. reg.flat[e].tag = "Function" \/ (p # 1 /\ reg.flat[e].tag \in {"If", "Elif", "While", "For", "Match"})
  BY <1>3, <1>4 DEF Inside
<1>6. p = 1 <=> l - 1 = 1
  <2>1. ASSUME l - 1 = 1 PROVE p = 1
    <3>1. calls[1].todo = <<1>>
      BY <1>1 DEF CallsPlaced
    <3>2. 1 \in DOMAIN calls
      BY <1>1
    <3>3. Cur(calls, 1) = calls[1].todo[1]
      BY <1>1, <3>2, CallFacts
    <3>4. p = Cur(calls, 1)
      BY <2>1
    <3> HIDE DEF p
    <3> QED
      BY <3>1, <3>3, <3>4
  <2>2. ASSUME l - 1 # 1 PROVE p # 1
    <3>1. l - 1 > 1
      <4> HIDE DEF l
      <4> QED
        BY <1>1, <2>2
    <3> QED
      BY <1>1, <1>2, <3>1, CursApart
  <2> QED
    BY <2>1, <2>2
<1> HIDE DEF p, l, e
<1>7. Pushed(l - 1, e) <=> (p = 1 \/ reg.flat[e].tag # "Function")
  BY <1>6 DEF Pushed
<1>8. e \in Wanted(reg, slot0, p) <=> (p = 1 \/ reg.flat[e].tag # "Function")
  BY <1>3, <1>5 DEF Wanted, Declared, Definitions, Flow
<1> QED
  BY <1>2, <1>3, <1>7, <1>8 DEF p, l, e

\* lower_stmt returns.
LEMMA EndVisits == ASSUME Visiting, EndVisit PROVE VisitsKept
<1> DEFINE l == Len(calls)
<1>1. /\ reg' = reg /\ slot0' = slot0 /\ Left = {} /\ done' = done \cup {Cur(calls, l)}
      /\ Call = calls[l]
  BY MainScope DEF EndVisit
<1>2. Visits(reg, calls, done, ir, slot0) /\ calls # <<>> /\ AllMet(reg, calls, slot0)
  BY <1>1, AllUp DEF Visiting
<1>3. CASE Len(calls[l].todo) > 1
  <2>1. calls' = NextCalls(calls) /\ ir' = ir
    BY <1>1, <1>3 DEF EndVisit, SetCall, NextCalls
  <2>2. /\ CallsPlaced(reg, NextCalls(calls), done \cup {Cur(calls, l)})
        /\ BodiesOK(reg, NextCalls(calls), done \cup {Cur(calls, l)}, ir, slot0)
    BY <1>2, <1>3, NextVisits
  <2> QED
    BY <1>1, <2>1, <2>2 DEF VisitsKept
<1>4. CASE ~(Len(calls[l].todo) > 1)
  <2>1. /\ calls' = LastCalls(calls)
        /\ IF ~IsMain /\ Pushed(l - 1, calls[l].entry)
           THEN Emit(Cur(calls, l - 1), calls[l].entry) ELSE UNCHANGED ir
    BY <1>1, <1>4 DEF EndVisit, LastCalls, Cur
  <2>2. IF l = 1 THEN ir' = ir
        ELSE Outcome(reg, slot0, Cur(calls, l - 1), calls[l].entry, ir, ir')
    <3>1. CASE IsMain
      BY <2>1, <3>1 DEF IsMain
    <3>2. CASE ~IsMain
      BY <2>1, <3>2, PushedWanted DEF IsMain, Outcome, Emit, Visiting
    <3> QED
      BY <3>1, <3>2
  <2>3. /\ CallsPlaced(reg, LastCalls(calls), done \cup {Cur(calls, l)})
        /\ BodiesOK(reg, LastCalls(calls), done \cup {Cur(calls, l)}, ir', slot0)
    BY <1>2, <1>4, <2>2, LastVisits
  <2> QED
    BY <1>1, <2>1, <2>3 DEF VisitsKept
<1> QED
  BY <1>3, <1>4

\* main calls lower_stmt: nothing is finished yet.
LEMMA ModuleVisits ==
    ASSUME WellFormed(reg), LowerModule, done = {} PROVE VisitsKept
<1>1. /\ reg' = reg /\ calls' = <<Visit(0, <<1>>)>> /\ done' = {}
      /\ ir' = [s \in 1..reg.scopes |-> <<>>] /\ slot0' \in SlotZero
  BY DEF LowerModule
<1> DEFINE c == <<Visit(0, <<1>>)>>
<1>2. /\ DOMAIN c = {1} /\ c[1].entry = 0 /\ c[1].todo = <<1>> /\ c[1].at = 1 /\ c # <<>>
  BY DEF Visit
<1> HIDE DEF c
<1>3. Todo(c, 1) = {1} /\ InHand(c) = {0}
  BY <1>2 DEF Todo, InHand
<1>4. CallsPlaced(reg, c, {})
  BY <1>2 DEF CallsPlaced
<1>5. \A i \in IdsOf(reg) : ~Finished(reg, c, {}, i)
  <2>1. \A i \in IdsOf(reg) : ~(i < 1)
    BY Sizes DEF IdsOf
  <2> QED
    BY <1>2, <2>1 DEF Finished
<1>6. BodiesOK(reg, c, {}, ir', slot0')
  <2>1. ASSUME NEW s \in 1..reg.scopes
        PROVE  Ascending(ir'[s]) /\ Emitted(ir'[s]) = {i \in Wanted(reg, slot0', s) : Finished(reg, c, {}, i)}
    <3>1. ir'[s] = <<>> /\ DOMAIN <<>> = {}
      BY <1>1
    <3>2. Ascending(ir'[s]) /\ Emitted(ir'[s]) = {}
      BY <3>1 DEF Ascending, Emitted
    <3>3. \A i \in Wanted(reg, slot0', s) : i \in IdsOf(reg)
      BY DEF Wanted
    <3> QED
      BY <1>5, <3>2, <3>3
  <2>2. UNION {Todo(c, k) : k \in DOMAIN c} = {1}
    BY <1>2, <1>3
  <2> QED
    BY <1>5, <2>1, <2>2 DEF BodiesOK
<1> QED
  BY <1>1, <1>4, <1>6 DEF VisitsKept, c

\* A step of lowering that does not crash.
LEMMA StepVisits ==
    ASSUME WellFormed(reg), LowerStep, LowerModule => calls = <<>> /\ done = {},
           calls # <<>> => Visiting /\ Lowering, \A i \in Upcoming : ~CrashReturn(i)
    PROVE  VisitsKept
<1>1. ASSUME NEW i \in Upcoming,
             \/ LowerDefinition(i) \/ LowerBinding(i) \/ LowerFunction(i) \/ LowerFlow(i)
             \/ LowerExprStmt(i) \/ LowerReturn(i) \/ DropReturn(i)
      PROVE  VisitsKept
  <2>1. Visiting /\ Lowering
    BY DEF Upcoming
  <2> QED
    BY <1>1, <2>1, DefinitionVisits, StatementVisits, FunctionVisits, FlowVisits, DropVisits
<1>2. CASE EndVisit
  BY <1>2, EndVisits DEF EndVisit
<1>3. CASE LowerModule
  BY <1>3, ModuleVisits
<1> QED
  BY <1>1, <1>2, <1>3 DEF LowerStep

-----------------------------------------------------------------------------
(* The inductive invariant.                                                *)

\* Once the program is registered, only the global scope is open.
LEMMA NoneOpen == ASSUME NEW R PROVE Scoped(R, <<>>) <=> TreeOK(R, {1}, {})
<1>1. Opened(<<>>) = {1} /\ Claimed(<<>>) = {} /\ DOMAIN <<>> = {}
  BY DEF Opened, Claimed
<1> QED
  BY <1>1 DEF Scoped, Apart

\* main calls lower_stmt.
LEMMA ModuleLowers ==
    ASSUME WellFormed(reg), TreeOK(reg, {1}, {}), Faithful(reg, uses), LowerModule,
           calls = <<>>
    PROVE  Lowers
<1> DEFINE m == <<1>>
<1>1. /\ reg' = reg /\ uses' = uses /\ calls' = <<Visit(0, m)>>
      /\ ir' = [s \in 1..reg.scopes |-> <<>>]
  BY DEF LowerModule
<1>2. reg.next \in Nat \ {0} /\ reg.scopes \in Nat \ {0}
  BY Sizes
<1>3. ir' \in Blocks(reg)
  BY <1>1 DEF Blocks
<1>4. m \in Seq(1..reg.scopes) \ {<<>>} /\ \A k \in DOMAIN m : Visited(reg, m[k])
  <2>1. 1 \in 1..reg.scopes
    BY <1>2
  <2> DEFINE T == 1..reg.scopes
  <2>2. m \in Seq(T) /\ m # <<>> /\ \A k \in DOMAIN m : m[k] = 1
    <3>1. 1 \in T
      BY <2>1
    <3> HIDE DEF T
    <3> QED
      BY <3>1
  <2> QED
    BY <2>2 DEF Visited
<1> HIDE DEF m
<1>5. CallsOK(reg, <<>>)
  BY DEF CallsOK
<1>6. CallsOK(reg, Append(<<>>, Visit(0, m)))
  BY <1>2, <1>4, <1>5, VisitLow
<1>7. CallsOK(reg, calls')
  BY <1>1, <1>6
<1> QED
  BY <1>1, <1>3, <1>7 DEF Lowers, Low

\* What a handler of lower_stmt does keeps what lowering needs.
LEMMA StepKeepsLowering ==
    ASSUME Lowering, LowerStep, LowerModule => calls = <<>> PROVE Lowers
<1>1. ASSUME NEW i \in Upcoming,
             \/ LowerDefinition(i) \/ LowerBinding(i) \/ LowerFunction(i) \/ LowerFlow(i)
             \/ LowerExprStmt(i) \/ LowerReturn(i) \/ DropReturn(i) \/ CrashReturn(i)
      PROVE  Lowers
  BY <1>1, DefinitionLowers, StatementLowers, FunctionLowers, FlowLowers, CrashLowers
<1>2. CASE EndVisit
  BY <1>2, EndLowers
<1>3. CASE LowerModule
  BY <1>3, ModuleLowers DEF Lowering, Low
<1> QED
  BY <1>1, <1>2, <1>3 DEF LowerStep

\* The inductive invariant of both phases.
LoweringKeeps ==
    /\ LowerInv /\ ScopesOK /\ CallsOK(reg, calls) /\ Faithful(reg, uses) /\ VisitsOK
    /\ ir = <<>> \/ ir \in Blocks(reg)
    /\ slot0 \in SlotZero \cup {"crashed"}
    /\ stack # <<>> => calls = <<>> /\ ir = <<>> /\ uses = {}
    /\ calls # <<>> => ir # <<>>

\* It implies the invariant that module Lower states.
LEMMA LoweringIsOK == LoweringKeeps => LoweringOK
<1>1. Calls(reg) = CallType /\ Ids = IdsOf(reg) /\ Scopes = 1..reg.scopes
      /\ Blocks(reg) = [Scopes -> Seq(Ids)]
  BY DEF Calls, CallType, Ids, Scopes, Blocks
<1>2. LoweringKeeps => LowerTypeOK
  BY <1>1 DEF LoweringKeeps, LowerTypeOK, CallsOK, Faithful, LowerInv
<1>3. LoweringKeeps => ScopeFaithful
  BY DEF LoweringKeeps, Faithful, Same, ScopeFaithful
<1> QED
  BY <1>2, <1>3 DEF LoweringKeeps, LoweringOK, CallsOK

\* The registers before the walk.
LEMMA InitLowers == LowerInit => LoweringKeeps
<1>1. ASSUME LowerInit PROVE LoweringKeeps
  <2>1. LowerInv
    <3>1. Init => IndInv /\ WalkInv /\ ParamsFirst(reg)
      BY InitGood, InitWalks DEF WalkInv, WalkOK
    <3> QED
      BY <1>1, <3>1 DEF LowerInit, LowerInv
  <2>2. ScopesOK
    BY <1>1, InitScopes DEF LowerInit
  <2>3. CallsOK(reg, <<>>) /\ Faithful(reg, {})
    BY DEF CallsOK, Faithful
  <2> QED
    BY <1>1, <2>1, <2>2, <2>3 DEF LowerInit, LoweringKeeps, SlotZero, VisitsOK
<1> QED
  BY <1>1

\* The front end registers before anything is lowered.
LEMMA RegisteringLowers ==
    ASSUME LoweringKeeps, Registering PROVE ScopesOK' /\ UNCHANGED lowerVars /\ stack # <<>>
<1>1. stack # <<>> /\ Next /\ WalkInv /\ UNCHANGED lowerVars
  BY DEF Registering, Next, LoweringKeeps, LowerInv
<1> QED
  BY <1>1, StepScopes DEF LoweringKeeps

\* A handler in progress: the process has not crashed.
LEMMA KeepsVisiting == ASSUME LoweringKeeps, calls # <<>> PROVE Visiting /\ Lowering
<1>1. ir # <<>> /\ WellFormed(reg) /\ stack = <<>>
  BY DEF LoweringKeeps, LowerInv, IndInv
<1>2. slot0 # "crashed"
  BY <1>1 DEF LoweringKeeps, VisitsOK
<1>3. CallsPlaced(reg, calls, done) /\ BodiesOK(reg, calls, done, ir, slot0)
  BY <1>1, <1>2 DEF LoweringKeeps, VisitsOK
<1>4. TreeOK(reg, {1}, {})
  BY <1>1, NoneOpen DEF LoweringKeeps, Scoped, ScopesOK
<1>5. ir \in Blocks(reg)
  BY <1>1 DEF LoweringKeeps
<1> QED
  BY <1>1, <1>3, <1>4, <1>5 DEF LoweringKeeps, Visiting, Visits, Lowering, Low

\* What has been emitted when the process crashes was wanted.
LEMMA CrashVisits ==
    ASSUME Visiting, NEW i, CrashReturn(i)
    PROVE  /\ slot0' = "crashed" /\ calls' = <<>>
           /\ \A s \in 1..reg'.scopes :
                  Ascending(ir'[s]) /\ Emitted(ir'[s]) \subseteq Wanted(reg', slot0', s)
<1>1. reg' = reg /\ ir' = ir /\ slot0 = "unmapped" /\ slot0' = "crashed" /\ calls' = <<>>
  BY DEF CrashReturn
<1>2. \A s : Wanted(reg, "unmapped", s) = Wanted(reg, "crashed", s)
  BY DEF Wanted
<1>3. \A s \in 1..reg.scopes : Ascending(ir[s]) /\ Emitted(ir[s]) \subseteq Wanted(reg, slot0, s)
  BY DEF Visiting, Visits, BodiesOK
<1> QED
  BY <1>1, <1>2, <1>3

\* Whatever the step, crash or not.
LEMMA StepKeepsVisits == ASSUME LoweringKeeps, LowerStep, ir' # <<>> PROVE VisitsOK'
<1>1. WellFormed(reg) /\ (calls # <<>> => Visiting /\ Lowering)
  BY KeepsVisiting DEF LoweringKeeps, LowerInv, IndInv
<1>2. LowerModule => calls = <<>> /\ done = {} /\ ir = <<>>
  BY DEF LowerModule, LoweringKeeps, VisitsOK
<1>3. ASSUME NEW i \in Upcoming, CrashReturn(i) PROVE VisitsOK'
  <2>1. calls # <<>>
    BY DEF Upcoming
  <2>2. /\ slot0' = "crashed" /\ calls' = <<>>
        /\ \A s \in 1..reg'.scopes :
               Ascending(ir'[s]) /\ Emitted(ir'[s]) \subseteq Wanted(reg', slot0', s)
    BY <1>1, <1>3, <2>1, CrashVisits
  <2> QED
    BY <2>2 DEF VisitsOK, Scopes
<1>4. ASSUME \A i \in Upcoming : ~CrashReturn(i) PROVE VisitsOK'
  <2>1. VisitsKept
    BY <1>1, <1>2, <1>4, StepVisits
  <2>2. slot0' # "crashed"
    <3>1. CASE LowerModule
      BY <3>1 DEF LowerModule, SlotZero
    <3>2. CASE ~LowerModule
      <4>1. calls # <<>> /\ slot0' = slot0
        BY <1>4, <3>2 DEF LowerStep, LowerDefinition, LowerBinding, LowerFunction,
           LowerFlow, LowerExprStmt, LowerReturn, DropReturn, EndVisit, Upcoming
      <4>2. slot0 # "crashed"
        BY <4>1 DEF LoweringKeeps, VisitsOK
      <4> QED
        BY <4>1, <4>2
    <3> QED
      BY <3>1, <3>2
  <2> QED
    BY <2>1, <2>2 DEF VisitsKept, VisitsOK
<1> QED
  BY <1>3, <1>4

\* A step of lowering keeps every part.
LEMMA LowerStepKeeps ==
    ASSUME LoweringKeeps, LowerStep
    PROVE  /\ ScopesOK' /\ Lowers /\ VisitsOK' /\ stack' = <<>> /\ ir' # <<>>
           /\ slot0' \in SlotZero \cup {"crashed"}
<1>1. stack = <<>> /\ stack' = <<>>
  BY StepLowers DEF LoweringKeeps
<1>2. WellFormed(reg) /\ TreeOK(reg, {1}, {})
  BY <1>1, NoneOpen DEF LoweringKeeps, LowerInv, IndInv, Scoped, ScopesOK
<1>3. Lowers
  <2>1. CASE LowerModule
    <3>1. calls = <<>>
      BY <2>1 DEF LowerModule, LoweringKeeps
    <3> QED
      BY <1>2, <2>1, <3>1, ModuleLowers DEF LoweringKeeps
  <2>2. CASE ~LowerModule
    <3>1. calls # <<>>
      BY <2>2 DEF LowerStep, EndVisit, Upcoming
    <3>2. Lowering
      BY <1>2, <3>1 DEF LoweringKeeps, Lowering, Low
    <3> QED
      BY <2>2, <3>2, StepKeepsLowering
  <2> QED
    BY <2>1, <2>2
<1>4. ScopesOK'
  <2>1. Scoped(reg', <<>>)
    BY <1>3, NoneOpen DEF Lowers
  <2> QED
    BY <1>1, <2>1 DEF Scoped, ScopesOK
<1>5. ir' # <<>>
  <2>1. reg'.scopes \in Nat \ {0}
    <3>1. WellFormed(reg')
      BY <1>2, StepAdds DEF AddsAtoms, Grows
    <3> QED
      BY <3>1, Sizes
  <2>2. DOMAIN ir' = 1..reg'.scopes /\ 1 \in 1..reg'.scopes
    BY <1>3, <2>1 DEF Lowers, Low, Blocks
  <2>3. DOMAIN <<>> = {} /\ DOMAIN ir' # {}
    BY <2>2
  <2> QED
    BY <2>3, Zenon
<1>6. slot0' \in SlotZero \cup {"crashed"}
  BY DEF LoweringKeeps, LowerStep, LowerModule, LowerDefinition, LowerBinding, LowerFunction,
         LowerFlow, LowerExprStmt, LowerReturn, DropReturn, CrashReturn, EndVisit
<1>7. VisitsOK'
  BY <1>5, StepKeepsVisits
<1> QED
  BY <1>1, <1>3, <1>4, <1>5, <1>6, <1>7

\* The induction step.
LEMMA LoweringKept ==
    ASSUME LoweringKeeps, [LowerNext]_allVars PROVE LoweringKeeps'
<1>1. LowerInv'
  BY LowerInvKept DEF LoweringKeeps
<1>2. CASE Registering
  <2>1. ScopesOK' /\ UNCHANGED lowerVars /\ calls = <<>> /\ ir = <<>> /\ uses = {}
    BY <1>2, RegisteringLowers DEF LoweringKeeps
  <2>2. calls' = <<>> /\ ir' = <<>> /\ uses' = {} /\ slot0' = slot0 /\ VisitsOK'
    <3>1. calls' = <<>> /\ ir' = <<>> /\ uses' = {} /\ slot0' = slot0 /\ done' = done
      BY <2>1 DEF lowerVars
    <3>2. done = {}
      BY <2>1 DEF LoweringKeeps, VisitsOK
    <3> QED
      BY <3>1, <3>2 DEF VisitsOK
  <2>3. CallsOK(reg', <<>>) /\ Faithful(reg', {})
    BY DEF CallsOK, Faithful
  <2> QED
    BY <1>1, <2>1, <2>2, <2>3 DEF LoweringKeeps
<1>3. CASE LowerStep
  BY <1>1, <1>3, LowerStepKeeps DEF LoweringKeeps, Lowers, Low
<1>4. CASE UNCHANGED allVars
  <2>1. /\ reg' = reg /\ stack' = stack /\ calls' = calls /\ ir' = ir /\ uses' = uses
        /\ slot0' = slot0 /\ done' = done
    BY <1>4 DEF allVars
  <2>2. ScopesOK' /\ VisitsOK'
    BY <2>1 DEF LoweringKeeps, ScopesOK, VisitsOK, Scopes
  <2> QED
    BY <1>1, <2>1, <2>2 DEF LoweringKeeps
<1> QED
  BY <1>2, <1>3, <1>4 DEF LowerNext

\* The invariant holds at all times.
LEMMA LoweringAlways == LowerSpec => []LoweringKeeps
BY InitLowers, LoweringKept, PTL DEF LowerSpec

\* Lowering refers to entries and scopes that exist, with names that mean what
\* they meant, and what it has emitted is what the scopes it has come past
\* want (ir.c:14-909).
THEOREM LoweringSound == LowerSpec => []LoweringOK
BY LoweringAlways, LoweringIsOK, PTL

\* Handlers in progress refer to entries and scopes that exist, and the
\* registers stay well formed while lowering adds entries (ir.c:653).
THEOREM LoweringTyped == LowerSpec => []LowerTypeOK
<1>1. LoweringOK => LowerTypeOK
  BY DEF LoweringOK
<1> QED
  BY <1>1, LoweringSound, PTL

\* Every name is looked up with a Register from which it means what it means
\* in the scope the expression was registered in (ir.c:250-326).
THEOREM NamesFaithful == LowerSpec => []ScopeFaithful
<1>1. LoweringOK => ScopeFaithful
  BY DEF LoweringOK
<1> QED
  BY <1>1, LoweringSound, PTL

-----------------------------------------------------------------------------
(* Every body is whole.                                                    *)

\* f says of the scopes up to m whether they are met.
MetUpTo(f, R, m) ==
    f = [s \in 1..m |->
            s = 1 \/ \E i \in IdsOf(R) : Enters(R, i, s) /\ f[R.flat[i].scope]]

\* The recursion of Met ends.
LEMMA MetExists ==
    ASSUME NEW R, WellFormed(R)
    PROVE  \A m \in 0..R.scopes : \E f : MetUpTo(f, R, m)
<1> DEFINE Bad == {m \in 0..R.scopes : ~\E f : MetUpTo(f, R, m)}
<1>1. SUFFICES ASSUME Bad # {} PROVE FALSE
  OBVIOUS
<1>2. R.scopes \in Nat \ {0} /\ Bad \in SUBSET Nat
  BY Sizes
<1>3. PICK m \in Bad : \A k \in Bad : m <= k
  BY <1>1, <1>2, Least
<1>4. m \in 0..R.scopes /\ ~\E f : MetUpTo(f, R, m)
  BY <1>3
<1>5. CASE m = 0
  <2> DEFINE f == [s \in {} |-> 0]
  <2>1. 1..0 = {}
    OBVIOUS
  <2>2. MetUpTo(f, R, 0)
    BY <2>1 DEF MetUpTo
  <2> QED
    BY <2>2, <1>4, <1>5
<1>6. CASE m # 0
  <2>1. m - 1 \in 0..R.scopes /\ ~(m <= m - 1) /\ m \in Nat \ {0} /\ m - 1 \in Nat
    BY <1>2, <1>4, <1>6
  <2>2. PICK f : MetUpTo(f, R, m - 1)
    BY <2>1, <1>3
  <2> DEFINE row(h, s) == s = 1 \/ \E i \in IdsOf(R) : Enters(R, i, s) /\ h[R.flat[i].scope]
             g == [s \in 1..m |-> IF s = m THEN row(f, m) ELSE f[s]]
  <2>3. \A s \in 1..m : \A i \in IdsOf(R) : Enters(R, i, s) => R.flat[i].scope \in 1..(m - 1)
    <3>1. ASSUME NEW s \in 1..m, NEW i \in IdsOf(R), Enters(R, i, s)
          PROVE  R.flat[i].scope \in 1..(m - 1)
      <4>1. R.flat[i].scope \in 1..R.scopes /\ R.flat[i].scope < s
        BY <3>1, EntryFacts DEF Enters, WellFormed
      <4> QED
        BY <1>2, <2>1, <4>1
    <3> QED
      BY <3>1
  <2>4. \A s \in 1..(m - 1) : g[s] = f[s]
    BY <2>1
  <2> HIDE DEF g
  <2>5. \A s \in 1..m : row(g, s) <=> row(f, s)
    BY <2>3, <2>4
  <2>6. f = [s \in 1..(m - 1) |-> row(f, s)]
    BY <2>2 DEF MetUpTo
  <2> HIDE DEF row
  <2>7. \A s \in 1..m : s # m => s \in 1..(m - 1) /\ f[s] = row(f, s)
    <3>1. \A s \in 1..m : s # m => s \in 1..(m - 1)
      BY <2>1
    <3> QED
      BY <2>6, <3>1
  <2>8. \A s \in 1..m : g[s] = (IF s = m THEN row(f, m) ELSE f[s])
    BY DEF g
  <2>9. \A s \in 1..m : row(g, s) = row(f, s)
    BY <2>5 DEF row
  <2>10. \A s \in 1..m : g[s] = row(g, s)
    BY <2>7, <2>8, <2>9
  <2>11. g = [s \in 1..m |-> g[s]]
    BY DEF g
  <2>12. g = [s \in 1..m |-> row(g, s)]
    BY <2>10, <2>11
  <2>13. MetUpTo(g, R, m)
    BY <2>12 DEF MetUpTo, row
  <2> QED
    BY <1>4, <2>13
<1> QED
  BY <1>5, <1>6

\* One unfolding of the recursion of Met.
LEMMA MetUnfolds ==
    ASSUME NEW R, WellFormed(R), NEW s
    PROVE  s \in Met(R) <=>
               /\ s \in 1..R.scopes
               /\ s = 1 \/ \E i \in IdsOf(R) : Enters(R, i, s) /\ R.flat[i].scope \in Met(R)
<1> DEFINE met == CHOOSE f : MetUpTo(f, R, R.scopes)
<1>1. R.scopes \in 0..R.scopes
  BY Sizes
<1>2. MetUpTo(met, R, R.scopes)
  BY <1>1, MetExists
<1>3. Met(R) = {t \in 1..R.scopes : met[t]}
  BY DEF Met, MetUpTo
<1> HIDE DEF met
<1>4. \A i \in IdsOf(R) : R.flat[i].scope \in 1..R.scopes
  BY EntryFacts DEF WellFormed
<1>5. ASSUME s \in 1..R.scopes
      PROVE  met[s] <=> s = 1 \/ \E i \in IdsOf(R) : Enters(R, i, s) /\ met[R.flat[i].scope]
  <2> DEFINE row(t) == t = 1 \/ \E i \in IdsOf(R) : Enters(R, i, t) /\ met[R.flat[i].scope]
  <2>1. met = [t \in 1..R.scopes |-> row(t)]
    BY <1>2 DEF MetUpTo
  <2> HIDE DEF row
  <2>2. met[s] = row(s)
    BY <1>5, <2>1
  <2> QED
    BY <2>2 DEF row
<1> QED
  BY <1>3, <1>4, <1>5

\* The scopes that are met for an entry are inside it.
LEMMA EntersInside ==
    ASSUME NEW R, WellFormed(R), TreeOK(R, {1}, {}), NEW i \in IdsOf(R), NEW s,
           Enters(R, i, s)
    PROVE  s \in Inside(R.flat[i])
<1> DEFINE e == R.flat[i]
           q == e.kids
<1>1. e \in EntryType /\ Leads(R, e, e.scope) /\ e.tag \in Branching
  BY EntryFacts DEF WellFormed, TreeOK, Enters, Branching
<1>2. PICK k \in DOMAIN q : q[k] = s /\ (e.tag # "Function" => k > 1) /\ (e.tag = "Match" => k > 2)
  BY DEF Enters
<1>3. q \in Seq(Nat) /\ Len(q) \in Nat /\ DOMAIN q = 1..Len(q)
  BY <1>1 DEF EntryType
<1>4. CASE e.tag = "Function"
  BY <1>2, <1>4 DEF Inside, KidsOf
<1>5. CASE e.tag # "Function"
  <2>1. e.tag \in {"If", "Elif", "While", "For", "Match"} /\ e.scope # 1
    <3>1. q # <<>>
      <4> HIDE DEF q
      <4> QED
        BY <1>2, <1>3
    <3>2. e.tag \notin {"Return", "ExprStmt", "Atomic"}
      BY <1>1, <1>5, <3>1 DEF Leads
    <3> QED
      BY <1>1, <1>5, <3>2 DEF Branching, Flow, Enters
  <2>2. \E m \in DOMAIN Bodies(e) : Bodies(e)[m] = s
    <3>1. CASE e.tag = "Match"
      <4>1. Bodies(e) = SubSeq(q, 3, Len(q)) /\ k > 2
        BY <1>2, <3>1 DEF Bodies
      <4>2. k - 2 \in DOMAIN SubSeq(q, 3, Len(q)) /\ SubSeq(q, 3, Len(q))[k - 2] = q[k]
        <5>1. q \in Seq(Nat) /\ Len(q) \in Nat /\ k \in 3..Len(q)
          <6> HIDE DEF q
          <6> QED
            BY <1>2, <1>3, <4>1
        <5> HIDE DEF q
        <5>2. DOMAIN SubSeq(q, 3, Len(q)) = 1..(Len(q) - 2)
          BY <5>1
        <5>3. k - 2 \in 1..(Len(q) - 2) /\ 3 + (k - 2) - 1 = k
          BY <5>1, SMTT(30)
        <5>4. SubSeq(q, 3, Len(q))[k - 2] = q[3 + (k - 2) - 1]
          BY <5>1, <5>3
        <5> QED
          BY <5>2, <5>3, <5>4
      <4> QED
        BY <1>2, <4>1, <4>2
    <3>2. CASE e.tag # "Match"
      <4>1. Bodies(e) = Tail(q) /\ k > 1
        BY <1>2, <1>5, <3>2 DEF Bodies
      <4>2. k - 1 \in DOMAIN Tail(q) /\ Tail(q)[k - 1] = q[k]
        <5> HIDE DEF q
        <5> QED
          BY <1>2, <1>3, <4>1
      <4> QED
        BY <1>2, <4>1, <4>2
    <3> QED
      BY <3>1, <3>2
  <2> QED
    BY <2>1, <2>2 DEF Inside
<1> QED
  BY <1>4, <1>5

\* When no handler is in progress, every scope that is met has been visited.
LEMMA MetDone ==
    ASSUME NEW R, WellFormed(R), TreeOK(R, {1}, {}), NEW d, NEW b, NEW slot,
           CallsPlaced(R, <<>>, d), BodiesOK(R, <<>>, d, b, slot)
    PROVE  Met(R) \subseteq d
<1> DEFINE Missed == Met(R) \ d
<1>1. SUFFICES ASSUME Missed # {} PROVE FALSE
  OBVIOUS
<1>2. Missed \in SUBSET Nat
  <2>1. \A s \in Met(R) : s \in 1..R.scopes
    BY MetUnfolds
  <2> QED
    BY <2>1
<1>3. PICK s \in Missed : \A t \in Missed : s <= t
  BY <1>1, <1>2, Least
<1>4. s # 1
  BY <1>3 DEF CallsPlaced
<1>5. PICK i \in IdsOf(R) : Enters(R, i, s) /\ R.flat[i].scope \in Met(R)
  BY <1>3, <1>4, MetUnfolds
<1>6. R.flat[i].scope \in d
  <2>1. R.flat[i].scope < s
    BY <1>5 DEF Enters
  <2>2. R.flat[i].scope \in Nat /\ s \in Nat
    <3>1. R.flat[i].scope \in 1..R.scopes
      BY EntryFacts DEF WellFormed
    <3> QED
      BY <1>2, <1>3, <3>1
  <2>3. ~(s <= R.flat[i].scope)
    BY <2>1, <2>2
  <2> QED
    BY <1>3, <1>5, <2>3
<1>7. Inside(R.flat[i]) \subseteq d
  BY <1>6 DEF BodiesOK, Finished
<1> QED
  BY <1>3, <1>5, <1>7, EntersInside

\* What is finished is emitted, and in the end all that is met is finished.
LEMMA VisitsComplete == LoweringKeeps => BlocksComplete
<1>1. SUFFICES ASSUME LoweringKeeps, ir # <<>> PROVE BlocksComplete
  BY DEF BlocksComplete
<1>2. ir \in Blocks(reg) /\ DOMAIN ir = 1..reg.scopes /\ WellFormed(reg) /\ stack = <<>>
  BY <1>1 DEF LoweringKeeps, Blocks, LowerInv, IndInv
<1>3. TreeOK(reg, {1}, {})
  BY <1>1, <1>2, NoneOpen DEF LoweringKeeps, Scoped, ScopesOK
<1>4. CASE slot0 # "crashed"
  <2>1. CallsPlaced(reg, calls, done) /\ BodiesOK(reg, calls, done, ir, slot0)
    BY <1>1, <1>4 DEF LoweringKeeps, VisitsOK
  <2>2. \A s \in DOMAIN ir : Ascending(ir[s]) /\ Emitted(ir[s]) \subseteq Wanted(reg, slot0, s)
    BY <1>2, <2>1 DEF BodiesOK
  <2>3. ASSUME Lowered, NEW s \in Met(reg) PROVE Emitted(ir[s]) = Wanted(reg, slot0, s)
    <3>1. calls = <<>>
      BY <2>3 DEF Lowered
    <3>2. s \in done /\ s \in 1..reg.scopes
      BY <1>2, <1>3, <2>1, <3>1, MetDone, MetUnfolds
    <3>3. \A i \in Wanted(reg, slot0, s) : Finished(reg, calls, done, i)
      BY <3>2 DEF Wanted, Finished
    <3>4. Emitted(ir[s]) = {i \in Wanted(reg, slot0, s) : Finished(reg, calls, done, i)}
      BY <2>1, <3>2 DEF BodiesOK
    <3> QED
      BY <3>3, <3>4
  <2> QED
    BY <2>2, <2>3 DEF BlocksComplete
<1>5. CASE slot0 = "crashed"
  <2>1. \A s \in 1..reg.scopes : Ascending(ir[s]) /\ Emitted(ir[s]) \subseteq Wanted(reg, slot0, s)
    BY <1>1, <1>5 DEF LoweringKeeps, VisitsOK, Scopes
  <2> QED
    BY <1>2, <1>5, <2>1 DEF BlocksComplete
<1> QED
  BY <1>4, <1>5

\* Every body in the IR holds the statements of its scope once each, in the
\* order of their ids, and nothing else, though lowering registers entries
\* while lower_stmt loops over next_id (ir.c:880-909, ir.c:653).
THEOREM BodiesWhole == LowerSpec => []BlocksComplete
BY LoweringAlways, VisitsComplete, PTL
=============================================================================
