---------------------------- MODULE ScopeProofs -----------------------------
(***************************************************************************)
(* Where the scopes and the ids that the entries hold lead.  Lowering      *)
(* relies on it: lower_stmt visits the scopes an entry keeps, and          *)
(* lower_expr the entries an expression keeps.                             *)
(*                                                                         *)
(* ScopesOK is the invariant of the walk: the entries lead to scopes inside*)
(* their own, no two of them to the same one, the operands of an expression*)
(* are behind it, and a scope kept for the arguments of a call or for an   *)
(* initialiser is never visited.  The first part shows what each helper of *)
(* the registration does to a register that has this shape, the second that*)
(* each action of RegisterStmt keeps it.                                   *)
(***************************************************************************)
EXTENDS LowerProofs

\* make_child, scope by scope.
LEMMA MakeChildFields ==
    ASSUME NEW R, WellFormed(R), NEW s \in 1..R.scopes
    PROVE  LET Q == MakeChild(R, s) IN
           /\ Q.scopes = R.scopes + 1 /\ Q.next = R.next /\ Q.flat = R.flat
           /\ R.scopes \in Nat \ {0} /\ IdsOf(Q) = IdsOf(R)
           /\ \A t \in 1..R.scopes : Q.parent[t] = R.parent[t] /\ Q.names[t] = R.names[t]
           /\ Nameless(Q, Q.scopes, s)
<1> DEFINE Q == MakeChild(R, s)
           c == R.scopes + 1
<1>1. RegisterOK(R) /\ R.scopes \in Nat \ {0}
  BY Sizes
<1>2. /\ Q.next = R.next /\ Q.flat = R.flat /\ Q.scopes = c
      /\ Q.parent = Extend(R.parent, c, s)
      /\ Q.names = Extend(R.names, c, [n \in Name |-> 0])
  BY DEF MakeChild
<1>3. DOMAIN R.parent = 1..R.scopes /\ DOMAIN R.names = 1..R.scopes
  BY <1>1 DEF RegisterOK
<1>4. /\ \A t \in 1..R.scopes : t # c /\ Q.parent[t] = R.parent[t] /\ Q.names[t] = R.names[t]
      /\ Q.parent[c] = s /\ Q.names[c] = [n \in Name |-> 0]
  BY <1>1, <1>2, <1>3 DEF Extend
<1>5. IdsOf(Q) = IdsOf(R)
  BY <1>2 DEF IdsOf
<1> HIDE DEF Q
<1>6. Nameless(Q, Q.scopes, s)
  BY <1>1, <1>2, <1>4 DEF Nameless
<1> QED
  BY <1>1, <1>2, <1>4, <1>5, <1>6 DEF Q

\* Fewer scopes are open, and fewer free.
LEMMA TreeLess ==
    ASSUME NEW R, NEW Open, NEW Free, TreeOK(R, Open, Free), NEW Open2, NEW Free2,
           1 \in Open2, Open2 \subseteq Open, Free2 \subseteq Free, Free2 \subseteq Open2
    PROVE  TreeOK(R, Open2, Free2)
BY DEF TreeOK

\* The sealed scopes are scopes.
LEMMA SealsFacts ==
    ASSUME NEW R, WellFormed(R), NEW i \in IdsOf(R), Fits(R, i), NEW s, Seals(R, i, s)
    PROVE  s \in 1..R.scopes
<1> DEFINE e == R.flat[i]
<1>1. RegisterOK(R) /\ R.next \in Nat \ {0} /\ i \in 1..(R.next - 1)
  BY Sizes DEF IdsOf
<1>2. CASE e.tag \in ScopedCalls \cup {"ExprField"} /\ e.kids # <<>> /\ s = e.kids[1]
  BY <1>2 DEF Fits
<1>3. CASE e.tag \in Declared /\ e.expr # 0 /\ s = R.flat[e.expr].scope
  <2>1. e.expr \in 1..(i - 1)
    BY <1>3 DEF Fits
  <2>2. e.expr \in IdsOf(R)
    BY <1>1, <2>1 DEF IdsOf
  <2> QED
    BY <1>1, <1>3, <2>2, EntryFacts
<1> QED
  BY <1>2, <1>3 DEF Seals

\* A new scope is open and free.
LEMMA MakeChildTree ==
    ASSUME NEW R, WellFormed(R), NEW s \in 1..R.scopes, NEW Open, NEW Free,
           TreeOK(R, Open, Free)
    PROVE  LET Q == MakeChild(R, s) IN
           /\ TreeOK(Q, Open \cup {Q.scopes}, Free \cup {Q.scopes})
           /\ Nameless(Q, Q.scopes, s)
<1> DEFINE Q == MakeChild(R, s)
           c == R.scopes + 1
<1>1. /\ Q.scopes = c /\ Q.flat = R.flat /\ R.scopes \in Nat \ {0} /\ IdsOf(Q) = IdsOf(R)
      /\ \A t \in 1..R.scopes : Q.parent[t] = R.parent[t] /\ Q.names[t] = R.names[t]
      /\ Nameless(Q, Q.scopes, s)
  BY MakeChildFields
<1> HIDE DEF Q
<1>2. \A t \in 1..R.scopes : t \in 1..Q.scopes /\ t # c
  BY <1>1
<1>3. ASSUME NEW t, NEW u, Nameless(R, t, u) PROVE Nameless(Q, t, u)
  BY <1>1, <1>2, <1>3 DEF Nameless
<1>4. ASSUME NEW i \in IdsOf(Q) PROVE Fits(Q, i)
  <2>1. Fits(R, i)
    BY <1>1 DEF TreeOK
  <2> QED
    BY <1>1, <1>2, <1>3, <2>1 DEF Fits
<1>5. ASSUME NEW i \in IdsOf(Q) PROVE Leads(Q, Q.flat[i], Q.flat[i].scope)
  <2>1. Leads(R, R.flat[i], R.flat[i].scope)
    BY <1>1 DEF TreeOK
  <2>2. R.flat[i].scope \in Nat
    BY <1>1, EntryFacts, Sizes
  <2>3. (R.flat[i].scope + 1)..R.scopes \subseteq (R.flat[i].scope + 1)..Q.scopes
    BY <1>1, <2>2
  <2> QED
    BY <1>1, <2>1, <2>3 DEF Leads
<1>6. \A i \in IdsOf(R) : \A t : Seals(Q, i, t) <=> Seals(R, i, t)
  BY <1>1 DEF Seals
<1>7. \A i \in IdsOf(R) : ~Seals(R, i, c)
  <2>1. \A i \in IdsOf(R) : Fits(R, i)
    BY DEF TreeOK
  <2>2. c \notin 1..R.scopes
    BY <1>1
  <2> QED
    BY <2>1, <2>2, SealsFacts
<1>8. \A t \in 1..R.scopes : Unsealed(R, t) => Unsealed(Q, t)
  BY <1>1, <1>2, <1>6 DEF Unsealed
<1>9. Unsealed(Q, c)
  BY <1>1, <1>6, <1>7 DEF Unsealed
<1>10. \A t : Led(Q, t) <=> Led(R, t)
  BY <1>1 DEF Led
<1>11. ~Led(R, c)
  <2> SUFFICES ASSUME NEW i \in IdsOf(R), R.flat[i].tag \in Branching, c \in KidsOf(R.flat[i])
               PROVE  FALSE
    BY DEF Led
  <2>1. KidsOf(R.flat[i]) \subseteq (R.flat[i].scope + 1)..R.scopes
    BY DEF TreeOK, Leads
  <2>2. R.flat[i].scope \in Nat
    BY EntryFacts, Sizes
  <2> QED
    BY <1>1, <2>1, <2>2
<1>12. \A t \in 1..Q.scopes : Led(Q, t) => Unsealed(Q, t)
  <2>1. \A t \in 1..Q.scopes : t \in 1..R.scopes \/ t = c
    BY <1>1
  <2> QED
    BY <1>8, <1>10, <1>11, <2>1 DEF TreeOK
<1>13. Disjoint(Q)
  BY <1>1 DEF Disjoint, TreeOK
<1>14. TreeOK(Q, Open \cup {c}, Free \cup {c})
  <2>1. \A t \in Open : Unsealed(Q, t)
    BY <1>8 DEF TreeOK, Unsealed
  <2>2. \A t \in Free : ~Led(Q, t)
    BY <1>10 DEF TreeOK
  <2>3. 1 \in Open /\ Free \subseteq Open
    BY DEF TreeOK
  <2> QED
    BY <1>4, <1>5, <1>9, <1>10, <1>11, <1>12, <1>13, <2>1, <2>2, <2>3 DEF TreeOK
<1> QED
  BY <1>1, <1>14 DEF Q

\* What an entry in scope s leads to does not depend on the other entries.
LEMMA LeadsGrows ==
    ASSUME NEW R, NEW Q, NEW e, NEW s \in Nat, R.scopes \in Nat, Q.scopes \in Nat,
           Q.scopes >= R.scopes, Leads(R, e, s)
    PROVE  Leads(Q, e, s)
<1>1. (s + 1)..R.scopes \subseteq (s + 1)..Q.scopes
  OBVIOUS
<1> QED
  BY <1>1 DEF Leads

\* An insert in an open scope.  The entry may claim free scopes or seal them.
LEMMA StoreTree ==
    ASSUME NEW R, WellFormed(R), NEW Open, NEW Free, TreeOK(R, Open, Free),
           NEW s \in Open, NEW d \in Insertable, NEW fn \in 0..(R.next - 1), NEW Q,
           Q = Store(R, s, d, fn),
           Fits(Q, R.next), Leads(R, d, s),
           NEW Open2, NEW Free2, 1 \in Open2, Open2 \subseteq Open,
           Free2 \subseteq Free, Free2 \subseteq Open2,
           d.tag \in Branching => KidsOf(d) \subseteq Free \ Free2,
           \A t : Seals(Q, R.next, t) => t \in Free \ Open2
    PROVE  TreeOK(Q, Open2, Free2)
<1> DEFINE n == R.next
<1>1. /\ RegisterOK(R) /\ s \in 1..R.scopes /\ n \in Nat \ {0} /\ R.scopes \in Nat \ {0}
      /\ s \in Nat
  BY Sizes DEF TreeOK, Unsealed
<1>2. /\ Q.scopes = R.scopes /\ Q.flat[n] = Entry(d, s, fn)
      /\ \A i \in IdsOf(R) : Q.flat[i] = R.flat[i]
      /\ IdsOf(Q) = IdsOf(R) \cup {n} /\ Q.parent = R.parent
      /\ \A t \in 1..R.scopes, m \in Name :
             Q.names[t][m] = IF t = s /\ m = d.name /\ R.names[t][m] = 0
                             THEN n ELSE R.names[t][m]
  BY <1>1, StoreFields
<1>3. /\ Q.flat[n].tag = d.tag /\ Q.flat[n].kids = d.kids /\ Q.flat[n].scope = s
      /\ Q.flat[n].expr = d.expr
  BY <1>2 DEF Entry
<1>4. \A i \in IdsOf(R) : i # n /\ i \in 1..(n - 1) /\ \A j \in 1..(i - 1) : j \in IdsOf(R)
  BY <1>1 DEF IdsOf
<1>5. ASSUME NEW i \in IdsOf(R)
      PROVE  Fits(R, i) /\ Leads(R, R.flat[i], R.flat[i].scope) /\ ~Seals(R, i, s)
  BY DEF TreeOK, Unsealed
<1> HIDE DEF n
<1>6. ASSUME NEW c, NEW u, Nameless(R, c, u), c # s PROVE Nameless(Q, c, u)
  BY <1>2, <1>6, SMTT(30) DEF Nameless
<1>7. ASSUME NEW i \in IdsOf(R) PROVE Fits(Q, i)
  <2> DEFINE e == R.flat[i]
  <2>1. Q.flat[i] = e /\ Fits(R, i) /\ ~Seals(R, i, s)
    BY <1>2, <1>5
  <2>2. \A j \in 1..(i - 1) : Q.flat[j] = R.flat[j]
    BY <1>2, <1>4
  <2>3. e.tag \in ScopedCalls \cup {"ExprField"} /\ e.kids # <<>> =>
            /\ e.kids[1] \in 1..Q.scopes
            /\ \A j \in IdsOf(Q) : Q.flat[j].scope = e.kids[1] => j < i
    <3> SUFFICES ASSUME e.tag \in ScopedCalls \cup {"ExprField"}, e.kids # <<>>
                 PROVE  /\ e.kids[1] \in 1..Q.scopes
                        /\ \A j \in IdsOf(Q) : Q.flat[j].scope = e.kids[1] => j < i
      BY ZenonT(30)
    <3>1. e.kids[1] # s
      BY <2>1, SMTT(30) DEF Seals
    <3>2. e.kids[1] \in 1..R.scopes /\ \A j \in IdsOf(R) : R.flat[j].scope = e.kids[1] => j < i
      BY <2>1 DEF Fits
    <3> QED
      BY <1>2, <1>3, <3>1, <3>2
  <2>4. e.tag = "ExprField" /\ e.kids # <<>> => Nameless(Q, e.kids[1], e.scope)
    <3> SUFFICES ASSUME e.tag = "ExprField", e.kids # <<>>
                 PROVE  Nameless(Q, e.kids[1], e.scope)
      BY SMTT(30)
    <3>1. e.kids[1] # s /\ Nameless(R, e.kids[1], e.scope)
      BY <2>1 DEF Seals, Fits
    <3> QED
      BY <1>6, <3>1
  <2>5. e.tag \in Declared /\ e.expr # 0 =>
            /\ e.expr \in 1..(i - 1)
            /\ \/ e.expr \in 1..(i - 1) /\ Q.flat[e.expr].scope = e.scope
               \/ Nameless(Q, Q.flat[e.expr].scope, e.scope)
    <3> SUFFICES ASSUME e.tag \in Declared, e.expr # 0
                 PROVE  /\ e.expr \in 1..(i - 1)
                        /\ \/ e.expr \in 1..(i - 1) /\ Q.flat[e.expr].scope = e.scope
                           \/ Nameless(Q, Q.flat[e.expr].scope, e.scope)
      BY SMTT(30)
    <3>1. e.expr \in 1..(i - 1)
      BY <2>1 DEF Fits
    <3>2. Q.flat[e.expr] = R.flat[e.expr]
      BY <2>2, <3>1
    <3>3. CASE R.flat[e.expr].scope = e.scope
      BY <3>1, <3>2, <3>3
    <3>4. CASE R.flat[e.expr].scope # e.scope
      <4>1. R.flat[e.expr].scope # s
        BY <2>1, <3>4, SMTT(30) DEF Seals
      <4>2. Nameless(R, R.flat[e.expr].scope, e.scope)
        BY <2>1, <3>4 DEF Fits
      <4> QED
        BY <1>6, <3>1, <3>2, <4>1, <4>2
    <3> QED
      BY <3>3, <3>4
  <2>6. \A j : j \in 1..(i - 1) /\ R.flat[j].scope = e.scope
                 => j \in 1..(i - 1) /\ Q.flat[j].scope = e.scope
    BY <2>2, SMTT(30)
  <2> HIDE DEF e
  <2>7. Fits(R, i) => /\ e.tag \in ScopedCalls => e.kids # <<>>
                      /\ e.tag = "ExprField" /\ e.kids = <<>> =>
                             e.expr \in 1..(i - 1) /\ R.flat[e.expr].scope = e.scope
                      /\ e.tag \in {"ExprBinaryOp", "ExprIdx"} =>
                             /\ i - 2 \in 1..(i - 1) /\ R.flat[i - 2].scope = e.scope
                             /\ i - 1 \in 1..(i - 1) /\ R.flat[i - 1].scope = e.scope
                      /\ e.tag \in {"ExprUnary", "ExprAddrOf", "ExprCast"} =>
                             i - 1 \in 1..(i - 1) /\ R.flat[i - 1].scope = e.scope
                      /\ e.tag = "Return" /\ e.expr # 0 =>
                             e.expr \in 1..(i - 1) /\ R.flat[e.expr].scope = e.scope
    BY DEF Fits, e
  <2> QED
    BY <2>1, <2>3, <2>4, <2>5, <2>6, <2>7 DEF Fits
<1>8. \A i \in IdsOf(Q) : Fits(Q, i)
  BY <1>2, <1>7 DEF n
<1>9. ASSUME NEW i \in IdsOf(Q) PROVE Leads(Q, Q.flat[i], Q.flat[i].scope)
  <2>1. CASE i \in IdsOf(R)
    <3>1. Leads(R, R.flat[i], R.flat[i].scope) /\ Q.flat[i] = R.flat[i]
      BY <1>2, <1>5, <2>1
    <3> QED
      BY <1>2, <3>1 DEF Leads
  <2>2. CASE i = n
    BY <1>2, <1>3, <2>2, SMTT(30) DEF Leads, KidsOf
  <2> QED
    BY <1>2, <2>1, <2>2
<1>10. ASSUME NEW i \in IdsOf(R), NEW t, Seals(Q, i, t) PROVE Seals(R, i, t)
  <2>1. Q.flat[i] = R.flat[i] /\ Fits(R, i)
    BY <1>2, <1>5, SMTT(30)
  <2>2. R.flat[i].tag \in Declared /\ R.flat[i].expr # 0 =>
            Q.flat[R.flat[i].expr] = R.flat[R.flat[i].expr]
    BY <1>2, <1>4, <2>1 DEF Fits
  <2> QED
    BY <1>10, <2>1, <2>2 DEF Seals
<1>11. ASSUME NEW t \in 1..R.scopes, Unsealed(R, t), ~Seals(Q, n, t) PROVE Unsealed(Q, t)
  BY <1>2, <1>10, <1>11 DEF Unsealed
<1>12. ASSUME NEW t \in Open2 PROVE Unsealed(Q, t)
  <2>1. t \in Open /\ ~Seals(Q, n, t)
    BY <1>12 DEF n
  <2>2. Unsealed(R, t)
    BY <2>1 DEF TreeOK
  <2> QED
    BY <1>11, <2>1, <2>2 DEF Unsealed
<1>13. ASSUME NEW t PROVE Led(Q, t) <=> Led(R, t) \/ (d.tag \in Branching /\ t \in KidsOf(d))
  <2>1. Led(R, t) <=> \E i \in IdsOf(R) : Q.flat[i].tag \in Branching /\ t \in KidsOf(Q.flat[i])
    BY <1>2 DEF Led
  <2>2. KidsOf(Q.flat[n]) = KidsOf(d)
    BY <1>3 DEF KidsOf
  <2> QED
    BY <1>2, <1>3, <2>1, <2>2 DEF Led
<1>14. ASSUME NEW t \in 1..Q.scopes, Led(Q, t) PROVE Unsealed(Q, t)
  <2>1. CASE Led(R, t)
    <3>1. Unsealed(R, t) /\ t \notin Free
      BY <1>2, <2>1 DEF TreeOK
    <3>2. ~Seals(Q, n, t)
      BY <3>1 DEF n
    <3> QED
      BY <1>2, <1>11, <3>1, <3>2
  <2>2. CASE d.tag \in Branching /\ t \in KidsOf(d)
    <3>1. t \in Free
      BY <2>2
    <3>2. Unsealed(R, t)
      BY <3>1 DEF TreeOK
    <3>3. ~Seals(Q, n, t)
      BY <1>3, <2>2 DEF Seals, Branching, Flow, ScopedCalls, Declared
    <3> QED
      BY <1>2, <1>11, <3>2, <3>3
  <2> QED
    BY <1>13, <1>14, <2>1, <2>2
<1>15. Disjoint(Q)
  <2>1. ASSUME NEW i \in IdsOf(R), R.flat[i].tag \in Branching, d.tag \in Branching
        PROVE  KidsOf(R.flat[i]) \cap KidsOf(d) = {}
    BY <2>1 DEF TreeOK, Led
  <2>2. Disjoint(R)
    BY DEF TreeOK
  <2>3. KidsOf(Q.flat[n]) = KidsOf(d)
    BY <1>3 DEF KidsOf
  <2>4. ASSUME NEW i \in IdsOf(Q), NEW j \in IdsOf(Q), i # j,
               Q.flat[i].tag \in Branching, Q.flat[j].tag \in Branching
        PROVE  KidsOf(Q.flat[i]) \cap KidsOf(Q.flat[j]) = {}
    <3>1. CASE i \in IdsOf(R) /\ j \in IdsOf(R)
      BY <1>2, <2>2, <2>4, <3>1 DEF Disjoint
    <3>2. CASE i \in IdsOf(R) /\ j = n
      BY <1>2, <1>3, <2>1, <2>3, <2>4, <3>2
    <3>3. CASE i = n /\ j \in IdsOf(R)
      BY <1>2, <1>3, <2>1, <2>3, <2>4, <3>3
    <3> QED
      BY <1>2, <2>4, <3>1, <3>2, <3>3
  <2> QED
    BY <2>4 DEF Disjoint
<1>16. ASSUME NEW t \in Free2 PROVE ~Led(Q, t)
  <2>1. ~Led(R, t)
    BY <1>16 DEF TreeOK
  <2> QED
    BY <1>13, <1>16, <2>1
<1> QED
  BY <1>8, <1>9, <1>12, <1>14, <1>15, <1>16 DEF TreeOK

-----------------------------------------------------------------------------
(* Expressions.                                                            *)

\* The stamp register_insert computes is 0 or an id.
LEMMA OwnerFnTyped ==
    ASSUME NEW R, WellFormed(R), NEW s \in 1..R.scopes
    PROVE  OwnerFn(R, s) \in 0..(R.next - 1)
<1> DEFINE o == R.owner[s]
<1>1. RegisterOK(R) /\ R.next \in Nat \ {0}
  BY Sizes
<1>2. CASE o = 0
  BY <1>1, <1>2 DEF OwnerFn
<1>3. CASE o # 0
  <2>1. o \in IdsOf(R)
    BY <1>1, <1>3, ScopeFacts
  <2>2. o \in Nat /\ o < R.next /\ R.flat[o].fn \in 0..(o - 1)
    BY <1>1, <2>1, EntryFacts
  <2>3. OwnerFn(R, s) = o \/ OwnerFn(R, s) = R.flat[o].fn
    BY <1>3 DEF OwnerFn
  <2> HIDE DEF o
  <2> QED
    BY <1>1, <2>2, <2>3
<1> QED
  BY <1>2, <1>3

\* register_insert in an open scope.
LEMMA InsertTree ==
    ASSUME NEW R, WellFormed(R), NEW Open, NEW Free, TreeOK(R, Open, Free),
           NEW s \in Open, NEW d \in Insertable, NEW Q, Q = RegisterInsert(R, s, d),
           Fits(Q, R.next), Leads(R, d, s),
           NEW Open2, NEW Free2, 1 \in Open2, Open2 \subseteq Open,
           Free2 \subseteq Free, Free2 \subseteq Open2,
           d.tag \in Branching => KidsOf(d) \subseteq Free \ Free2,
           \A t : Seals(Q, R.next, t) => t \in Free \ Open2
    PROVE  TreeOK(Q, Open2, Free2)
<1>1. s \in 1..R.scopes
  BY DEF TreeOK, Unsealed
<1>2. OwnerFn(R, s) \in 0..(R.next - 1) /\ Q = Store(R, s, d, OwnerFn(R, s))
  BY <1>1, OwnerFnTyped DEF RegisterInsert
<1> QED
  BY <1>2, StoreTree

\* The fields of the entry just inserted, and what happens to the others.
LEMMA InsertFields ==
    ASSUME NEW R, WellFormed(R), NEW s \in 1..R.scopes, NEW d \in Insertable, NEW Q,
           Q = RegisterInsert(R, s, d)
    PROVE  /\ WellFormed(Q) /\ Q.scopes = R.scopes /\ Q.next = R.next + 1 /\ Q.parent = R.parent
           /\ R.next \in Nat \ {0} /\ IdsOf(Q) = IdsOf(R) \cup {R.next}
           /\ \A i \in IdsOf(R) : Q.flat[i] = R.flat[i]
           /\ Q.flat[R.next].tag = d.tag /\ Q.flat[R.next].kids = d.kids
           /\ Q.flat[R.next].scope = s /\ Q.flat[R.next].expr = d.expr
           /\ LastId(Q) = R.next
           /\ d.name = NoName => \A t \in 1..R.scopes, m \in Name : Q.names[t][m] = R.names[t][m]
<1>1. OwnerFn(R, s) \in 0..(R.next - 1) /\ Q = Store(R, s, d, OwnerFn(R, s))
  BY OwnerFnTyped DEF RegisterInsert
<1>2. RegisterOK(R) /\ R.next \in Nat \ {0}
  BY Sizes
<1>3. WellFormed(Q)
  BY InsertWithin DEF Within
<1>4. /\ Q.next = R.next + 1 /\ Q.scopes = R.scopes /\ Q.parent = R.parent
      /\ IdsOf(Q) = IdsOf(R) \cup {R.next}
      /\ \A i \in IdsOf(R) : Q.flat[i] = R.flat[i]
      /\ Q.flat[R.next] = Entry(d, s, OwnerFn(R, s))
      /\ \A t \in 1..R.scopes, m \in Name :
             Q.names[t][m] = IF t = s /\ m = d.name /\ R.names[t][m] = 0
                             THEN R.next ELSE R.names[t][m]
  BY <1>1, <1>2, StoreFields
<1>5. d.name = NoName => \A t \in 1..R.scopes, m \in Name : Q.names[t][m] = R.names[t][m]
  BY <1>4, NoNameAssumption
<1>6. LastId(Q) = R.next
  BY <1>2, <1>4 DEF LastId
<1> QED
  BY <1>2, <1>3, <1>4, <1>5, <1>6 DEF Entry

\* The entries that may hold a scope or an id.
Holders == Branching \cup ScopedCalls \cup Declared
               \cup {"ExprField", "ExprBinaryOp", "ExprIdx", "ExprUnary", "ExprAddrOf", "ExprCast"}
\* What a handler that registers no expression and no branch hands over.
Plain(d) == \/ d.tag \notin Holders
            \/ d.tag \in {"ExprStmt", "Atomic"} /\ d.kids = <<>>
            \/ d.tag \in Declared /\ d.expr = 0
            \/ d.tag = "Return" /\ d.kids = <<>> /\ d.expr = 0

\* Such an entry leaves the shape of the register as it is.
LEMMA PlainTree ==
    ASSUME NEW R, WellFormed(R), NEW Open, NEW Free, TreeOK(R, Open, Free),
           NEW s \in Open, NEW d \in Insertable, Plain(d)
    PROVE  TreeOK(RegisterInsert(R, s, d), Open, Free)
<1> DEFINE Q == RegisterInsert(R, s, d)
           n == R.next
<1>1. s \in 1..R.scopes
  BY DEF TreeOK, Unsealed
<1>2. Q.flat[n].tag = d.tag /\ Q.flat[n].kids = d.kids /\ Q.flat[n].expr = d.expr
  BY <1>1, InsertFields
<1> HIDE DEF Q
<1>3. Fits(Q, n) /\ \A t : ~Seals(Q, n, t)
  BY <1>2 DEF Fits, Seals, Plain, Holders, Branching, Flow, ScopedCalls, Declared
<1>4. Leads(R, d, s) /\ (d.tag \in Branching => KidsOf(d) = {})
  BY DEF Leads, Plain, Holders, KidsOf, Branching, Flow, ScopedCalls, Declared
<1>5. Free \subseteq Open /\ 1 \in Open
  BY DEF TreeOK
<1> HIDE DEF n
<1>6. TreeOK(Q, Open, Free)
  BY <1>3, <1>4, <1>5, InsertTree DEF Q, n
<1> QED
  BY <1>6 DEF Q

\* An entry without a name leaves the names of every scope alone.
LEMMA InsertNameless ==
    ASSUME NEW R, WellFormed(R), NEW s \in 1..R.scopes, NEW d \in Insertable,
           d.name = NoName, NEW c, NEW u, Nameless(R, c, u)
    PROVE  Nameless(RegisterInsert(R, s, d), c, u)
BY InsertFields DEF Nameless

\* register_expr for an atom.
LEMMA AtomTree ==
    ASSUME NEW R, WellFormed(R), NEW Open, NEW Free, TreeOK(R, Open, Free),
           NEW s \in Open, NEW t \in AtomTags, NEW p \in Nat
    PROVE  LET Q == Atom(R, s, t, p) IN
           /\ TreeOK(Q, Open, Free) /\ WellFormed(Q)
           /\ Q.scopes = R.scopes /\ Q.next = R.next + 1
           /\ \A i \in IdsOf(R) : Q.flat[i] = R.flat[i]
           /\ LastId(Q) = R.next /\ Q.flat[R.next].scope = s
           /\ \A c, u : Nameless(R, c, u) => Nameless(Q, c, u)
<1> DEFINE d == D(t, NoName, p, <<>>, 0)
<1>1. d \in Insertable /\ d.tag = t /\ d.name = NoName
  BY DescTyped, NoNameTyped, KidsTyped DEF Tags, D
<1>2. Plain(d)
  BY <1>1 DEF Plain, Holders, AtomTags, Branching, Flow, ScopedCalls, Declared
<1>3. s \in 1..R.scopes
  BY DEF TreeOK, Unsealed
<1> HIDE DEF d
<1> QED
  BY <1>1, <1>2, <1>3, PlainTree, InsertFields, InsertNameless DEF Atom, d

\* A call, an array or a field seals the scope it makes.
LEMMA CallInTree ==
    ASSUME NEW R, WellFormed(R), NEW Open, NEW Free, TreeOK(R, Open, Free),
           NEW s \in Open, NEW c \in Open,
           NEW t \in ScopedCalls \cup {"ExprField"}, t = "ExprField" => c = s,
           NEW args, args = <<>> \/ args[1] \in AtomTags, NEW p \in Nat
    PROVE  TreeOK(CallIn(R, s, c, t, args, p), Open, Free)
<1> DEFINE C == MakeChild(R, c)
           a == R.scopes + 1
           A == IF args = <<>> THEN C ELSE Atom(C, C.scopes, args[1], p)
           d == D(t, NoName, p, <<a>>, 0)
           Q == RegisterInsert(A, s, d)
<1>1. /\ s \in 1..R.scopes /\ c \in 1..R.scopes /\ R.scopes \in Nat \ {0}
      /\ 1 \in Open /\ Free \subseteq Open /\ Open \subseteq 1..R.scopes
  BY Sizes DEF TreeOK, Unsealed
<1>2. /\ WellFormed(C) /\ C.scopes = a /\ C.next = R.next /\ C.next \in Nat \ {0}
      /\ TreeOK(C, Open \cup {a}, Free \cup {a}) /\ Nameless(C, a, c)
  <2>1. C.scopes = a /\ C.next = R.next
    BY <1>1, MakeChildFields
  <2>2. WellFormed(C)
    BY <1>1, MakeChildWithin DEF Within
  <2> QED
    BY <1>1, <2>1, <2>2, MakeChildTree, Sizes
<1> HIDE DEF C
<1>3. /\ WellFormed(A) /\ A.scopes = a /\ TreeOK(A, Open \cup {a}, Free \cup {a})
      /\ Nameless(A, a, c)
  <2>1. CASE args = <<>>
    BY <1>2, <2>1
  <2>2. CASE args # <<>>
    <3> DEFINE B == Atom(C, C.scopes, args[1], p)
    <3>1. args[1] \in AtomTags /\ C.scopes \in Open \cup {a}
      BY <1>2, <2>2
    <3> HIDE DEF a
    <3> DEFINE X == Open \cup {a}
               Y == Free \cup {a}
    <3>2. /\ WellFormed(B) /\ B.scopes = C.scopes /\ TreeOK(B, X, Y)
          /\ Nameless(C, a, c) => Nameless(B, a, c)
      <4>1. WellFormed(C) /\ TreeOK(C, X, Y) /\ C.scopes \in X
        BY <1>2, <3>1
      <4> HIDE DEF X, Y, A, Q, d
      <4> QED
        BY <3>1, <4>1, AtomTree
    <3>3. A = B
      BY <2>2
    <3> HIDE DEF A, B
    <3> QED
      BY <1>2, <3>2, <3>3
  <2> QED
    BY <2>1, <2>2
<1> HIDE DEF A
<1>4. d \in Insertable /\ d.tag = t /\ d.name = NoName /\ d.kids = <<a>>
  <2>1. t \in Tags
    BY DEF Tags, OtherTags, ScopedCalls
  <2>2. a \in Nat /\ <<a>> \in Seq(Nat)
    BY <1>1, KidsTyped
  <2> HIDE DEF a
  <2>3. d \in Insertable
    BY <2>1, <2>2, DescTyped, NoNameTyped
  <2> QED
    BY <2>3 DEF D
<1> HIDE DEF d
<1>5. a \notin Open /\ s # a /\ s \in 1..A.scopes
  BY <1>1, <1>3
<1>6. /\ Q.scopes = a /\ Q.next = A.next + 1 /\ A.next \in Nat \ {0}
      /\ IdsOf(Q) = IdsOf(A) \cup {A.next}
      /\ \A i \in IdsOf(A) : i < A.next
      /\ Q.flat[A.next].tag = t /\ Q.flat[A.next].kids = <<a>> /\ Q.flat[A.next].scope = s
      /\ Nameless(Q, a, c)
  <2>1. \A i \in IdsOf(A) : i < A.next
    BY <1>3, Sizes DEF IdsOf
  <2> HIDE DEF a
  <2> QED
    BY <1>3, <1>4, <1>5, <2>1, InsertFields, InsertNameless
<1>7. a \in 1..Q.scopes
  BY <1>1, <1>6
<1> DEFINE n == A.next
<1> HIDE DEF Q, a
<1>8. Fits(Q, n)
  <2>1. \A j \in IdsOf(Q) : Q.flat[j].scope = a => j < n
    BY <1>5, <1>6
  <2>2. <<a>> # <<>> /\ <<a>>[1] = a
    OBVIOUS
  <2> QED
    BY <1>6, <1>7, <2>1, <2>2 DEF Fits, ScopedCalls, Declared
<1>9. Leads(A, d, s) /\ d.tag \notin Branching
  BY <1>4 DEF Leads, Branching, Flow, ScopedCalls
<1>10. \A u : Seals(Q, n, u) => u = a
  BY <1>6 DEF Seals, ScopedCalls, Declared
<1>11. TreeOK(Q, Open, Free)
  <2>1. \A u : Seals(Q, n, u) => u \in (Free \cup {a}) \ Open
    BY <1>5, <1>10
  <2>2. Open \subseteq Open \cup {a} /\ Free \subseteq Free \cup {a} /\ s \in Open \cup {a}
    OBVIOUS
  <2> QED
    BY <1>1, <1>3, <1>4, <1>8, <1>9, <2>1, <2>2, InsertTree DEF Q
<1> QED
  BY <1>2, <1>11 DEF CallIn, Q, d, A, C, a

\* How many operands an operator has.
LEMMA OperatorShape ==
    ASSUME NEW x \in Exprs
    PROVE  /\ Len(x.args) \in Nat
           /\ x.tag \in {"ExprUnary", "ExprAddrOf", "ExprCast"} => x.args # <<>>
           /\ x.tag \in {"ExprBinaryOp", "ExprIdx"} => x.args # <<>> /\ Len(x.args) = 2
<1>1. x \in Expr
  BY ExprsAssumption
<1>2. CASE x \in [tag : AtomTags \cup {"none"}, args : {<<>>}]
  BY <1>2 DEF AtomTags
<1>3. CASE x \in [tag : {"ExprFunctionCall", "ExprArray", "ExprTuple", "ExprStructCall"},
                  args : {<<>>} \cup {<<a>> : a \in AtomTags}]
  BY <1>3
<1>4. CASE x \in [tag : {"ExprField", "ExprUnary", "ExprAddrOf", "ExprCast"},
                  args : {<<a>> : a \in AtomTags}]
  BY <1>4
<1>5. CASE x \in [tag : {"ExprBinaryOp", "ExprIdx"}, args : {<<a, b>> : a, b \in AtomTags}]
  BY <1>5
<1> QED
  BY <1>1, <1>2, <1>3, <1>4, <1>5 DEF Expr

\* The entry of an operator, whose operands are the entries before it.
LEMMA OperatorTree ==
    ASSUME NEW R, WellFormed(R), NEW Open, NEW Free, TreeOK(R, Open, Free),
           NEW s \in Open, NEW x \in Exprs, x.tag \in Operators, NEW p \in Nat
    PROVE  TreeOK(Operator(R, s, x, p), Open, Free)
<1> DEFINE A == IF x.args = <<>> THEN R ELSE Atom(R, s, x.args[1], p)
           B == IF Len(x.args) < 2 THEN A ELSE Atom(A, s, x.args[2], p)
           d == D(x.tag, NoName, p, <<>>, 0)
           Q == RegisterInsert(B, s, d)
<1>1. /\ x.tag \in Tags
      /\ x.args = <<>> \/ x.args[1] \in AtomTags
      /\ Len(x.args) < 2 \/ x.args[2] \in AtomTags
  BY OperatorShape, ExprShape DEF Operators
<1>2. /\ 1 \in Open /\ Free \subseteq Open /\ Open \subseteq 1..R.scopes /\ R.next \in Nat \ {0}
  BY Sizes DEF TreeOK, Unsealed
<1>3. /\ WellFormed(A) /\ TreeOK(A, Open, Free) /\ A.scopes = R.scopes
      /\ x.args # <<>> => A.next = R.next + 1 /\ A.flat[R.next].scope = s
  BY <1>1, AtomTree
<1>4. A.next \in Nat \ {0} /\ IdsOf(A) = 1..(A.next - 1)
  BY <1>3, Sizes DEF IdsOf
<1> HIDE DEF A
<1>5. /\ WellFormed(B) /\ TreeOK(B, Open, Free) /\ B.scopes = R.scopes
      /\ \A i \in IdsOf(A) : B.flat[i] = A.flat[i]
      /\ Len(x.args) < 2 => B = A
      /\ ~(Len(x.args) < 2) => B.next = A.next + 1 /\ B.flat[A.next].scope = s
  BY <1>1, <1>3, AtomTree
<1>6. B.next \in Nat \ {0} /\ IdsOf(B) = 1..(B.next - 1)
  BY <1>5, Sizes DEF IdsOf
<1> HIDE DEF B
<1>7. d \in Insertable /\ d.tag = x.tag /\ d.kids = <<>> /\ d.name = NoName
  BY <1>1, DescTyped, NoNameTyped, KidsTyped DEF D
<1> HIDE DEF d
<1>8. /\ Q.flat[B.next].tag = x.tag /\ Q.flat[B.next].kids = <<>> /\ Q.flat[B.next].scope = s
      /\ \A i \in IdsOf(B) : Q.flat[i] = B.flat[i]
  <2>1. s \in 1..B.scopes
    BY <1>2, <1>5
  <2> QED
    BY <1>5, <1>7, <2>1, InsertFields
<1> DEFINE n == B.next
<1> HIDE DEF Q
<1>9. x.tag \in {"ExprUnary", "ExprAddrOf", "ExprCast", "ExprBinaryOp", "ExprIdx"} =>
          n - 1 \in 1..(n - 1) /\ Q.flat[n - 1].scope = s
  <2> SUFFICES ASSUME x.args # <<>> PROVE n - 1 \in 1..(n - 1) /\ Q.flat[n - 1].scope = s
    BY OperatorShape
  <2>1. CASE Len(x.args) < 2
    <3>1. B.next = R.next + 1 /\ B.flat[R.next].scope = s
      BY <1>3, <1>5, <2>1
    <3>2. n - 1 = R.next /\ R.next \in IdsOf(B) /\ n - 1 \in 1..(n - 1)
      BY <1>2, <1>6, <3>1
    <3> QED
      BY <1>8, <3>1, <3>2
  <2>2. CASE ~(Len(x.args) < 2)
    <3>1. B.next = A.next + 1 /\ B.flat[A.next].scope = s
      BY <1>5, <2>2
    <3>2. n - 1 = A.next /\ A.next \in IdsOf(B) /\ n - 1 \in 1..(n - 1)
      BY <1>4, <1>6, <3>1
    <3> QED
      BY <1>8, <3>1, <3>2
  <2> QED
    BY <2>1, <2>2
<1>10. x.tag \in {"ExprBinaryOp", "ExprIdx"} =>
           n - 2 \in 1..(n - 1) /\ Q.flat[n - 2].scope = s
  <2> SUFFICES ASSUME x.args # <<>>, Len(x.args) = 2
               PROVE  n - 2 \in 1..(n - 1) /\ Q.flat[n - 2].scope = s
    BY OperatorShape
  <2>1. B.next = A.next + 1 /\ A.next = R.next + 1 /\ A.flat[R.next].scope = s
    BY <1>3, <1>5
  <2>2. n - 2 = R.next /\ R.next \in IdsOf(A) /\ R.next \in IdsOf(B) /\ n - 2 \in 1..(n - 1)
    BY <1>2, <1>4, <1>6, <2>1
  <2> QED
    BY <1>5, <1>8, <2>1, <2>2
<1>11. Fits(Q, n)
  BY <1>8, <1>9, <1>10 DEF Fits, Operators, ScopedCalls, Declared
<1>12. \A t : ~Seals(Q, n, t)
  BY <1>8 DEF Seals, Operators, ScopedCalls, Declared
<1>13. d.tag \notin Branching
  BY <1>7 DEF Branching, Flow, Operators
<1>14. TreeOK(Q, Open, Free)
  BY <1>2, <1>5, <1>7, <1>11, <1>12, <1>13, InsertTree DEF Q, Leads
<1> QED
  BY <1>14 DEF Operator, Q, d, B, A

\* register_expr keeps the shape, whatever the expression is.
LEMMA ExprTree ==
    ASSUME NEW R, WellFormed(R), NEW Open, NEW Free, TreeOK(R, Open, Free),
           NEW s \in Open, NEW x \in Exprs, NEW p \in Nat
    PROVE  TreeOK(RegisterExpr(R, s, x, p), Open, Free)
<1>1. CASE x.tag \in AtomTags
  <2>1. RegisterExpr(R, s, x, p) = Atom(R, s, x.tag, p)
    BY <1>1 DEF RegisterExpr, AtomTags, Operators
  <2> QED
    BY <1>1, <2>1, AtomTree
<1>2. CASE x.tag \in {"ExprFunctionCall", "ExprField"}
  <2>1. x.tag \in ScopedCalls \cup {"ExprField"} /\ (x.args = <<>> \/ x.args[1] \in AtomTags)
    BY <1>2, ExprShape DEF ScopedCalls
  <2>2. RegisterExpr(R, s, x, p) = CallIn(R, s, s, x.tag, x.args, p)
    BY <1>2 DEF RegisterExpr, AtomTags, Operators
  <2> QED
    BY <2>1, <2>2, CallInTree
<1>3. CASE x.tag \in Operators
  BY <1>3, OperatorTree DEF RegisterExpr, AtomTags, Operators
<1>4. CASE x.tag \notin AtomTags \cup {"ExprFunctionCall", "ExprField"} \cup Operators
  BY <1>4 DEF RegisterExpr
<1> QED
  BY <1>1, <1>2, <1>3, <1>4

\* The five entries of a pattern hold what is before them in the same scope.
LEMMA BindingsTree ==
    ASSUME NEW R, WellFormed(R), NEW Open, NEW Free, TreeOK(R, Open, Free),
           NEW s \in Open, Rooted(R, s), NEW pat \in Patterns, NEW p \in Nat
    PROVE  TreeOK(Bindings(R, s, pat, p), Open, Free)
<1> DEFINE t == D(BindTag(pat), NoName, p, <<s>>, LastId(R))
           T == RegisterInsert(R, s, t)
           v == D("Var", InnerBind(pat), p, <<s>>, LastId(T))
           V == RegisterInsert(T, s, v)
           f == D("ExprField", NoName, p, <<>>, LastId(T))
           F == RegisterInsert(V, s, f)
           G == Atom(F, s, "ExprIdentifier", p)
           o == D("ExprBinaryOp", NoName, p, <<>>, 0)
           Q == RegisterInsert(G, s, o)
<1> USE DEF Declared
<1>1. /\ s \in 1..R.scopes /\ s \in Nat /\ InnerBind(pat) \in NameOpt
      /\ 1 \in Open /\ Free \subseteq Open
  BY Sizes DEF Patterns, InnerBind, NameOpt, TreeOK, Unsealed
<1>2. LastId(R) \in 1..(R.next - 1) /\ R.flat[LastId(R)].scope = s /\ R.next \in Nat \ {0}
  BY Sizes DEF Rooted, IdsOf
<1>3. t \in Insertable /\ t.tag \in {"Var", "Let"} /\ t.expr = LastId(R)
  <2>1. BindTag(pat) \in Tags /\ BindTag(pat) \in {"Var", "Let"}
    BY DEF BindTag, Tags, StmtTags
  <2> QED
    BY <2>1, <1>1, DescTyped, NoNameTyped, KidsTyped, ExprIdTyped DEF D
<1> HIDE DEF t
<1>4. /\ WellFormed(T) /\ T.scopes = R.scopes /\ LastId(T) = R.next /\ T.next = R.next + 1
      /\ T.flat[R.next].tag = t.tag /\ T.flat[R.next].expr = LastId(R) /\ T.flat[R.next].scope = s
      /\ T.flat[LastId(R)] = R.flat[LastId(R)]
  BY <1>1, <1>2, <1>3, InsertFields DEF IdsOf
<1>5. Fits(T, R.next) /\ \A u : ~Seals(T, R.next, u)
  <2> HIDE DEF T
  <2> QED
    BY <1>2, <1>3, <1>4 DEF Fits, Seals, ScopedCalls
<1>6. t.tag \notin Branching /\ Leads(R, t, s)
  BY <1>3 DEF Branching, Flow, Leads
<1>7. TreeOK(T, Open, Free)
  BY <1>1, <1>3, <1>5, <1>6, InsertTree
<1> HIDE DEF T
<1>8. v \in Insertable /\ v.tag = "Var" /\ v.expr = R.next
  <2>1. R.next \in Nat
    BY <1>2
  <2> QED
    BY <2>1, <1>1, <1>4, DescTyped, KidsTyped DEF Tags, StmtTags, D
<1> HIDE DEF v
<1>9. /\ WellFormed(V) /\ V.scopes = R.scopes /\ V.next = T.next + 1
      /\ V.flat[T.next].tag = "Var" /\ V.flat[T.next].expr = R.next /\ V.flat[T.next].scope = s
      /\ V.flat[R.next] = T.flat[R.next]
  BY <1>1, <1>2, <1>4, <1>8, InsertFields, SMTT(30) DEF IdsOf
<1>10. Fits(V, T.next) /\ \A u : ~Seals(V, T.next, u)
  <2> HIDE DEF V
  <2>1. R.next \in 1..(T.next - 1) /\ R.next # 0
    BY <1>2, <1>4
  <2> QED
    BY <1>4, <1>9, <2>1 DEF Fits, Seals, ScopedCalls
<1>11. v.tag \notin Branching /\ Leads(T, v, s)
  BY <1>8 DEF Branching, Flow, Leads
<1>12. TreeOK(V, Open, Free)
  BY <1>1, <1>4, <1>7, <1>8, <1>10, <1>11, InsertTree
<1> HIDE DEF V
<1>13. f \in Insertable /\ f.tag = "ExprField" /\ f.kids = <<>> /\ f.expr = R.next
  <2>1. R.next \in Nat
    BY <1>2
  <2>2. f \in Insertable
    BY <2>1, <1>4, DescTyped, NoNameTyped, KidsTyped DEF Tags, OtherTags
  <2> QED
    BY <1>4, <2>2 DEF D
<1> HIDE DEF f
<1>14. /\ WellFormed(F) /\ F.scopes = R.scopes /\ F.next = V.next + 1
       /\ F.flat[V.next].tag = "ExprField" /\ F.flat[V.next].kids = <<>>
       /\ F.flat[V.next].expr = R.next /\ F.flat[V.next].scope = s
       /\ F.flat[R.next] = V.flat[R.next]
  <2>1. V.next \in Nat \ {0} /\ R.next \in IdsOf(V) /\ s \in 1..V.scopes
    BY <1>1, <1>2, <1>4, <1>9 DEF IdsOf
  <2> QED
    BY <1>9, <1>13, <2>1, InsertFields, SMTT(30)
<1>15. Fits(F, V.next) /\ \A u : ~Seals(F, V.next, u)
  <2> HIDE DEF F
  <2>1. R.next \in 1..(V.next - 1)
    BY <1>2, <1>4, <1>9
  <2> QED
    BY <1>4, <1>9, <1>14, <2>1 DEF Fits, Seals, ScopedCalls
<1>16. f.tag \notin Branching /\ Leads(V, f, s)
  BY <1>13 DEF Branching, Flow, Leads
<1>17. TreeOK(F, Open, Free)
  BY <1>1, <1>9, <1>12, <1>13, <1>15, <1>16, InsertTree
<1>18. F.next \in Nat \ {0} /\ V.next \in 1..(F.next - 1) /\ V.next = F.next - 1
  BY <1>2, <1>4, <1>9, <1>14
<1> HIDE DEF F
<1>19. /\ WellFormed(G) /\ TreeOK(G, Open, Free) /\ G.scopes = R.scopes /\ G.next = F.next + 1
       /\ G.flat[F.next].scope = s /\ G.flat[V.next] = F.flat[V.next]
  <2>1. V.next \in IdsOf(F) /\ "ExprIdentifier" \in AtomTags
    BY <1>18 DEF AtomTags, IdsOf
  <2> QED
    BY <1>14, <1>17, <2>1, AtomTree
<1> HIDE DEF G
<1>20. o \in Insertable /\ o.tag = "ExprBinaryOp" /\ o.kids = <<>>
  BY DescTyped, NoNameTyped, KidsTyped DEF Tags, OtherTags, D
<1> HIDE DEF o
<1>21. /\ Q.flat[G.next].tag = "ExprBinaryOp" /\ Q.flat[G.next].scope = s
       /\ Q.flat[F.next] = G.flat[F.next] /\ Q.flat[V.next] = G.flat[V.next]
  <2>1. F.next \in IdsOf(G) /\ V.next \in IdsOf(G) /\ s \in 1..G.scopes
    BY <1>1, <1>18, <1>19 DEF IdsOf
  <2> QED
    BY <1>19, <1>20, <2>1, InsertFields
<1>22. Fits(Q, G.next) /\ \A u : ~Seals(Q, G.next, u)
  <2> HIDE DEF Q
  <2>1. /\ G.next - 1 = F.next /\ G.next - 2 = V.next
        /\ F.next \in 1..(G.next - 1) /\ V.next \in 1..(G.next - 1)
    BY <1>18, <1>19
  <2> QED
    BY <1>14, <1>19, <1>21, <2>1 DEF Fits, Seals, ScopedCalls
<1>23. o.tag \notin Branching /\ Leads(G, o, s)
  BY <1>20 DEF Branching, Flow, Leads
<1>24. TreeOK(Q, Open, Free)
  BY <1>1, <1>19, <1>20, <1>22, <1>23, InsertTree
<1> QED
  BY <1>24 DEF Bindings, Q, t, T, v, V, f, F, G, o

\* register_pattern_condition keeps the shape.
LEMMA PatternTree ==
    ASSUME NEW R, WellFormed(R), NEW Open, NEW Free, TreeOK(R, Open, Free),
           NEW s \in Open, NEW x \in Exprs, NEW pat \in Patterns, NEW p \in Nat
    PROVE  TreeOK(RegisterPatternCondition(R, s, x, pat, p), Open, Free)
<1> DEFINE C == RegisterExpr(R, s, x, p)
<1>1. s \in 1..R.scopes
  BY DEF TreeOK, Unsealed
<1>2. TreeOK(C, Open, Free)
  BY ExprTree
<1>3. WellFormed(C) /\ (x.tag = "ExprFunctionCall" => Rooted(C, s))
  BY <1>1, ExprBrings, BringsFacts DEF IsNull
<1> HIDE DEF C
<1>4. x.tag = "ExprFunctionCall" => TreeOK(Bindings(C, s, pat, p), Open, Free)
  BY <1>2, <1>3, BindingsTree
<1> QED
  BY <1>2, <1>4 DEF RegisterPatternCondition, C

-----------------------------------------------------------------------------
(* The handlers in progress.                                               *)

\* A frame that is pushed opens its scopes and claims those of its entry.
LEMMA PushScopes ==
    ASSUME NEW R, NEW st \in Seq(FrameType), NEW f \in FrameType
    PROVE  LET new == Append(st, f) IN
           /\ Opened(new) = Opened(st) \cup Around(f)
           /\ Claimed(new) = Claimed(st) \cup Claims(f)
           /\ Apart(R, new) <=> /\ Apart(R, st)
                                /\ f.entry.tag \in Held /\ Leads(R, f.entry, f.reg)
                                /\ Claims(f) \cap Claimed(st) = {}
<1> DEFINE new == Append(st, f)
           n == Len(st) + 1
<1>1. /\ \A k \in DOMAIN st : new[k] = st[k] /\ k # n
      /\ new[n] = f /\ DOMAIN new = DOMAIN st \cup {n}
  BY AppendFacts
<1> HIDE DEF new, n
<1>2. Opened(new) = Opened(st) \cup Around(f)
  <2>1. UNION {Around(new[k]) : k \in DOMAIN new}
            = (UNION {Around(st[k]) : k \in DOMAIN st}) \cup Around(f)
    BY <1>1
  <2> QED
    BY <2>1 DEF Opened
<1>3. Claimed(new) = Claimed(st) \cup Claims(f)
  BY <1>1 DEF Claimed
<1>4. ASSUME Apart(R, new)
      PROVE  /\ Apart(R, st) /\ f.entry.tag \in Held /\ Leads(R, f.entry, f.reg)
             /\ Claims(f) \cap Claimed(st) = {}
  <2>1. Apart(R, st) /\ f.entry.tag \in Held /\ Leads(R, f.entry, f.reg)
    BY <1>1, <1>4 DEF Apart
  <2>2. \A k \in DOMAIN st : Claims(f) \cap Claims(st[k]) = {}
    BY <1>1, <1>4 DEF Apart
  <2> QED
    BY <2>1, <2>2 DEF Claimed
<1>5. ASSUME Apart(R, st), f.entry.tag \in Held, Leads(R, f.entry, f.reg),
             Claims(f) \cap Claimed(st) = {}
      PROVE  Apart(R, new)
  <2>1. \A k \in DOMAIN st : Claims(f) \cap Claims(st[k]) = {}
    BY <1>5 DEF Claimed
  <2>2. \A k \in DOMAIN new : new[k].entry.tag \in Held /\ Leads(R, new[k].entry, new[k].reg)
    BY <1>1, <1>5 DEF Apart
  <2>3. ASSUME NEW j \in DOMAIN new, NEW k \in DOMAIN new, j # k
        PROVE  Claims(new[j]) \cap Claims(new[k]) = {}
    <3>1. CASE j \in DOMAIN st /\ k \in DOMAIN st
      BY <1>1, <1>5, <2>3, <3>1 DEF Apart
    <3>2. CASE j = n /\ k \in DOMAIN st
      BY <1>1, <2>1, <3>2
    <3>3. CASE k = n /\ j \in DOMAIN st
      BY <1>1, <2>1, <3>3
    <3> QED
      BY <1>1, <2>3, <3>1, <3>2, <3>3
  <2> QED
    BY <2>2, <2>3 DEF Apart
<1> QED
  BY <1>2, <1>3, <1>4, <1>5 DEF new

\* The last of m indices is not among the first m - 1.
LEMMA OneMore == \A m \in Nat \ {0} : m \in 1..m /\ m \notin 1..(m - 1)
OBVIOUS

\* The stack is what is below the top, and the top.
LEMMA TopPushed ==
    ASSUME NEW st \in Seq(FrameType), st # <<>>
    PROVE  LET below == SubSeq(st, 1, Len(st) - 1) IN
           /\ below \in Seq(FrameType) /\ st[Len(st)] \in FrameType
           /\ st = Append(below, st[Len(st)])
           /\ \A f \in FrameType : [st EXCEPT ![Len(st)] = f] = Append(below, f)
<1> DEFINE below == SubSeq(st, 1, Len(st) - 1)
           n == Len(st)
<1>1. /\ n \in Nat \ {0} /\ Len(below) = n - 1
      /\ \A k \in 1..(n - 1) : below[k] = st[k] /\ k \in 1..n
      /\ DOMAIN st = 1..n
      /\ \A k \in 1..n : k \in 1..(n - 1) \/ k = n
  BY PopFacts, SMTT(30)
<1>2. st[n] \in FrameType /\ \A k \in 1..(n - 1) : st[k] \in FrameType
  <2>1. n \in 1..n
    BY <1>1, OneMore
  <2> QED
    BY <1>1, <2>1, ElementOfSeq, ZenonT(30)
<1>3. below \in Seq(FrameType)
  <2> HIDE DEF n
  <2>1. 1 \in Int /\ n - 1 \in Int
    BY <1>1
  <2> QED
    BY <1>2, <2>1, SubSeqProperties DEF n
<1> HIDE DEF below
<1>4. ASSUME NEW f \in FrameType, NEW new \in Seq(FrameType), Len(new) = n,
             \A k \in 1..n : new[k] = IF k = n THEN f ELSE st[k]
      PROVE  new = Append(below, f)
  <2> DEFINE a == Append(below, f)
  <2> HIDE DEF n
  <2>1. /\ a \in Seq(FrameType) /\ Len(a) = n /\ a[n] = f
        /\ \A k \in 1..(n - 1) : a[k] = below[k]
    <3>1. /\ a \in Seq(FrameType) /\ Len(a) = Len(below) + 1 /\ a[Len(below) + 1] = f
          /\ \A k \in 1..Len(below) : a[k] = below[k]
      BY <1>3, AppendProperties
    <3>2. Len(below) = n - 1 /\ n - 1 + 1 = n
      BY <1>1
    <3> HIDE DEF a
    <3> QED
      BY <3>1, <3>2
  <2>2. n \notin 1..(n - 1)
    BY <1>1, OneMore
  <2> HIDE DEF a
  <2>3. DOMAIN new = 1..n /\ DOMAIN a = 1..n
    BY <1>4, <2>1
  <2>4. \A k \in 1..n : new[k] = a[k]
    BY <1>1, <1>4, <2>1, <2>2
  <2>5. new = [k \in DOMAIN new |-> new[k]] /\ a = [k \in DOMAIN a |-> a[k]]
    BY <1>4, <2>1
  <2>6. new = a
    BY <2>3, <2>4, <2>5
  <2> QED
    BY <2>6 DEF a
<1>5. st = Append(below, st[n])
  BY <1>1, <1>2, <1>4
<1>6. ASSUME NEW f \in FrameType PROVE [st EXCEPT ![Len(st)] = f] = Append(below, f)
  <2> DEFINE new == [st EXCEPT ![Len(st)] = f]
  <2>1. /\ new \in Seq(FrameType) /\ Len(new) = n
        /\ \A k \in 1..n : new[k] = IF k = n THEN f ELSE st[k]
    BY SetFacts
  <2> HIDE DEF new, n, below
  <2>2. new = Append(below, f)
    BY <1>4, <2>1
  <2> QED
    BY <2>2 DEF new
<1> QED
  BY <1>2, <1>3, <1>5, <1>6 DEF below

\* The claims of the handlers in progress outlive a growing register.
LEMMA ApartGrows ==
    ASSUME NEW R, WellFormed(R), NEW Q, Grows(Q, R), NEW st \in Seq(FrameType), Apart(R, st)
    PROVE  Apart(Q, st)
<1>1. R.scopes \in Nat /\ Q.scopes \in Nat /\ Q.scopes >= R.scopes
  BY GrowsSizes
<1>2. \A k \in DOMAIN st : st[k].reg \in Nat
  <2>1. \A k \in DOMAIN st : st[k] \in FrameType
    OBVIOUS
  <2> QED
    BY <2>1 DEF FrameType
<1>3. \A k \in DOMAIN st : Leads(Q, st[k].entry, st[k].reg)
  BY <1>1, <1>2, LeadsGrows DEF Apart
<1> QED
  BY <1>3 DEF Apart

\* The register and the stack fit together.
Scoped(R, st) == TreeOK(R, Opened(st), Claimed(st)) /\ Apart(R, st)

\* The global scope is open, and what is claimed is open.
LEMMA ClaimedOpened == ASSUME NEW st PROVE 1 \in Opened(st) /\ Claimed(st) \subseteq Opened(st)
<1>1. \A k \in DOMAIN st : Claims(st[k]) \subseteq Around(st[k])
  BY DEF Claims, Around
<1> QED
  BY <1>1 DEF Opened, Claimed

\* A handler returns: fewer scopes are open and claimed.
LEMMA ScopedLess ==
    ASSUME NEW R, NEW st, Apart(R, st), NEW X, NEW Y, TreeOK(R, X, Y),
           Opened(st) \subseteq X, Claimed(st) \subseteq Y
    PROVE  Scoped(R, st)
<1>1. 1 \in Opened(st) /\ Claimed(st) \subseteq Opened(st)
  BY ClaimedOpened
<1> DEFINE A == Opened(st)
           B == Claimed(st)
<1>2. 1 \in A /\ B \subseteq A /\ A \subseteq X /\ B \subseteq Y
  BY <1>1
<1> HIDE DEF A, B
<1>3. TreeOK(R, A, B)
  BY <1>2, TreeLess
<1> QED
  BY <1>3 DEF Scoped, A, B

\* A handler is called.
LEMMA ScopedPush ==
    ASSUME NEW R, NEW st \in Seq(FrameType), Apart(R, st), NEW f \in FrameType,
           f.entry.tag \in Held, Leads(R, f.entry, f.reg), Claims(f) \cap Claimed(st) = {},
           NEW X, NEW Y, TreeOK(R, X, Y),
           Opened(st) \subseteq X, Claimed(st) \subseteq Y,
           Around(f) \subseteq X, Claims(f) \subseteq Y
    PROVE  Scoped(R, Append(st, f))
<1> DEFINE new == Append(st, f)
<1>1. /\ Opened(new) = Opened(st) \cup Around(f) /\ Claimed(new) = Claimed(st) \cup Claims(f)
      /\ Apart(R, new)
  BY PushScopes
<1> HIDE DEF new
<1>2. Scoped(R, new)
  BY <1>1, ScopedLess
<1> QED
  BY <1>2 DEF new

\* What is known before a step, and what it must show.
Scoping == Good /\ Scoped(reg, stack)

\* What the invariant of the walk says of the top frame.
LEMMA ScopingFacts ==
    ASSUME Scoping
    PROVE  /\ WellFormed(reg) /\ stack \in Seq(FrameType) /\ Apart(reg, stack)
           /\ reg.scopes \in Nat \ {0}
           /\ TreeOK(reg, Opened(stack), Claimed(stack))
           /\ 1 \in Opened(stack) /\ Claimed(stack) \subseteq Opened(stack)
           /\ Opened(stack) \subseteq 1..reg.scopes
BY Sizes, ClaimedOpened DEF Scoping, Good, StackGood, Scoped, TreeOK, Unsealed

\* The scopes of the top frame are open, and the rest of the stack is as before.
LEMMA TopScoped ==
    ASSUME Scoping, stack # <<>>
    PROVE  /\ Pop \in Seq(FrameType) /\ Top \in FrameType /\ Apart(reg, Pop)
           /\ Opened(stack) = Opened(Pop) \cup Around(Top)
           /\ Claimed(stack) = Claimed(Pop) \cup Claims(Top)
           /\ Claims(Top) \cap Claimed(Pop) = {}
           /\ Top.entry.tag \in Held /\ Leads(reg, Top.entry, Top.reg)
           /\ Top.scope \in Opened(stack) /\ Top.reg \in Opened(stack)
           /\ KidsOf(Top.entry) \subseteq Opened(stack)
           /\ \A f \in FrameType : SetTop(f) = Append(Pop, f)
<1>1. stack \in Seq(FrameType) /\ Apart(reg, stack)
  BY ScopingFacts
<1>2. /\ Pop \in Seq(FrameType) /\ Top \in FrameType /\ stack = Append(Pop, Top)
      /\ \A f \in FrameType : SetTop(f) = Append(Pop, f)
  BY <1>1, TopPushed DEF Pop, Top, SetTop
<1>3. /\ Apart(reg, Pop) /\ Top.entry.tag \in Held /\ Leads(reg, Top.entry, Top.reg)
      /\ Opened(stack) = Opened(Pop) \cup Around(Top)
      /\ Claimed(stack) = Claimed(Pop) \cup Claims(Top)
      /\ Claims(Top) \cap Claimed(Pop) = {}
  <2> DEFINE b == Pop
             f == Top
  <2>1. b \in Seq(FrameType) /\ f \in FrameType /\ stack = Append(b, f)
    BY <1>2
  <2> HIDE DEF b, f
  <2>2. /\ Apart(reg, b) /\ f.entry.tag \in Held /\ Leads(reg, f.entry, f.reg)
        /\ Opened(stack) = Opened(b) \cup Around(f)
        /\ Claimed(stack) = Claimed(b) \cup Claims(f)
        /\ Claims(f) \cap Claimed(b) = {}
    BY <1>1, <2>1, PushScopes
  <2> QED
    BY <2>2 DEF b, f
<1> QED
  BY <1>2, <1>3 DEF Around

\* A step that leaves the stack alone.
LEMMA LeafScoped ==
    ASSUME Scoping, stack' = stack, Kept, TreeOK(reg', Opened(stack), Claimed(stack))
    PROVE  Scoped(reg', stack')
BY ScopingFacts, ApartGrows DEF Scoped, Kept

\* A step that pushes a frame.
LEMMA PushScoped ==
    ASSUME Scoping, Kept, NEW f \in FrameType, stack' = Append(stack, f),
           f.entry.tag \in Held, Leads(reg', f.entry, f.reg),
           Claims(f) \cap Claimed(stack) = {},
           NEW X, NEW Y, TreeOK(reg', X, Y),
           Opened(stack) \cup Around(f) \subseteq X, Claimed(stack) \cup Claims(f) \subseteq Y
    PROVE  Scoped(reg', stack')
<1>1. stack \in Seq(FrameType) /\ Apart(reg', stack)
  BY ScopingFacts, ApartGrows DEF Kept
<1> QED
  BY <1>1, ScopedPush

\* A step that replaces the top frame.
LEMMA SetScoped ==
    ASSUME Scoping, Kept, stack # <<>>, NEW f \in FrameType, stack' = SetTop(f),
           f.entry.tag \in Held, Leads(reg', f.entry, f.reg),
           Claims(f) \cap Claimed(Pop) = {},
           NEW X, NEW Y, TreeOK(reg', X, Y),
           Opened(Pop) \cup Around(f) \subseteq X, Claimed(Pop) \cup Claims(f) \subseteq Y
    PROVE  Scoped(reg', stack')
<1>1. Pop \in Seq(FrameType) /\ Apart(reg', Pop) /\ stack' = Append(Pop, f)
  BY TopScoped, ScopingFacts, ApartGrows DEF Kept
<1> QED
  BY <1>1, ScopedPush

\* A step that pops a frame.
LEMMA PopScoped ==
    ASSUME Scoping, Kept, stack # <<>>, stack' = Pop,
           NEW X, NEW Y, TreeOK(reg', X, Y), Opened(Pop) \subseteq X, Claimed(Pop) \subseteq Y
    PROVE  Scoped(reg', stack')
<1>1. Pop \in Seq(FrameType) /\ Apart(reg', Pop)
  BY TopScoped, ScopingFacts, ApartGrows DEF Kept
<1> QED
  BY <1>1, ScopedLess

-----------------------------------------------------------------------------
(* One lemma per action.                                                   *)

\* Expressions declare nothing.
LEMMA BringsNameless ==
    ASSUME NEW R, WellFormed(R), NEW Q, NEW s, NEW p, Brings(Q, R, s, p, {}),
           NEW c, NEW u, Nameless(R, c, u)
    PROVE  Nameless(Q, c, u)
<1>1. /\ WellFormed(Q) /\ Follows(Q, R) /\ RegisterOK(Q) /\ RegisterOK(R) /\ NamesOK(Q)
      /\ NamesOK(R) /\ 1..R.scopes \subseteq 1..Q.scopes
  BY BringsFacts DEF Within, WellFormed
<1>2. c \in 1..R.scopes /\ Q.parent[c] = u /\ \A n \in Name : R.names[c][n] = 0
  BY <1>1 DEF Nameless, Follows
<1>3. ASSUME NEW n \in Name, Q.names[c][n] # 0 PROVE FALSE
  <2> DEFINE i == Q.names[c][n]
  <2>1. i \in IdsOf(Q) /\ Q.flat[i].scope = c /\ Q.flat[i].name = n
    <3>1. c \in 1..Q.scopes /\ i \in 0..(Q.next - 1) /\ Q.next \in Nat /\ i # 0
      BY <1>1, <1>2, <1>3, SMTT(30) DEF RegisterOK
    <3>2. Q.flat[i].scope = c /\ Q.flat[i].name = n
      BY <1>1, <1>3, <3>1 DEF NamesOK
    <3> HIDE DEF i
    <3> QED
      BY <3>1, <3>2 DEF IdsOf
  <2> HIDE DEF i
  <2>2. i \in IdsOf(R)
    BY <2>1, NoNameAssumption DEF Brings, New, Either
  <2>3. R.flat[i] = Q.flat[i]
    BY <1>1, <2>2, SMTT(30) DEF Follows
  <2>4. R.names[c][n] \in 1..i
    BY <1>1, <2>1, <2>2, <2>3 DEF NamesOK
  <2> QED
    BY <1>2, <2>4
<1> QED
  BY <1>1, <1>2, <1>3 DEF Nameless

\* A declaration, with its initialiser in its own child c or in place.
LEMMA DeclaredTree ==
    ASSUME NEW R, WellFormed(R), NEW Open, NEW Free, NEW c,
           TreeOK(R, Open \cup {c}, Free \cup {c}), c \notin Open, 1 \in Open, Free \subseteq Open,
           NEW s \in Open, NEW d \in Insertable, d.tag \in Declared,
           d.expr # 0 => /\ d.expr \in IdsOf(R)
                         /\ \/ R.flat[d.expr].scope = s
                            \/ R.flat[d.expr].scope = c /\ Nameless(R, c, s)
    PROVE  TreeOK(RegisterInsert(R, s, d), Open, Free)
<1> DEFINE Q == RegisterInsert(R, s, d)
           n == R.next
           X == Open \cup {c}
           Y == Free \cup {c}
<1>1. /\ s \in X /\ s # c /\ TreeOK(R, X, Y) /\ Open \subseteq X /\ Free \subseteq Y
      /\ c \in Y \ Open
  OBVIOUS
<1> HIDE DEF X, Y
<1>2. s \in 1..R.scopes
  BY <1>1 DEF TreeOK, Unsealed
<1>3. /\ Q.flat[n].tag = d.tag /\ Q.flat[n].scope = s /\ Q.flat[n].expr = d.expr
      /\ \A i \in IdsOf(R) : Q.flat[i] = R.flat[i]
      /\ \A i \in IdsOf(R) : i \in 1..(n - 1)
  BY <1>2, InsertFields DEF IdsOf
<1>4. Nameless(R, c, s) => Nameless(Q, c, s)
  <2>1. OwnerFn(R, s) \in 0..(R.next - 1) /\ Q = Store(R, s, d, OwnerFn(R, s))
    BY <1>2, OwnerFnTyped DEF RegisterInsert
  <2>2. /\ Q.scopes = R.scopes /\ Q.parent = R.parent
        /\ \A t \in 1..R.scopes, m \in Name :
             Q.names[t][m] = IF t = s /\ m = d.name /\ R.names[t][m] = 0
                             THEN R.next ELSE R.names[t][m]
    BY <1>2, <2>1, StoreFields DEF WellFormed
  <2> HIDE DEF Q
  <2> QED
    BY <1>1, <2>2 DEF Nameless
<1> HIDE DEF Q
<1>5. Fits(Q, n)
  BY <1>3, <1>4 DEF Fits, Declared, ScopedCalls
<1>6. \A t : Seals(Q, n, t) => t = c
  BY <1>3 DEF Seals, Declared, ScopedCalls
<1>7. Leads(R, d, s) /\ d.tag \notin Branching
  BY DEF Leads, Branching, Flow, Declared
<1> HIDE DEF n
<1>8. TreeOK(Q, Open, Free)
  BY <1>1, <1>5, <1>6, <1>7, InsertTree DEF Q, n
<1> QED
  BY <1>8 DEF Q

\* What the guard of a statement gives.
LEMMA StmtScopes ==
    ASSUME Scoping, NEW t, Stmt(t)
    PROVE  /\ stack # <<>> /\ Here \in Opened(stack) /\ Here \in 1..reg.scopes /\ Here \in Nat
           /\ Pos \in Nat /\ WellFormed(reg) /\ t \in Tags /\ reg.scopes \in Nat \ {0}
           /\ TreeOK(reg, Opened(stack), Claimed(stack))
           /\ Brings(reg, reg, Here, Pos, {})
<1>1. /\ stack # <<>> /\ Here \in 1..reg.scopes /\ Pos \in Nat /\ WellFormed(reg) /\ t \in Tags
  BY StmtFacts DEF Scoping
<1>2. Here \in Opened(stack)
  BY <1>1, TopScoped DEF Here
<1> QED
  BY <1>1, <1>2, ScopingFacts, BringsNothing, Sizes

\* register_struct.
LEMMA StructScopes ==
    ASSUME Scoping, NEW n \in Name, RegisterStruct(n) PROVE Scoped(reg', stack')
<1> DEFINE d == D("Struct", n, Pos, <<>>, 0)
<1>1. Stmt("Struct") /\ stack' = stack /\ reg' = RegisterInsert(reg, Here, d)
  BY DEF RegisterStruct
<1>2. /\ Pos \in Nat /\ Here \in Opened(stack) /\ WellFormed(reg)
      /\ TreeOK(reg, Opened(stack), Claimed(stack))
  BY <1>1, StmtScopes
<1>3. d \in Insertable /\ Plain(d)
  BY <1>2, DescTyped, KidsTyped
     DEF Tags, StmtTags, NameOpt, D, Plain, Holders, Branching, Flow, ScopedCalls, Declared
<1> HIDE DEF d
<1>4. TreeOK(reg', Opened(stack), Claimed(stack))
  BY <1>1, <1>2, <1>3, PlainTree
<1> QED
  BY <1>1, <1>4, LeafScoped, StructKept DEF Scoping

\* The child of a declaration, open for its initialiser only.
LEMMA ChildScopes ==
    ASSUME NEW R, WellFormed(R), NEW Open, NEW Free, TreeOK(R, Open, Free), NEW s \in Open
    PROVE  LET C == MakeChild(R, s) IN
           /\ WellFormed(C) /\ C.scopes = R.scopes + 1 /\ C.scopes \in Nat
           /\ C.scopes \in 1..C.scopes /\ C.scopes \notin Open /\ s \in 1..C.scopes
           /\ TreeOK(C, Open \cup {C.scopes}, Free \cup {C.scopes}) /\ Nameless(C, C.scopes, s)
           /\ 1 \in Open /\ Free \subseteq Open /\ Open \subseteq 1..R.scopes
           /\ \A p, T : Brings(C, R, s, p, T)
<1> DEFINE C == MakeChild(R, s)
<1>1. /\ s \in 1..R.scopes /\ 1 \in Open /\ Free \subseteq Open /\ Open \subseteq 1..R.scopes
      /\ R.scopes \in Nat \ {0} /\ s \in Nat
  BY Sizes DEF TreeOK, Unsealed
<1>2. /\ WellFormed(C) /\ C.scopes = R.scopes + 1
      /\ \A p, T : Brings(C, R, s, p, T)
  BY <1>1, MakeChildBrings
<1>3. TreeOK(C, Open \cup {C.scopes}, Free \cup {C.scopes}) /\ Nameless(C, C.scopes, s)
  BY <1>1, MakeChildTree
<1> HIDE DEF C
<1>4. /\ C.scopes \in Nat /\ C.scopes \in 1..C.scopes /\ C.scopes \notin Open
      /\ s \in 1..C.scopes
  BY <1>1, <1>2
<1> QED
  BY <1>1, <1>2, <1>3, <1>4 DEF C

\* let and const
LEMMA BindingScopes ==
    ASSUME Scoping, NEW t \in {"Let", "Const"}, NEW n \in Name, NEW x \in Exprs,
           Binding(t, n, x)
    PROVE  Scoped(reg', stack')
<1> DEFINE C == MakeChild(reg, Here)
           c == C.scopes
           I == RegisterExpr(C, c, x, Pos)
           d == D(t, n, Pos, <<c>>, ExprId(I, x))
           Open == Opened(stack)
           Free == Claimed(stack)
           X == Open \cup {c}
           Y == Free \cup {c}
<1>1. Stmt(t) /\ stack' = stack /\ reg' = RegisterInsert(I, Here, d)
  BY DEF Binding
<1>2. /\ Pos \in Nat /\ Here \in Open /\ WellFormed(reg) /\ t \in Tags
      /\ TreeOK(reg, Open, Free)
  BY <1>1, StmtScopes
<1>3. /\ WellFormed(C) /\ c \in Nat /\ c \in 1..C.scopes /\ c \notin Open /\ Nameless(C, c, Here)
      /\ TreeOK(C, X, Y) /\ 1 \in Open /\ Free \subseteq Open
  BY <1>2, ChildScopes
<1> HIDE DEF C, Open, Free
<1>4. Brings(I, C, c, Pos, {}) /\ (~IsNull(x) => Rooted(I, c))
  BY <1>2, <1>3, ExprBrings
<1>5. WellFormed(I) /\ Nameless(I, c, Here)
  BY <1>3, <1>4, BringsFacts, BringsNameless
<1>6. TreeOK(I, X, Y)
  <2>1. c \in X
    OBVIOUS
  <2> HIDE DEF X, Y
  <2> QED
    BY <1>2, <1>3, <2>1, ExprTree
<1> HIDE DEF I
<1>7. d \in Insertable /\ d.tag \in Declared /\ d.expr = ExprId(I, x)
  <2>1. d \in Insertable
    BY <1>2, <1>3, <1>5, DescTyped, KidsTyped, ExprIdTyped DEF NameOpt
  <2> QED
    BY <2>1 DEF D, Declared
<1>8. d.expr # 0 => d.expr \in IdsOf(I) /\ I.flat[d.expr].scope = c
  BY <1>4, <1>7, ExprIdFound
<1> HIDE DEF d
<1>9. TreeOK(reg', Open, Free)
  BY <1>1, <1>2, <1>3, <1>5, <1>6, <1>7, <1>8, DeclaredTree
<1> QED
  BY <1>1, <1>9, LeafScoped, BindingKept DEF Scoping, Open, Free

\* register_var, with or without an initialiser.
LEMMA VarScopes ==
    ASSUME Scoping, NEW n \in Name, NEW x \in Exprs, NEW ty \in NameOpt, NEW fits,
           RegisterVar(n, x, ty, fits)
    PROVE  Scoped(reg', stack')
<1> DEFINE C == IF x = NoExpr THEN reg ELSE MakeChild(reg, Here)
           c == C.scopes
           enum == Rewritten(x, ty, fits)
           null == \/ x.tag = "none"
                   \/ enum /\ RegisterByName(reg, ty) = 0
                   \/ x.tag = "ExprArray" /\ ~ArrayFits(ty, fits)
           A == CallIn(C, Here, c, "ExprArray", x.args, Pos)
           E == CallIn(C, c, c, "ExprEnumCall", x.args, Pos)
           P == RegisterExpr(C, c, x, Pos)
           I == CASE null -> C
                  [] x.tag = "ExprArray" /\ ~null -> A
                  [] enum /\ ~null -> E
                  [] OTHER -> P
           d == D("Var", n, Pos, IF x = NoExpr THEN <<>> ELSE <<c>>,
                  IF null THEN 0 ELSE LastId(I))
           Open == Opened(stack)
           Free == Claimed(stack)
           X == Open \cup {c}
           Y == Free \cup {c}
<1>1. Stmt("Var") /\ stack' = stack /\ reg' = RegisterInsert(I, Here, d)
  BY DEF RegisterVar
<1>2. /\ Pos \in Nat /\ Here \in Open /\ WellFormed(reg) /\ Here \in Nat /\ Here \in 1..reg.scopes
      /\ TreeOK(reg, Open, Free)
  BY <1>1, StmtScopes
<1>3. x.tag = "none" <=> x = NoExpr
  BY ExprShape
<1>4. /\ x.args = <<>> \/ x.args[1] \in AtomTags
      /\ "ExprArray" \in Tags \ Declaring /\ "ExprEnumCall" \in Tags \ Declaring
      /\ "ExprArray" \in ScopedCalls /\ "ExprEnumCall" \in ScopedCalls
  BY ExprShape DEF Tags, OtherTags, StmtTags, Declaring, ScopedCalls
<1>5. CASE x = NoExpr
  <2>1. null /\ I = reg /\ C = reg
    BY <1>3, <1>5
  <2>2. d \in Insertable /\ Plain(d)
    <3>1. d = D("Var", n, Pos, <<>>, 0)
      BY <1>5, <2>1
    <3> HIDE DEF d
    <3>2. d \in Insertable
      BY <1>2, <3>1, DescTyped, KidsTyped DEF Tags, StmtTags, NameOpt
    <3> QED
      BY <3>1, <3>2 DEF D, Plain, Declared
  <2> HIDE DEF d, I, null, C
  <2>3. TreeOK(reg', Open, Free)
    BY <1>1, <1>2, <2>1, <2>2, PlainTree
  <2> QED
    BY <1>1, <2>3, LeafScoped, VarKept DEF Scoping
<1>6. CASE x # NoExpr
  <2>1. C = MakeChild(reg, Here)
    BY <1>6
  <2> HIDE DEF C, Open, Free
  <2>2. /\ WellFormed(C) /\ c \in Nat /\ c \in 1..C.scopes /\ c \notin Open
        /\ Nameless(C, c, Here) /\ Here \in 1..C.scopes
        /\ TreeOK(C, X, Y) /\ 1 \in Open /\ Free \subseteq Open
    BY <1>2, <2>1, ChildScopes
  <2>3. c \in X /\ Here \in X
    BY <1>2
  <2>4. enum => x.tag # "ExprArray"
    BY DEF Rewritten
  <2> HIDE DEF X, Y, enum
  <2>5. /\ TreeOK(I, X, Y) /\ \E s \in {Here, c} : Brings(I, C, s, Pos, {})
        /\ ~null => Rooted(I, Here) \/ Rooted(I, c)
    <3>1. CASE null
      <4>1. I = C /\ \A s : Brings(C, C, s, Pos, {})
        BY <2>2, <2>4, <3>1, BringsNothing
      <4> HIDE DEF I
      <4> QED
        BY <2>2, <3>1, <4>1
    <3>2. CASE ~null /\ x.tag = "ExprArray"
      <4>1. Brings(A, C, Here, Pos, {}) /\ Rooted(A, Here)
        BY <1>2, <1>4, <2>2, CallInBrings
      <4>2. TreeOK(A, X, Y)
        BY <1>2, <1>4, <2>2, <2>3, CallInTree
      <4>3. I = A
        BY <2>4, <3>2
      <4> HIDE DEF I, A
      <4> QED
        BY <4>1, <4>2, <4>3
    <3>3. CASE ~null /\ x.tag # "ExprArray" /\ enum
      <4>1. Brings(E, C, c, Pos, {}) /\ Rooted(E, c)
        BY <1>2, <1>4, <2>2, CallInBrings
      <4>2. TreeOK(E, X, Y)
        BY <1>2, <1>4, <2>2, <2>3, CallInTree
      <4>3. I = E
        BY <3>3
      <4> HIDE DEF I, E
      <4> QED
        BY <4>1, <4>2, <4>3
    <3>4. CASE ~null /\ x.tag # "ExprArray" /\ ~enum
      <4>1. Brings(P, C, c, Pos, {}) /\ (~IsNull(x) => Rooted(P, c))
        BY <1>2, <2>2, ExprBrings
      <4>2. TreeOK(P, X, Y)
        BY <1>2, <2>2, <2>3, ExprTree
      <4>3. I = P /\ ~IsNull(x)
        BY <3>4 DEF IsNull
      <4> HIDE DEF I, P
      <4> QED
        BY <4>1, <4>2, <4>3
    <3> QED
      BY <3>1, <3>2, <3>3, <3>4
  <2> HIDE DEF I, null
  <2>6. WellFormed(I) /\ Nameless(I, c, Here)
    BY <2>2, <2>5, BringsFacts, BringsNameless
  <2>7. d \in Insertable /\ d.tag \in Declared /\ d.expr = IF null THEN 0 ELSE LastId(I)
    <3>1. (IF x = NoExpr THEN <<>> ELSE <<c>>) \in Seq(Nat)
      BY <2>2, KidsTyped
    <3>2. (IF null THEN 0 ELSE LastId(I)) \in Nat
      BY <2>6, ExprIdTyped
    <3>3. n \in NameOpt /\ "Var" \in Tags
      BY DEF NameOpt, Tags, StmtTags
    <3>4. d \in Insertable
      BY <1>2, <3>1, <3>2, <3>3, DescTyped
    <3> QED
      BY <3>4 DEF D, Declared
  <2>8. d.expr # 0 => d.expr \in IdsOf(I) /\ I.flat[d.expr].scope \in {Here, c}
    BY <2>5, <2>7 DEF Rooted
  <2> HIDE DEF d
  <2>9. TreeOK(reg', Open, Free)
    BY <1>1, <1>2, <2>2, <2>5, <2>6, <2>7, <2>8, DeclaredTree DEF X, Y
  <2> QED
    BY <1>1, <2>9, LeafScoped, VarKept DEF Scoping, Open, Free
<1> QED
  BY <1>5, <1>6

\* return and expression statements: the expression goes to the same scope.
LEMMA InPlaceScopes ==
    ASSUME Scoping, NEW t \in {"Return", "ExprStmt"}, NEW x \in Exprs, InPlace(t, x)
    PROVE  Scoped(reg', stack')
<1> DEFINE I == RegisterExpr(reg, Here, x, Pos)
           d == D(t, NoName, Pos, <<>>, ExprId(I, x))
           Open == Opened(stack)
           Free == Claimed(stack)
           n == I.next
<1>1. Stmt(t) /\ stack' = stack /\ reg' = RegisterInsert(I, Here, d)
  BY DEF InPlace
<1>2. /\ Pos \in Nat /\ Here \in Open /\ WellFormed(reg) /\ t \in Tags
      /\ Here \in 1..reg.scopes /\ TreeOK(reg, Open, Free) /\ 1 \in Open /\ Free \subseteq Open
  BY <1>1, StmtScopes, ScopingFacts
<1> HIDE DEF Open, Free
<1>3. Brings(I, reg, Here, Pos, {}) /\ (~IsNull(x) => Rooted(I, Here)) /\ TreeOK(I, Open, Free)
  BY <1>2, ExprBrings, ExprTree
<1>4. WellFormed(I) /\ Here \in 1..I.scopes
  BY <1>2, <1>3, BringsFacts
<1> HIDE DEF I
<1>5. d \in Insertable /\ d.tag = t /\ d.kids = <<>> /\ d.expr = ExprId(I, x)
  <2>1. d \in Insertable
    BY <1>2, <1>4, DescTyped, NoNameTyped, KidsTyped, ExprIdTyped
  <2> QED
    BY <2>1 DEF D
<1> HIDE DEF d
<1>6. d.expr # 0 => d.expr \in IdsOf(I) /\ I.flat[d.expr].scope = Here
  <2>1. ASSUME ExprId(I, x) # 0
        PROVE  ExprId(I, x) \in IdsOf(I) /\ I.flat[ExprId(I, x)].scope = Here
    BY <1>3, <2>1, ExprIdFound
  <2> QED
    BY <1>5, <2>1
<1>7. /\ reg'.flat[n].tag = t /\ reg'.flat[n].scope = Here /\ reg'.flat[n].expr = d.expr
      /\ \A i \in IdsOf(I) : reg'.flat[i] = I.flat[i] /\ i \in 1..(n - 1)
  BY <1>1, <1>4, <1>5, InsertFields DEF IdsOf
<1>8. Fits(reg', n) /\ \A u : ~Seals(reg', n, u)
  BY <1>6, <1>7 DEF Fits, Seals, Declared, ScopedCalls
<1>9. Leads(I, d, Here) /\ KidsOf(d) = {}
  BY <1>5 DEF Leads, KidsOf, Branching, Flow
<1> HIDE DEF n
<1>10. TreeOK(reg', Open, Free)
  BY <1>1, <1>2, <1>3, <1>4, <1>5, <1>8, <1>9, InsertTree DEF n
<1> QED
  BY <1>1, <1>10, LeafScoped, InPlaceKept DEF Scoping, Open, Free

\* register_atomic.
LEMMA AtomicScopes ==
    ASSUME Scoping, NEW x \in Exprs, RegisterAtomic(x) PROVE Scoped(reg', stack')
<1> DEFINE I == RegisterExpr(reg, Here, x, Pos)
           d == D("Atomic", NoName, Pos, <<>>, 0)
<1>1. Stmt("Atomic") /\ stack' = stack /\ reg' = RegisterInsert(I, Here, d)
  BY DEF RegisterAtomic
<1>2. /\ Pos \in Nat /\ Here \in Opened(stack) /\ WellFormed(reg)
      /\ Here \in 1..reg.scopes /\ TreeOK(reg, Opened(stack), Claimed(stack))
  BY <1>1, StmtScopes
<1>3. Brings(I, reg, Here, Pos, {}) /\ TreeOK(I, Opened(stack), Claimed(stack))
  BY <1>2, ExprBrings, ExprTree
<1>4. WellFormed(I)
  BY <1>2, <1>3, BringsFacts
<1> HIDE DEF I
<1>5. d \in Insertable /\ Plain(d)
  BY <1>2, DescTyped, NoNameTyped, KidsTyped DEF Tags, StmtTags, D, Plain
<1> HIDE DEF d
<1>6. TreeOK(reg', Opened(stack), Claimed(stack))
  BY <1>1, <1>2, <1>3, <1>4, <1>5, PlainTree
<1> QED
  BY <1>1, <1>6, LeafScoped, AtomicKept DEF Scoping

\* if and elif, over a stack that opens and claims the same scopes.
LEMMA BeginIfScopes ==
    ASSUME Scoping, Kept, NEW t \in {"If", "Elif"}, NEW below \in Seq(FrameType),
           Apart(reg, below), Opened(below) = Opened(stack), Claimed(below) = Claimed(stack),
           NEW s \in Opened(stack), NEW x \in Exprs, NEW pat \in Patterns, NEW hasElse \in BOOLEAN,
           BeginIf(t, s, below, x, pat, hasElse)
    PROVE  Scoped(reg', stack')
<1> DEFINE C == MakeChild(reg, s)
           T == MakeChild(C, s)
           hasChild == hasElse \/ t = "Elif"
           E == IF hasChild THEN MakeChild(T, s) ELSE T
           I == RegisterPatternCondition(E, C.scopes, x, pat, Pos)
           kids == IF hasChild THEN <<C.scopes, T.scopes, E.scopes>>
                   ELSE <<C.scopes, T.scopes>>
           leaf == D(t, NoName, Pos, kids, ExprId(I, x))
           kind == IF hasElse THEN "then-else" ELSE "then"
           f == Frame(kind, T.scopes, s, leaf, NoExpr)
           Open == Opened(stack)
           Free == Claimed(stack)
           r == reg.scopes
           N == IF hasChild THEN {r + 1, r + 2, r + 3} ELSE {r + 1, r + 2}
           X == Open \cup N
           Y == Free \cup N
<1>1. reg' = I /\ stack' = Append(below, f)
  BY DEF BeginIf
<1>2. /\ WellFormed(reg) /\ r \in Nat \ {0} /\ TreeOK(reg, Open, Free) /\ s \in Open
      /\ 1 \in Open /\ Free \subseteq Open /\ Open \subseteq 1..r /\ Pos \in Nat
  BY ScopingFacts, PosTyped DEF Scoping
<1> HIDE DEF Open, Free
<1>3. /\ WellFormed(C) /\ C.scopes = r + 1 /\ TreeOK(C, Open \cup {r + 1}, Free \cup {r + 1})
  BY <1>2, ChildScopes
<1> HIDE DEF C
<1>4. /\ WellFormed(T) /\ T.scopes = r + 2
      /\ TreeOK(T, Open \cup {r + 1, r + 2}, Free \cup {r + 1, r + 2})
  <2> DEFINE U == Open \cup {r + 1}
             V == Free \cup {r + 1}
  <2>1. s \in U /\ TreeOK(C, U, V)
    BY <1>2, <1>3
  <2> HIDE DEF U, V
  <2>2. WellFormed(T) /\ T.scopes = C.scopes + 1 /\ TreeOK(T, U \cup {T.scopes}, V \cup {T.scopes})
    BY <1>3, <2>1, ChildScopes
  <2>3. T.scopes = r + 2
    BY <1>2, <1>3, <2>2
  <2>4. U \cup {T.scopes} = Open \cup {r + 1, r + 2} /\ V \cup {T.scopes} = Free \cup {r + 1, r + 2}
    BY <2>3 DEF U, V
  <2> HIDE DEF T
  <2> QED
    BY <2>2, <2>3, <2>4
<1> HIDE DEF T
<1>5. /\ WellFormed(E) /\ E.scopes \in Nat /\ TreeOK(E, X, Y)
      /\ E.scopes = IF hasChild THEN r + 3 ELSE r + 2
  <2>1. CASE hasChild
    <3> DEFINE U == Open \cup {r + 1, r + 2}
               V == Free \cup {r + 1, r + 2}
               F == MakeChild(T, s)
    <3>1. s \in U /\ TreeOK(T, U, V)
      BY <1>2, <1>4
    <3> HIDE DEF U, V
    <3>2. WellFormed(F) /\ F.scopes = T.scopes + 1 /\ TreeOK(F, U \cup {F.scopes}, V \cup {F.scopes})
      BY <1>4, <3>1, ChildScopes
    <3>3. F.scopes = r + 3
      BY <1>2, <1>4, <3>2
    <3>4. U \cup {F.scopes} = X /\ V \cup {F.scopes} = Y
      BY <2>1, <3>3 DEF U, V
    <3>5. E = F
      BY <2>1
    <3>6. r + 3 \in Nat
      BY <1>2
    <3> HIDE DEF F, E, X, Y, hasChild, r
    <3> QED
      BY <2>1, <3>2, <3>3, <3>4, <3>5, <3>6
  <2>2. CASE ~hasChild
    <3>1. E = T /\ X = Open \cup {r + 1, r + 2} /\ Y = Free \cup {r + 1, r + 2}
      BY <2>2
    <3> HIDE DEF E, X, Y
    <3> QED
      BY <1>2, <1>4, <2>2, <3>1
  <2> QED
    BY <2>1, <2>2
<1> HIDE DEF E
<1>6. /\ TreeOK(I, X, Y) /\ WellFormed(I) /\ I.scopes \in Nat /\ I.scopes >= E.scopes
      /\ C.scopes \in 1..E.scopes
  <2>1. C.scopes \in X /\ C.scopes \in 1..E.scopes
    BY <1>2, <1>3, <1>5
  <2> HIDE DEF X, Y
  <2>2. TreeOK(I, X, Y)
    BY <1>2, <1>5, <2>1, PatternTree
  <2>3. Brings(I, E, C.scopes, Pos, {"Var", "Let"})
    BY <1>2, <1>5, <2>1, PatternBrings
  <2> QED
    BY <1>5, <2>1, <2>2, <2>3, BringsFacts
<1> HIDE DEF I
<1>7. /\ kids \in Seq(Nat) /\ Len(kids) >= 2 /\ {kids[k] : k \in DOMAIN kids} = N
      /\ \A k, l \in DOMAIN kids : kids[k] = kids[l] => k = l
  <2>1. CASE hasChild
    <3>1. kids = <<r + 1, r + 2, r + 3>> /\ N = {r + 1, r + 2, r + 3}
      BY <1>3, <1>4, <1>5, <2>1
    <3>2. r + 1 \in Nat /\ r + 2 \in Nat /\ r + 3 \in Nat /\ r + 1 # r + 2 /\ r + 1 # r + 3 /\ r + 2 # r + 3
      BY <1>2, SMTT(30)
    <3> HIDE DEF kids, N
    <3>3. kids \in Seq(Nat) /\ Len(kids) = 3 /\ DOMAIN kids = {1, 2, 3}
      BY <3>1, <3>2
    <3>4. kids[1] = r + 1 /\ kids[2] = r + 2 /\ kids[3] = r + 3
      BY <3>1
    <3> QED
      BY <3>1, <3>2, <3>3, <3>4
  <2>2. CASE ~hasChild
    <3>1. kids = <<r + 1, r + 2>> /\ N = {r + 1, r + 2}
      BY <1>3, <1>4, <1>5, <2>2
    <3>2. r + 1 \in Nat /\ r + 2 \in Nat /\ r + 1 # r + 2
      BY <1>2
    <3> HIDE DEF kids, N
    <3>3. kids \in Seq(Nat) /\ Len(kids) = 2 /\ DOMAIN kids = {1, 2}
      BY <3>1, <3>2
    <3>4. kids[1] = r + 1 /\ kids[2] = r + 2
      BY <3>1
    <3> QED
      BY <3>1, <3>2, <3>3, <3>4
  <2> QED
    BY <2>1, <2>2
<1> HIDE DEF kids
<1>8. leaf \in DescType /\ leaf.tag = t /\ leaf.kids = kids
  <2>1. ExprId(I, x) \in Nat /\ t \in Tags
    BY <1>6, ExprIdTyped DEF Tags, StmtTags
  <2>2. leaf \in Insertable
    BY <1>2, <1>7, <2>1, DescTyped, NoNameTyped
  <2> QED
    BY <2>2 DEF Insertable, D
<1> HIDE DEF leaf
<1>9. /\ f \in FrameType /\ f.scope = T.scopes /\ f.reg = s /\ f.entry = leaf
  <2>1. kind \in FrameKinds /\ NoExpr \in Exprs
    BY ExprsAssumption DEF FrameKinds, StmtLoops
  <2>2. T.scopes \in Nat /\ s \in Nat
    BY <1>2, <1>4
  <2> QED
    BY <1>8, <2>1, <2>2 DEF Frame, FrameType
<1> HIDE DEF f
<1>10. t \in Held /\ t \in Branching /\ t \notin {"Function", "Return", "ExprStmt", "Atomic"}
  BY DEF Held, Branching, Flow
<1>11. KidsOf(leaf) = N /\ Claims(f) = N /\ Around(f) \subseteq X
  <2>1. KidsOf(leaf) = N
    <3> HIDE DEF N
    <3> QED
      BY <1>7, <1>8 DEF KidsOf
  <2>2. T.scopes \in N
    BY <1>4
  <2> QED
    BY <1>2, <1>8, <1>9, <1>10, <2>1, <2>2 DEF Claims, Around
<1>12. N \subseteq (s + 1)..I.scopes /\ N \cap Open = {}
  <2>1. s \in 1..r
    BY <1>2
  <2>2. CASE hasChild
    <3>1. I.scopes \in Nat /\ I.scopes >= r + 3 /\ N = {r + 1, r + 2, r + 3}
      BY <1>2, <1>5, <1>6, <2>2
    <3>2. r + 1 \notin 1..r /\ r + 2 \notin 1..r /\ r + 3 \notin 1..r
      BY <1>2
    <3>3. /\ r + 1 \in (s + 1)..I.scopes /\ r + 2 \in (s + 1)..I.scopes
          /\ r + 3 \in (s + 1)..I.scopes
      BY <1>2, <2>1, <3>1
    <3> HIDE DEF N, r
    <3> QED
      BY <1>2, <3>1, <3>2, <3>3
  <2>3. CASE ~hasChild
    <3>1. I.scopes \in Nat /\ I.scopes >= r + 2 /\ N = {r + 1, r + 2}
      BY <1>2, <1>5, <1>6, <2>3
    <3>2. r + 1 \notin 1..r /\ r + 2 \notin 1..r
      BY <1>2
    <3>3. r + 1 \in (s + 1)..I.scopes /\ r + 2 \in (s + 1)..I.scopes
      BY <1>2, <2>1, <3>1
    <3> HIDE DEF N, r
    <3> QED
      BY <1>2, <3>1, <3>2, <3>3
  <2> QED
    BY <2>2, <2>3
<1>13. Leads(I, leaf, s)
  BY <1>7, <1>8, <1>10, <1>11, <1>12 DEF Leads
<1>14. Apart(I, below)
  BY <1>1, <1>2, ApartGrows DEF Kept
<1>15. /\ Claims(f) \cap Claimed(below) = {}
       /\ Opened(below) \subseteq X /\ Claimed(below) \subseteq Y
       /\ Claims(f) \subseteq Y
  BY <1>2, <1>11, <1>12 DEF Open, Free
<1> HIDE DEF X, Y, N
<1>16. Scoped(I, Append(below, f))
  BY <1>6, <1>8, <1>9, <1>10, <1>11, <1>13, <1>14, <1>15, ScopedPush
<1> QED
  BY <1>1, <1>16

\* register_if, up to its first body.
LEMMA IfScopes ==
    ASSUME Scoping, NEW x \in Exprs, NEW pat \in Patterns, NEW hasElse \in BOOLEAN,
           RegisterIf(x, pat, hasElse)
    PROVE  Scoped(reg', stack')
<1>1. stack # <<>> /\ BeginIf("If", Here, stack, x, pat, hasElse)
  BY DEF RegisterIf, CanStart
<1>2. Here \in Opened(stack) /\ stack \in Seq(FrameType) /\ Apart(reg, stack)
  BY <1>1, TopScoped, ScopingFacts DEF Here
<1>3. Kept
  BY IfKept DEF Scoping
<1> QED
  BY <1>1, <1>2, <1>3, BeginIfScopes

\* A frame whose entry is no branch claims nothing.
LEMMA EmptyHanded ==
    ASSUME NEW f, f.entry.tag \in Held \ {"If", "Elif", "Match"}
    PROVE  Claims(f) = {} /\ f.entry.tag \in Held /\ \A R, s : Leads(R, f.entry, s)
BY DEF Claims, Leads, Branching, Flow, Held

\* The frame of a body claims nothing, and opens its scope.
LEMMA BodyScopes ==
    ASSUME NEW s \in Nat
    PROVE  LET f == Body(s) IN
           /\ f \in FrameType /\ Claims(f) = {} /\ f.entry.tag \in Held /\ Around(f) = {s}
           /\ \A R : Leads(R, f.entry, f.reg)
<1> DEFINE f == Body(s)
<1>1. f \in FrameType /\ f.entry = NoEntry /\ f.scope = s /\ f.reg = s
  <2>1. f \in FrameType
    BY BodyWalks
  <2> QED
    BY <2>1 DEF Body, Frame
<1>2. NoEntry.tag = "none" /\ NoEntry.kids = <<>>
  BY DEF NoEntry, D
<1> HIDE DEF f
<1>3. f.entry.tag \in Held \ {"If", "Elif", "Match"}
  BY <1>1, <1>2 DEF Held
<1>4. Around(f) = {s}
  BY <1>1, <1>2 DEF Around, KidsOf
<1>5. Claims(f) = {} /\ f.entry.tag \in Held /\ \A R, r : Leads(R, f.entry, r)
  BY <1>3, EmptyHanded
<1> QED
  BY <1>1, <1>4, <1>5 DEF f

\* A top frame in the same scopes, with the same entry.
LEMMA SameTop ==
    ASSUME Scoping, stack # <<>>, NEW f \in FrameType, f.scope = Top.scope, f.reg = Top.reg,
           f.entry = Top.entry
    PROVE  /\ SetTop(f) \in Seq(FrameType) /\ Apart(reg, SetTop(f))
           /\ Opened(SetTop(f)) = Opened(stack) /\ Claimed(SetTop(f)) = Claimed(stack)
<1> DEFINE b == Pop
           new == SetTop(f)
<1>1. /\ b \in Seq(FrameType) /\ Apart(reg, b)
      /\ Opened(stack) = Opened(b) \cup Around(Top)
      /\ Claimed(stack) = Claimed(b) \cup Claims(Top)
      /\ Claims(Top) \cap Claimed(b) = {}
      /\ Top.entry.tag \in Held /\ Leads(reg, Top.entry, Top.reg)
      /\ new = Append(b, f)
  BY TopScoped
<1>2. Around(f) = Around(Top) /\ Claims(f) = Claims(Top)
  BY DEF Around, Claims
<1> HIDE DEF b, new
<1>3. /\ Opened(new) = Opened(b) \cup Around(f) /\ Claimed(new) = Claimed(b) \cup Claims(f)
      /\ Apart(reg, new)
  BY <1>1, <1>2, PushScopes
<1>4. new \in Seq(FrameType)
  BY <1>1
<1> QED
  BY <1>1, <1>2, <1>3, <1>4 DEF new

\* The handler of an if goes on behind its else_child, with the scopes it had.
LEMMA AfterElseScopes ==
    ASSUME Scoping, In("then-else")
    PROVE  /\ AfterElse \in Seq(FrameType) /\ Apart(reg, AfterElse)
           /\ Opened(AfterElse) = Opened(stack) /\ Claimed(AfterElse) = Claimed(stack)
           /\ ElseChild \in Opened(stack)
<1> DEFINE f == [Top EXCEPT !.kind = "tail"]
<1>1. stack # <<>> /\ Top.kind = "then-else"
  BY DEF In
<1>2. FrameOK(Top, reg) /\ Top \in FrameType
  BY <1>1, TopFacts DEF Scoping
<1>3. f \in FrameType /\ f.scope = Top.scope /\ f.reg = Top.reg /\ f.entry = Top.entry
  BY <1>2 DEF FrameType, FrameKinds
<1>4. AfterElse = SetTop(f)
  BY DEF AfterElse
<1> HIDE DEF f
<1>5. ElseChild \in KidsOf(Top.entry)
  <2>1. Len(Top.entry.kids) = 3 /\ Top.entry.kids \in Seq(Nat)
    BY <1>1, <1>2 DEF FrameOK, FrameType, DescType
  <2>2. 3 \in DOMAIN Top.entry.kids
    BY <2>1
  <2> QED
    BY <2>2 DEF KidsOf, ElseChild
<1>6. ElseChild \in Opened(stack)
  BY <1>1, <1>5, TopScoped
<1> QED
  BY <1>1, <1>3, <1>4, <1>6, SameTop

\* An elif, registered in the else_child of the if before it.
LEMMA ElifScopes ==
    ASSUME Scoping, NEW x \in Exprs, NEW pat \in Patterns, NEW hasElse \in BOOLEAN,
           RegisterElif(x, pat, hasElse)
    PROVE  Scoped(reg', stack')
<1>1. In("then-else") /\ BeginIf("Elif", ElseChild, AfterElse, x, pat, hasElse)
  BY DEF RegisterElif
<1>2. Kept
  BY ElifKept DEF Scoping
<1> QED
  BY <1>1, <1>2, AfterElseScopes, BeginIfScopes

\* The else clause is skipped.
LEMMA SkipElseScopes == ASSUME Scoping, SkipElse PROVE Scoped(reg', stack')
<1>1. In("then-else") /\ stack' = AfterElse /\ reg' = reg
  BY DEF SkipElse
<1> QED
  BY <1>1, AfterElseScopes, ScopingFacts DEF Scoped

\* A handler inserts the entry it has held, and claims nothing any more.
LEMMA FinishScopes ==
    ASSUME Scoping, stack # <<>>, Top.kind \in Inserting, Finish PROVE Scoped(reg', stack')
<1> DEFINE d == Top.entry
           s == Top.reg
           n == reg.next
           Open == Opened(stack)
           Free == Claimed(stack)
           Open2 == Opened(Pop)
           Free2 == Claimed(Pop)
<1>1. reg' = RegisterInsert(reg, s, d) /\ stack' = Pop /\ Kept
  BY FinishKept DEF Finish, Scoping
<1>2. /\ WellFormed(reg) /\ s \in 1..reg.scopes /\ d \in Insertable
  BY TopFacts DEF Scoping, Good, FrameOK, Insertable
<1>3. TreeOK(reg, Open, Free)
  BY ScopingFacts
<1>4. /\ s \in Open /\ d.tag \in Held /\ Leads(reg, d, s)
      /\ Open = Open2 \cup Around(Top) /\ Free = Free2 \cup Claims(Top)
      /\ Claims(Top) \cap Free2 = {} /\ 1 \in Open2 /\ Free2 \subseteq Open2
  BY TopScoped, ClaimedOpened
<1>5. d.tag \in Branching => KidsOf(d) = Claims(Top)
  BY DEF Claims
<1>6. /\ reg'.flat[n].tag = d.tag
  BY <1>1, <1>2, InsertFields, SMTT(30)
<1>7. Fits(reg', n) /\ \A u : ~Seals(reg', n, u)
  BY <1>4, <1>6 DEF Fits, Seals, Held, Declared, ScopedCalls
<1> HIDE DEF n, Open, Free, Open2, Free2, d, s
<1>8. d.tag \in Branching => KidsOf(d) \subseteq Free \ Free2
  BY <1>4, <1>5
<1>9. TreeOK(reg', Open2, Free2)
  BY <1>1, <1>2, <1>3, <1>4, <1>7, <1>8, InsertTree, ZenonT(30) DEF n
<1> QED
  BY <1>1, <1>9, PopScoped DEF Open2, Free2

\* A handler returns that inserts nothing.
LEMMA EndScopes ==
    ASSUME Scoping, stack # <<>>, stack' = Pop, UNCHANGED <<reg, src>>
    PROVE  Scoped(reg', stack')
<1>1. Kept /\ reg' = reg
  BY PopKept DEF Scoping
<1>2. Opened(Pop) \subseteq Opened(stack) /\ Claimed(Pop) \subseteq Claimed(stack)
  BY TopScoped
<1> QED
  BY <1>1, <1>2, ScopingFacts, PopScoped

\* What TreeOK depends on.
LEMMA SameTree ==
    ASSUME NEW R, NEW Open, NEW Free, TreeOK(R, Open, Free), NEW Q,
           Q.next = R.next, Q.flat = R.flat, Q.scopes = R.scopes, Q.parent = R.parent,
           Q.names = R.names
    PROVE  TreeOK(Q, Open, Free)
<1>1. IdsOf(Q) = IdsOf(R)
  BY DEF IdsOf
<1>2. \A c, u : Nameless(Q, c, u) <=> Nameless(R, c, u)
  BY DEF Nameless
<1>3. \A i \in IdsOf(R) : Fits(R, i) => Fits(Q, i)
  BY <1>1, <1>2 DEF Fits
<1>4. \A e, s : Leads(R, e, s) => Leads(Q, e, s)
  BY DEF Leads
<1>5. \A s : (Led(Q, s) <=> Led(R, s)) /\ (Unsealed(R, s) => Unsealed(Q, s))
  BY <1>1 DEF Led, Unsealed, Seals
<1>6. Disjoint(R) => Disjoint(Q)
  BY <1>1 DEF Disjoint
<1> QED
  BY <1>1, <1>3, <1>4, <1>5, <1>6 DEF TreeOK

\* The function a scope belongs to has no part in the shape.
LEMMA OwnerTree ==
    ASSUME NEW R, NEW Open, NEW Free, TreeOK(R, Open, Free), NEW s, NEW o
    PROVE  TreeOK(SetOwner(R, s, o), Open, Free)
BY SameTree DEF SetOwner

\* register_while and register_for.
LEMMA LoopScopes ==
    ASSUME Scoping, NEW t \in {"While", "For"}, NEW x \in Exprs, BeginLoop(t, x)
    PROVE  Scoped(reg', stack')
<1> DEFINE C == MakeChild(reg, Here)
           B == MakeChild(C, Here)
           I == RegisterExpr(B, C.scopes, x, Pos)
           kids == <<C.scopes, B.scopes>>
           d == D(t, NoName, Pos, kids, ExprId(I, x))
           L == RegisterInsert(I, Here, d)
           Q == SetOwner(L, B.scopes, LastId(L))
           f == Body(B.scopes)
           Open == Opened(stack)
           Free == Claimed(stack)
           r == reg.scopes
           N == {r + 1, r + 2}
           X == Open \cup N
           Y == Free \cup N
           Z == Open \cup {r + 2}
<1>1. Stmt(t) /\ reg' = Q /\ stack' = Append(stack, f)
  BY DEF BeginLoop, Push
<1>2. /\ WellFormed(reg) /\ r \in Nat \ {0} /\ TreeOK(reg, Open, Free) /\ Here \in Open
      /\ 1 \in Open /\ Free \subseteq Open /\ Open \subseteq 1..r /\ Pos \in Nat /\ t \in Tags
  BY <1>1, ScopingFacts, StmtScopes
<1> HIDE DEF Open, Free
<1>3. WellFormed(C) /\ C.scopes = r + 1 /\ TreeOK(C, Open \cup {r + 1}, Free \cup {r + 1})
  BY <1>2, ChildScopes
<1> HIDE DEF C
<1>4. WellFormed(B) /\ B.scopes = r + 2 /\ TreeOK(B, X, Y)
  <2> DEFINE U == Open \cup {r + 1}
             V == Free \cup {r + 1}
  <2>1. Here \in U /\ TreeOK(C, U, V)
    BY <1>2, <1>3
  <2> HIDE DEF U, V
  <2>2. WellFormed(B) /\ B.scopes = C.scopes + 1 /\ TreeOK(B, U \cup {B.scopes}, V \cup {B.scopes})
    BY <1>3, <2>1, ChildScopes
  <2>3. B.scopes = r + 2
    BY <1>2, <1>3, <2>2
  <2>4. U \cup {B.scopes} = X /\ V \cup {B.scopes} = Y
    BY <2>3 DEF U, V
  <2> HIDE DEF B, X, Y
  <2> QED
    BY <2>2, <2>3, <2>4
<1> HIDE DEF B
<1>5. /\ TreeOK(I, X, Y) /\ WellFormed(I) /\ I.scopes \in Nat /\ I.scopes >= r + 2
      /\ Here \in 1..I.scopes
  <2>1. C.scopes \in X /\ C.scopes \in 1..B.scopes
    BY <1>2, <1>3, <1>4
  <2> HIDE DEF X, Y
  <2>2. TreeOK(I, X, Y) /\ Brings(I, B, C.scopes, Pos, {})
    BY <1>2, <1>4, <2>1, ExprTree, ExprBrings
  <2>3. WellFormed(I) /\ I.scopes \in Nat /\ I.scopes >= B.scopes
    BY <1>4, <2>2, BringsFacts
  <2> QED
    BY <1>2, <1>4, <2>2, <2>3
<1> HIDE DEF I
<1>6. /\ kids \in Seq(Nat) /\ Len(kids) >= 2 /\ {kids[k] : k \in DOMAIN kids} = N
      /\ \A k, l \in DOMAIN kids : kids[k] = kids[l] => k = l
  <2>1. kids = <<r + 1, r + 2>> /\ r + 1 \in Nat /\ r + 2 \in Nat /\ r + 1 # r + 2
    BY <1>2, <1>3, <1>4
  <2> HIDE DEF kids
  <2>2. kids \in Seq(Nat) /\ Len(kids) = 2 /\ DOMAIN kids = {1, 2}
    BY <2>1
  <2>3. kids[1] = r + 1 /\ kids[2] = r + 2
    BY <2>1
  <2>4. {kids[k] : k \in DOMAIN kids} = N
    BY <2>2, <2>3
  <2>5. \A k, l \in DOMAIN kids : kids[k] = kids[l] => k = l
    BY <2>1, <2>2, <2>3
  <2>6. kids \in Seq(Nat) /\ Len(kids) >= 2
    BY <2>2
  <2> QED
    BY <2>4, <2>5, <2>6, ZenonT(30)
<1> HIDE DEF kids
<1>7. d \in Insertable /\ d.tag = t /\ d.kids = kids
  <2>1. d \in Insertable
    BY <1>2, <1>5, <1>6, DescTyped, NoNameTyped, ExprIdTyped
  <2> QED
    BY <2>1 DEF D
<1> HIDE DEF d
<1>8. t \in Branching /\ t \notin {"Function", "Return", "ExprStmt", "Atomic"}
  BY DEF Branching, Flow
<1>9. KidsOf(d) = N
  <2>1. KidsOf(d) = {kids[k] : k \in DOMAIN kids}
    BY <1>7 DEF KidsOf
  <2> QED
    BY <1>6, <2>1, ZenonT(30)
<1>10. N \subseteq (Here + 1)..I.scopes /\ N \cap Open = {}
  <2>1. Here \in 1..r
    BY <1>2
  <2>2. r + 1 \notin 1..r /\ r + 2 \notin 1..r
    BY <1>2
  <2>3. r + 1 \in (Here + 1)..I.scopes /\ r + 2 \in (Here + 1)..I.scopes
    BY <1>2, <1>5, <2>1
  <2> HIDE DEF r
  <2> QED
    BY <1>2, <2>2, <2>3
<1>11. Leads(I, d, Here)
  BY <1>6, <1>7, <1>8, <1>9, <1>10 DEF Leads
<1>12. L.flat[I.next].tag = t
  BY <1>5, <1>7, InsertFields, SMTT(30)
<1> DEFINE n == I.next
<1> HIDE DEF L
<1>13. Fits(L, n) /\ \A u : ~Seals(L, n, u)
  BY <1>12 DEF Fits, Seals, Declared, ScopedCalls
<1>14. /\ Here \in X /\ 1 \in Z /\ Z \subseteq X /\ Free \subseteq Y /\ Free \subseteq Z
       /\ KidsOf(d) \subseteq Y \ Free
  BY <1>2, <1>9, <1>10
<1> HIDE DEF X, Y, Z, n
<1>15. TreeOK(L, Z, Free)
  BY <1>5, <1>7, <1>11, <1>13, <1>14, InsertTree DEF L, n
<1>16. TreeOK(Q, Z, Free)
  BY <1>15, OwnerTree
<1>17. /\ f \in FrameType /\ Claims(f) = {} /\ f.entry.tag \in Held /\ Around(f) = {r + 2}
       /\ Leads(reg', f.entry, f.reg)
  <2>1. B.scopes \in Nat
    BY <1>2, <1>4
  <2> QED
    BY <1>4, <2>1, BodyScopes
<1>18. Kept
  BY LoopKept DEF Scoping
<1> HIDE DEF f, Q
<1>19. Opened(stack) \cup Around(f) \subseteq Z /\ Claimed(stack) \cup Claims(f) \subseteq Free
  BY <1>17 DEF Z, Open, Free
<1> QED
  BY <1>1, <1>16, <1>17, <1>18, <1>19, PushScoped

\* register_match, up to its arms.
LEMMA MatchScopes ==
    ASSUME Scoping, NEW x \in Exprs, RegisterMatch(x) PROVE Scoped(reg', stack')
<1> DEFINE C == MakeChild(reg, Here)
           E == MakeChild(C, Here)
           I == RegisterExpr(E, C.scopes, x, Pos)
           kids == <<C.scopes, E.scopes>>
           d == D("Match", NoName, Pos, kids, ExprId(I, x))
           f == Frame("match", Here, Here, d, NoExpr)
           Open == Opened(stack)
           Free == Claimed(stack)
           r == reg.scopes
           N == {r + 1, r + 2}
           X == Open \cup N
           Y == Free \cup N
<1>1. Stmt("Match") /\ reg' = I /\ stack' = Append(stack, f)
  BY DEF RegisterMatch, Push
<1>2. /\ WellFormed(reg) /\ r \in Nat \ {0} /\ TreeOK(reg, Open, Free) /\ Here \in Open
      /\ 1 \in Open /\ Free \subseteq Open /\ Open \subseteq 1..r /\ Pos \in Nat /\ Here \in Nat
  BY <1>1, ScopingFacts, StmtScopes
<1> HIDE DEF Open, Free
<1>3. WellFormed(C) /\ C.scopes = r + 1 /\ TreeOK(C, Open \cup {r + 1}, Free \cup {r + 1})
  BY <1>2, ChildScopes
<1> HIDE DEF C
<1>4. WellFormed(E) /\ E.scopes = r + 2 /\ TreeOK(E, X, Y)
  <2> DEFINE U == Open \cup {r + 1}
             V == Free \cup {r + 1}
  <2>1. Here \in U /\ TreeOK(C, U, V)
    BY <1>2, <1>3
  <2> HIDE DEF U, V
  <2>2. WellFormed(E) /\ E.scopes = C.scopes + 1 /\ TreeOK(E, U \cup {E.scopes}, V \cup {E.scopes})
    BY <1>3, <2>1, ChildScopes
  <2>3. E.scopes = r + 2
    BY <1>2, <1>3, <2>2
  <2>4. U \cup {E.scopes} = X /\ V \cup {E.scopes} = Y
    BY <2>3 DEF U, V
  <2> HIDE DEF E, X, Y
  <2> QED
    BY <2>2, <2>3, <2>4
<1> HIDE DEF E
<1>5. /\ TreeOK(I, X, Y) /\ WellFormed(I) /\ I.scopes \in Nat /\ I.scopes >= r + 2
  <2>1. C.scopes \in X /\ C.scopes \in 1..E.scopes
    BY <1>2, <1>3, <1>4
  <2> HIDE DEF X, Y
  <2>2. TreeOK(I, X, Y) /\ Brings(I, E, C.scopes, Pos, {})
    BY <1>2, <1>4, <2>1, ExprTree, ExprBrings
  <2>3. WellFormed(I) /\ I.scopes \in Nat /\ I.scopes >= E.scopes
    BY <1>4, <2>2, BringsFacts
  <2> QED
    BY <1>2, <1>4, <2>2, <2>3
<1> HIDE DEF I
<1>6. /\ kids \in Seq(Nat) /\ Len(kids) >= 2 /\ {kids[k] : k \in DOMAIN kids} = N
      /\ \A k, l \in DOMAIN kids : kids[k] = kids[l] => k = l
  <2>1. kids = <<r + 1, r + 2>> /\ r + 1 \in Nat /\ r + 2 \in Nat /\ r + 1 # r + 2
    BY <1>2, <1>3, <1>4
  <2> HIDE DEF kids
  <2>2. kids \in Seq(Nat) /\ Len(kids) = 2 /\ DOMAIN kids = {1, 2}
    BY <2>1
  <2>3. kids[1] = r + 1 /\ kids[2] = r + 2
    BY <2>1
  <2>4. {kids[k] : k \in DOMAIN kids} = N
    BY <2>2, <2>3
  <2>5. \A k, l \in DOMAIN kids : kids[k] = kids[l] => k = l
    BY <2>1, <2>2, <2>3
  <2>6. kids \in Seq(Nat) /\ Len(kids) >= 2
    BY <2>2
  <2> QED
    BY <2>4, <2>5, <2>6, ZenonT(30)
<1> HIDE DEF kids
<1>7. d \in DescType /\ d.tag = "Match" /\ d.kids = kids
  <2>1. d \in Insertable
    BY <1>2, <1>5, <1>6, DescTyped, NoNameTyped, ExprIdTyped DEF Tags, StmtTags
  <2> QED
    BY <2>1 DEF D, Insertable
<1> HIDE DEF d
<1>8. f \in FrameType /\ f.scope = Here /\ f.reg = Here /\ f.entry = d
  <2>1. "match" \in FrameKinds /\ NoExpr \in Exprs
    BY ExprsAssumption DEF FrameKinds
  <2> QED
    BY <1>2, <1>7, <2>1 DEF Frame, FrameType
<1> HIDE DEF f
<1>9. d.tag \in Branching /\ d.tag \in Held
  BY <1>7 DEF Branching, Flow, Held
<1>10. KidsOf(d) = N
  <2> HIDE DEF N
  <2> QED
    BY <1>6, <1>7 DEF KidsOf
<1>11. N \subseteq (Here + 1)..I.scopes /\ N \cap Open = {}
  <2>1. Here \in 1..r
    BY <1>2
  <2>2. r + 1 \notin 1..r /\ r + 2 \notin 1..r
    BY <1>2
  <2>3. r + 1 \in (Here + 1)..I.scopes /\ r + 2 \in (Here + 1)..I.scopes
    BY <1>2, <1>5, <2>1
  <2> HIDE DEF r
  <2> QED
    BY <1>2, <2>2, <2>3
<1>12. Leads(I, d, Here)
  BY <1>6, <1>7, <1>9, <1>10, <1>11 DEF Leads
<1>13. Claims(f) = N /\ Around(f) = {Here} \cup N
  BY <1>8, <1>9, <1>10 DEF Claims, Around
<1>14. /\ Claims(f) \cap Claimed(stack) = {}
       /\ Opened(stack) \cup Around(f) \subseteq X /\ Claimed(stack) \cup Claims(f) \subseteq Y
  BY <1>2, <1>11, <1>13 DEF Open, Free
<1>15. Kept
  BY MatchKept DEF Scoping
<1> HIDE DEF X, Y, N
<1> QED
  BY <1>1, <1>5, <1>8, <1>9, <1>12, <1>14, <1>15, PushScoped

\* A step that replaces the top frame and pushes another, which claims nothing.
LEMMA SetPushScoped ==
    ASSUME Scoping, Kept, stack # <<>>, NEW f \in FrameType, NEW g \in FrameType,
           stack' = Append(SetTop(f), g),
           f.entry.tag \in Held, Leads(reg', f.entry, f.reg),
           Claims(f) \cap Claimed(Pop) = {},
           g.entry.tag \in Held, Leads(reg', g.entry, g.reg), Claims(g) = {},
           NEW X, NEW Y, TreeOK(reg', X, Y),
           Opened(Pop) \cup Around(f) \cup Around(g) \subseteq X,
           Claimed(Pop) \cup Claims(f) \subseteq Y
    PROVE  Scoped(reg', stack')
<1> DEFINE st == Append(Pop, f)
<1>1. Pop \in Seq(FrameType) /\ Apart(reg', Pop) /\ SetTop(f) = st
  BY TopScoped, ScopingFacts, ApartGrows DEF Kept
<1>2. /\ Opened(st) = Opened(Pop) \cup Around(f) /\ Claimed(st) = Claimed(Pop) \cup Claims(f)
      /\ Apart(reg', st)
  BY <1>1, PushScopes
<1>3. st \in Seq(FrameType)
  BY <1>1
<1> HIDE DEF st
<1>4. /\ Claims(g) \cap Claimed(st) = {} /\ Opened(st) \subseteq X /\ Claimed(st) \subseteq Y
      /\ Around(g) \subseteq X /\ Claims(g) \subseteq Y
  BY <1>2
<1>5. Scoped(reg', Append(st, g))
  BY <1>2, <1>3, <1>4, ScopedPush
<1> QED
  BY <1>1, <1>5

\* An arm, and its scope.
LEMMA ArmScopes == ASSUME Scoping, BeginArm PROVE Scoped(reg', stack')
<1> DEFINE s == Top.reg
           c == reg.scopes + 1
           e == Top.entry
           f == [Stepped EXCEPT !.entry.kids = Append(@, c)]
           g == Body(c)
           Open == Opened(stack)
           Free == Claimed(stack)
           X == Open \cup {c}
           Y == Free \cup {c}
<1>1. /\ stack # <<>> /\ reg' = MakeChild(reg, s) /\ reg'.scopes = c
      /\ stack' = Append(SetTop(f), g)
  BY DEF BeginArm, More, In, MakeChild
<1>2. /\ Top \in FrameType /\ e.tag \in Held /\ Leads(reg, e, s) /\ s \in Open
      /\ KidsOf(e) \subseteq Open /\ Top.scope \in Open
      /\ Open = Opened(Pop) \cup Around(Top) /\ Free = Claimed(Pop) \cup Claims(Top)
      /\ Claims(Top) \cap Claimed(Pop) = {} /\ Claimed(Pop) \subseteq Opened(Pop)
  BY <1>1, TopScoped, ClaimedOpened
<1>3. WellFormed(reg) /\ TreeOK(reg, Open, Free) /\ reg.scopes \in Nat \ {0}
  BY ScopingFacts
<1>4. /\ TreeOK(reg', X, Y) /\ c \notin Open /\ Open \subseteq 1..reg.scopes
  <2>1. /\ TreeOK(reg', Open \cup {reg'.scopes}, Free \cup {reg'.scopes})
        /\ reg'.scopes \notin Open /\ Open \subseteq 1..reg.scopes
    <3> DEFINE C == MakeChild(reg, s)
    <3> HIDE DEF Open, Free, s, c, f, g, e, X, Y
    <3>0. s \in Open
      BY <1>2
    <3>1. /\ TreeOK(C, Open \cup {C.scopes}, Free \cup {C.scopes})
          /\ C.scopes \notin Open /\ Open \subseteq 1..reg.scopes
      BY <3>0, <1>3, ChildScopes
    <3> QED
      BY <1>1, <3>1
  <2> QED
    BY <1>1, <2>1
<1>5. e.kids \in Seq(Nat) /\ s \in Nat /\ c \in Nat /\ e \in DescType
  BY <1>2, <1>3 DEF FrameType, DescType
<1>6. /\ f \in FrameType /\ f.scope = Top.scope /\ f.reg = s /\ f.entry.tag = e.tag
      /\ f.entry.kids = Append(e.kids, c)
  <2>1. Append(e.kids, c) \in Seq(Nat)
    BY <1>5
  <2>2. Top.iter + 1 \in Nat
    BY <1>2 DEF FrameType
  <2> QED
    BY <1>2, <2>1, <2>2 DEF Stepped, FrameType, DescType
<1>7. /\ KidsOf(f.entry) = KidsOf(e) \cup {c} /\ Len(f.entry.kids) = Len(e.kids) + 1
      /\ \A k, l \in DOMAIN f.entry.kids : f.entry.kids[k] = f.entry.kids[l] =>
             k = l \/ (\E m \in DOMAIN e.kids : e.kids[m] = c)
                   \/ \E m, n \in DOMAIN e.kids : m # n /\ e.kids[m] = e.kids[n]
  <2> DEFINE q == Append(e.kids, c)
  <2>1. /\ Len(q) = Len(e.kids) + 1 /\ Len(e.kids) \in Nat
        /\ DOMAIN e.kids = 1..Len(e.kids) /\ DOMAIN q = 1..(Len(e.kids) + 1)
        /\ \A k \in 1..Len(e.kids) : q[k] = e.kids[k]
        /\ q[Len(e.kids) + 1] = c
    BY <1>5
  <2>2. \A k \in DOMAIN q : k \in DOMAIN e.kids \/ k = Len(q)
    BY <2>1
  <2>3. DOMAIN e.kids \subseteq DOMAIN q /\ Len(q) \in DOMAIN q
    BY <2>1
  <2> HIDE DEF q
  <2>4. KidsOf(f.entry) = KidsOf(e) \cup {c}
    <3>1. KidsOf(f.entry) = {q[k] : k \in DOMAIN q}
      BY <1>6 DEF q, KidsOf
    <3>2. KidsOf(e) = {q[k] : k \in DOMAIN e.kids}
      BY <2>1 DEF KidsOf
    <3>3. q[Len(q)] = c
      BY <2>1
    <3> QED
      BY <2>2, <2>3, <3>1, <3>2, <3>3
  <2>5. \A k, l \in DOMAIN q : q[k] = q[l] =>
             k = l \/ (\E m \in DOMAIN e.kids : e.kids[m] = c)
                   \/ \E m, n \in DOMAIN e.kids : m # n /\ e.kids[m] = e.kids[n]
    <3>1. \A k \in DOMAIN e.kids : q[k] = e.kids[k]
      BY <2>1
    <3>2. q[Len(q)] = c
      BY <2>1
    <3> QED
      BY <2>2, <3>1, <3>2
  <2>6. f.entry.kids = q
    BY <1>6 DEF q
  <2> QED
    BY <2>1, <2>4, <2>5, <2>6
<1> HIDE DEF f, e, c, s
<1>8. Leads(reg', f.entry, f.reg)
  <2>1. CASE e.tag \in Branching
    <3>1. e.tag \notin {"Function", "Return", "ExprStmt", "Atomic"}
      BY <1>2, <2>1 DEF Held
    <3>2. /\ KidsOf(e) \subseteq (s + 1)..reg.scopes /\ Len(e.kids) >= 2
          /\ \A k, l \in DOMAIN e.kids : e.kids[k] = e.kids[l] => k = l
      BY <1>2, <2>1, <3>1 DEF Leads
    <3>3. (s + 1)..reg.scopes \cup {c} \subseteq (s + 1)..reg'.scopes
      <4>1. s \in 1..reg.scopes
        BY <1>2, <1>4
      <4> QED
        BY <1>1, <1>3, <4>1 DEF c
    <3>4. Len(f.entry.kids) >= 2
      BY <1>5, <1>7, <3>2
    <3>5. \A m \in DOMAIN e.kids : e.kids[m] # c
      BY <1>2, <1>4 DEF KidsOf
    <3>6. KidsOf(f.entry) \subseteq (s + 1)..reg'.scopes
      BY <1>7, <3>2, <3>3
    <3>7. \A k, l \in DOMAIN f.entry.kids : f.entry.kids[k] = f.entry.kids[l] => k = l
      BY <1>7, <3>2, <3>5
    <3> QED
      BY <1>6, <3>1, <3>4, <3>6, <3>7 DEF Leads
  <2>2. CASE e.tag \notin Branching
    BY <1>6, <2>2 DEF Leads
  <2> QED
    BY <2>1, <2>2
<1>9. Claims(f) \subseteq Claims(Top) \cup {c} /\ Around(f) \subseteq Around(Top) \cup {c}
  BY <1>6, <1>7 DEF Claims, Around, e, s
<1>10. /\ g \in FrameType /\ Claims(g) = {} /\ g.entry.tag \in Held /\ Around(g) = {c}
       /\ Leads(reg', g.entry, g.reg)
  BY <1>5, BodyScopes
<1> HIDE DEF g
<1>11. /\ Claims(f) \cap Claimed(Pop) = {}
       /\ Opened(Pop) \cup Around(f) \cup Around(g) \subseteq X
       /\ Claimed(Pop) \cup Claims(f) \subseteq Y
  BY <1>2, <1>4, <1>9, <1>10
<1>12. Kept
  BY ArmKept DEF Scoping
<1>13. f.entry.tag \in Held
  BY <1>2, <1>6
<1> HIDE DEF X, Y
<1> QED
  BY <1>1, <1>4, <1>6, <1>8, <1>10, <1>11, <1>12, <1>13, SetPushScoped

\* make_child, and the entry that leads to the child.
LEMMA CallableTree ==
    ASSUME NEW R, WellFormed(R), NEW Open, NEW Free, TreeOK(R, Open, Free),
           NEW s \in Open, NEW n \in NameOpt, NEW p \in Nat
    PROVE  LET Q == BeginCallable(R, s, n, p) IN
           /\ TreeOK(Q, Open \cup {Q.scopes}, Free) /\ Q.scopes \in Nat
<1> DEFINE C == MakeChild(R, s)
           c == C.scopes
           d == D("Function", n, p, <<c>>, 0)
           F == RegisterInsert(C, s, d)
           Q == SetOwner(F, c, LastId(F))
           m == C.next
           X == Open \cup {c}
           Y == Free \cup {c}
<1>1. /\ WellFormed(C) /\ c = R.scopes + 1 /\ c \in Nat /\ c \in 1..c /\ c \notin Open
      /\ s \in 1..c /\ 1 \in Open /\ Free \subseteq Open /\ Open \subseteq 1..R.scopes
      /\ TreeOK(C, X, Y)
  BY ChildScopes
<1>2. R.scopes \in Nat /\ s \in Nat /\ s \in 1..R.scopes
  BY <1>1, Sizes
<1> HIDE DEF C
<1>3. d \in Insertable /\ d.tag = "Function" /\ d.kids = <<c>>
  <2>1. d \in Insertable
    BY <1>1, DescTyped, KidsTyped DEF Tags, StmtTags
  <2> QED
    BY <2>1 DEF D
<1> HIDE DEF d
<1>4. /\ F.flat[m].tag = "Function" /\ F.scopes = c
  BY <1>1, <1>3, InsertFields
<1>5. Q.scopes = c /\ Q = BeginCallable(R, s, n, p)
  BY <1>4 DEF SetOwner, BeginCallable, C, d
<1> HIDE DEF F
<1>6. Fits(F, m) /\ \A u : ~Seals(F, m, u)
  BY <1>4 DEF Fits, Seals, Declared, ScopedCalls
<1>7. KidsOf(d) = {c} /\ Len(d.kids) = 1 /\ DOMAIN d.kids = {1}
  BY <1>3 DEF KidsOf
<1>8. Leads(C, d, s)
  <2>1. c \in (s + 1)..c
    BY <1>1, <1>2
  <2>2. KidsOf(d) \subseteq (s + 1)..c
    BY <1>7, <2>1
  <2>3. \A k, l \in DOMAIN d.kids : d.kids[k] = d.kids[l] => k = l
    BY <1>7
  <2> QED
    BY <1>3, <1>7, <2>2, <2>3 DEF Leads
<1>9. /\ s \in X /\ 1 \in X /\ Free \subseteq Y /\ Free \subseteq X
      /\ KidsOf(d) \subseteq Y \ Free /\ X \subseteq X
  BY <1>1, <1>7
<1> HIDE DEF X, Y, m
<1>10. TreeOK(F, X, Free)
  BY <1>1, <1>3, <1>6, <1>8, <1>9, InsertTree DEF F, m
<1>11. TreeOK(Q, X, Free)
  BY <1>10, OwnerTree
<1> QED
  BY <1>1, <1>5, <1>11 DEF X

\* register_function, up to its parameters.
LEMMA FunctionScopes ==
    ASSUME Scoping, NEW n \in Name, NEW dflt \in Exprs, RegisterFunction(n, dflt)
    PROVE  Scoped(reg', stack')
<1> DEFINE d == D("none", NoName, Pos, <<>>, 0)
           f == Frame("params", reg'.scopes, Here, d, dflt)
           Open == Opened(stack)
           Free == Claimed(stack)
           X == Open \cup {reg'.scopes}
<1>1. Stmt("Function") /\ reg' = BeginCallable(reg, Here, n, Pos) /\ stack' = Append(stack, f)
  BY DEF RegisterFunction, Push
<1>2. /\ WellFormed(reg) /\ TreeOK(reg, Open, Free) /\ Here \in Open /\ Pos \in Nat
      /\ Here \in Nat /\ n \in NameOpt
  BY <1>1, StmtScopes DEF NameOpt
<1>3. TreeOK(reg', X, Free) /\ reg'.scopes \in Nat
  <2> DEFINE Q == BeginCallable(reg, Here, n, Pos)
  <2> HIDE DEF Open, Free, X
  <2>1. TreeOK(Q, Open \cup {Q.scopes}, Free) /\ Q.scopes \in Nat
    BY <1>2, CallableTree
  <2> HIDE DEF Q
  <2>2. reg' = Q
    BY <1>1 DEF Q
  <2> QED
    BY <2>1, <2>2 DEF X
<1>4. d \in DescType /\ d.tag = "none" /\ KidsOf(d) = {}
  <2>1. d \in DescType
    BY <1>2, NoEntryTyped
  <2> QED
    BY <2>1 DEF D, KidsOf
<1> HIDE DEF d
<1>5. f \in FrameType /\ f.scope = reg'.scopes /\ f.reg = Here /\ f.entry = d
  <2>1. "params" \in FrameKinds
    BY DEF FrameKinds
  <2> QED
    BY <1>2, <1>3, <1>4, <2>1 DEF Frame, FrameType
<1> HIDE DEF f
<1>6. Claims(f) = {} /\ f.entry.tag \in Held /\ Leads(reg', f.entry, f.reg)
  <2>1. f.entry.tag \in Held \ {"If", "Elif", "Match"}
    BY <1>4, <1>5 DEF Held
  <2> QED
    BY <2>1, EmptyHanded
<1>7. /\ Claims(f) \cap Claimed(stack) = {}
      /\ Opened(stack) \cup Around(f) \subseteq X /\ Claimed(stack) \cup Claims(f) \subseteq Free
  BY <1>2, <1>4, <1>5, <1>6 DEF Around
<1>8. Kept
  BY FunctionKept DEF Scoping
<1> HIDE DEF X, Open, Free
<1> QED
  BY <1>1, <1>3, <1>5, <1>6, <1>7, <1>8, PushScoped

\* A frame of the scopes Here, whose entry leads nowhere.
LEMMA HereFrame ==
    ASSUME Scoping, Here \in Opened(stack), Here \in Nat, NEW kind \in FrameKinds,
           NEW d \in DescType, d.tag \in Held \ {"If", "Elif", "Match"}, KidsOf(d) = {}
    PROVE  LET f == Frame(kind, Here, Here, d, NoExpr) IN
           /\ f \in FrameType /\ Claims(f) = {} /\ f.entry.tag \in Held
           /\ Opened(stack) \cup Around(f) \subseteq Opened(stack)
           /\ \A R : Leads(R, f.entry, f.reg)
<1> DEFINE f == Frame(kind, Here, Here, d, NoExpr)
<1>1. f \in FrameType /\ f.entry = d /\ f.scope = Here /\ f.reg = Here
  BY ExprsAssumption DEF Frame, FrameType
<1> HIDE DEF f
<1>2. Claims(f) = {} /\ f.entry.tag \in Held /\ \A R, s : Leads(R, f.entry, s)
  BY <1>1, EmptyHanded
<1>3. Around(f) = {Here}
  BY <1>1 DEF Around
<1> QED
  BY <1>1, <1>2, <1>3 DEF f

\* register_class, up to its methods.
LEMMA ClassScopes ==
    ASSUME Scoping, NEW n \in Name, RegisterClass(n) PROVE Scoped(reg', stack')
<1> DEFINE e == D("Class", n, Pos, <<>>, 0)
           d == D("none", NoName, Pos, <<>>, 0)
           f == Frame("class", Here, Here, d, NoExpr)
           Open == Opened(stack)
           Free == Claimed(stack)
<1>1. Stmt("Class") /\ reg' = RegisterInsert(reg, Here, e) /\ stack' = Append(stack, f)
  BY DEF RegisterClass, Push
<1>2. /\ WellFormed(reg) /\ TreeOK(reg, Open, Free) /\ Here \in Open /\ Pos \in Nat
      /\ Here \in Nat
  BY <1>1, StmtScopes
<1>3. e \in Insertable /\ Plain(e)
  BY <1>2, DescTyped, KidsTyped
     DEF Tags, StmtTags, NameOpt, D, Plain, Holders, Branching, Flow, ScopedCalls, Declared
<1> HIDE DEF e
<1>4. TreeOK(reg', Open, Free)
  BY <1>1, <1>2, <1>3, PlainTree
<1>5. d \in DescType /\ d.tag \in Held \ {"If", "Elif", "Match"} /\ KidsOf(d) = {}
  <2>1. d \in DescType
    BY <1>2, NoEntryTyped
  <2> QED
    BY <2>1 DEF D, KidsOf, Held
<1> HIDE DEF d
<1>6. /\ f \in FrameType /\ Claims(f) = {} /\ f.entry.tag \in Held
      /\ Open \cup Around(f) \subseteq Open /\ Leads(reg', f.entry, f.reg)
  <2>1. "class" \in FrameKinds
    BY DEF FrameKinds
  <2> QED
    BY <1>2, <1>5, <2>1, HereFrame
<1> HIDE DEF f
<1>7. Kept
  BY ClassKept DEF Scoping
<1>8. Claims(f) \cap Claimed(stack) = {} /\ Claimed(stack) \cup Claims(f) \subseteq Free
  BY <1>6
<1> QED
  BY <1>1, <1>4, <1>6, <1>7, <1>8, PushScoped

\* register_trait, up to its methods.
LEMMA TraitScopes ==
    ASSUME Scoping, NEW n \in Name, RegisterTrait(n) PROVE Scoped(reg', stack')
<1> DEFINE d == D("Trait", n, Pos, <<>>, 0)
           f == Frame("trait", Here, Here, d, NoExpr)
           Open == Opened(stack)
           Free == Claimed(stack)
<1>1. Stmt("Trait") /\ reg' = reg /\ stack' = Append(stack, f)
  BY DEF RegisterTrait, Push
<1>2. TreeOK(reg', Open, Free) /\ Here \in Open /\ Pos \in Nat /\ Here \in Nat
  BY <1>1, StmtScopes
<1>3. d \in DescType /\ d.tag \in Held \ {"If", "Elif", "Match"} /\ KidsOf(d) = {}
  <2>1. d \in Insertable
    BY <1>2, DescTyped, KidsTyped DEF Tags, StmtTags, NameOpt
  <2> QED
    BY <2>1 DEF Insertable, D, KidsOf, Held
<1> HIDE DEF d
<1>4. /\ f \in FrameType /\ Claims(f) = {} /\ f.entry.tag \in Held
      /\ Open \cup Around(f) \subseteq Open /\ Leads(reg', f.entry, f.reg)
  <2>1. "trait" \in FrameKinds
    BY DEF FrameKinds
  <2> QED
    BY <1>2, <1>3, <2>1, HereFrame
<1> HIDE DEF f
<1>5. Kept
  BY TraitKept DEF Scoping
<1>6. Claims(f) \cap Claimed(stack) = {} /\ Claimed(stack) \cup Claims(f) \subseteq Free
  BY <1>4
<1> QED
  BY <1>1, <1>2, <1>4, <1>5, <1>6, PushScoped

\* One iteration of the top handler's loop, the frame as before but counted.
LEMMA SteppedSame ==
    ASSUME Scoping, stack # <<>>
    PROVE  /\ Stepped \in FrameType /\ Stepped.scope = Top.scope /\ Stepped.reg = Top.reg
           /\ Stepped.entry = Top.entry
           /\ Claims(Stepped) = Claims(Top) /\ Around(Stepped) = Around(Top)
<1>1. Top \in FrameType
  BY TopScoped
<1>2. /\ Stepped \in FrameType /\ Stepped.scope = Top.scope /\ Stepped.reg = Top.reg
      /\ Stepped.entry = Top.entry
  BY <1>1 DEF Stepped, FrameType
<1> QED
  BY <1>2 DEF Claims, Around

\* The loop of a handler goes on, its frame but counted.
LEMMA IterScoped ==
    ASSUME Scoping, Kept, stack # <<>>, stack' = SetTop(Stepped), NEW X, NEW Y,
           TreeOK(reg', X, Y), Opened(stack) \subseteq X, Claimed(stack) \subseteq Y
    PROVE  Scoped(reg', stack')
<1>1. /\ stack' \in Seq(FrameType) /\ Apart(reg, stack')
      /\ Opened(stack') = Opened(stack) /\ Claimed(stack') = Claimed(stack)
  BY SteppedSame, SameTop
<1>2. Apart(reg', stack')
  BY <1>1, ScopingFacts, ApartGrows DEF Kept
<1> QED
  BY <1>1, <1>2, ScopedLess

\* One iteration over the methods of a class or a trait.
LEMMA MethodsScopes ==
    ASSUME Scoping, Kept, stack # <<>>, NEW n \in Name,
           reg' = BeginCallable(reg, Top.reg, n, Top.entry.pos), NEW kind \in FrameKinds,
           NEW d \in DescType, d.tag = "none", KidsOf(d) \subseteq Opened(stack), NEW x \in Exprs,
           stack' = Append(SetTop(Stepped), Frame(kind, reg'.scopes, Top.reg, d, x))
    PROVE  Scoped(reg', stack')
<1> DEFINE s == Top.reg
           f == Stepped
           g == Frame(kind, reg'.scopes, s, d, x)
           Open == Opened(stack)
           Free == Claimed(stack)
           X == Open \cup {reg'.scopes}
           Q == BeginCallable(reg, s, n, Top.entry.pos)
<1>1. /\ Top \in FrameType /\ Top.entry.tag \in Held /\ Leads(reg, Top.entry, s) /\ s \in Open
      /\ Open = Opened(Pop) \cup Around(Top) /\ Free = Claimed(Pop) \cup Claims(Top)
      /\ Claims(Top) \cap Claimed(Pop) = {}
  BY TopScoped
<1>2. WellFormed(reg) /\ TreeOK(reg, Open, Free) /\ reg.scopes \in Nat
  BY ScopingFacts
<1>3. n \in NameOpt /\ Top.entry.pos \in Nat /\ s \in Nat
  BY <1>1 DEF NameOpt, FrameType, DescType
<1>4. TreeOK(reg', X, Free) /\ reg'.scopes \in Nat
  <2> HIDE DEF Open, Free, X, s
  <2>1. TreeOK(Q, Open \cup {Q.scopes}, Free) /\ Q.scopes \in Nat
    BY <1>1, <1>2, <1>3, CallableTree
  <2>2. reg' = Q
    BY DEF s
  <2> HIDE DEF Q
  <2> QED
    BY <2>1, <2>2 DEF X
<1>5. /\ f \in FrameType /\ f.reg = s /\ f.entry = Top.entry
      /\ Claims(f) = Claims(Top) /\ Around(f) = Around(Top)
  BY SteppedSame
<1>6. g \in FrameType /\ g.scope = reg'.scopes /\ g.reg = s /\ g.entry = d
  BY <1>3, <1>4 DEF Frame, FrameType
<1>7. stack' = Append(SetTop(f), g)
  OBVIOUS
<1> HIDE DEF f, g
<1>8. Claims(g) = {} /\ g.entry.tag \in Held /\ Leads(reg', g.entry, g.reg)
  <2>1. g.entry.tag \in Held \ {"If", "Elif", "Match"}
    BY <1>6 DEF Held
  <2> QED
    BY <2>1, EmptyHanded
<1>9. Leads(reg', f.entry, f.reg)
  <2>1. reg'.scopes >= reg.scopes
    BY <1>2, GrowsSizes DEF Kept
  <2> QED
    BY <1>1, <1>2, <1>3, <1>4, <1>5, <2>1, LeadsGrows
<1>10. /\ f.entry.tag \in Held /\ Claims(f) \cap Claimed(Pop) = {}
       /\ Opened(Pop) \cup Around(f) \cup Around(g) \subseteq X
       /\ Claimed(Pop) \cup Claims(f) \subseteq Free
  BY <1>1, <1>5, <1>6 DEF Around
<1> HIDE DEF X, Free
<1> QED
  BY <1>4, <1>5, <1>6, <1>7, <1>8, <1>9, <1>10, SetPushScoped

\* A method of a class.
LEMMA MethodScopes ==
    ASSUME Scoping, Top.kind = "class" => Top.entry.tag = "none",
           NEW n \in Name, NEW dflt \in Exprs, RegisterMethod(n, dflt)
    PROVE  Scoped(reg', stack')
<1>1. /\ stack # <<>> /\ Top.kind = "class" /\ reg' = BeginCallable(reg, Top.reg, n, Top.entry.pos)
      /\ stack' = Append(SetTop(Stepped), Frame("method", reg'.scopes, Top.reg, Top.entry, dflt))
  BY DEF RegisterMethod, More, In
<1>2. /\ Top.entry \in DescType /\ Top.entry.tag = "none" /\ KidsOf(Top.entry) \subseteq Opened(stack)
      /\ "method" \in FrameKinds /\ Kept
  BY <1>1, TopScoped, MethodKept DEF FrameType, FrameKinds, Scoping
<1> QED
  BY <1>1, <1>2, MethodsScopes

\* A method of a trait.
LEMMA TraitMethodScopes ==
    ASSUME Scoping, NEW n \in Name, NEW dflt \in Exprs, RegisterTraitMethod(n, dflt)
    PROVE  Scoped(reg', stack')
<1> DEFINE d == D("none", NoName, Top.entry.pos, <<>>, 0)
<1>1. /\ stack # <<>> /\ reg' = BeginCallable(reg, Top.reg, n, Top.entry.pos)
      /\ stack' = Append(SetTop(Stepped), Frame("signature", reg'.scopes, Top.reg, d, dflt))
  BY DEF RegisterTraitMethod, More, In
<1>2. "signature" \in FrameKinds /\ Kept
  BY TraitMethodKept DEF FrameKinds, Scoping
<1>3. d \in DescType /\ d.tag = "none" /\ KidsOf(d) \subseteq Opened(stack)
  <2>1. Top.entry.pos \in Nat
    BY <1>1, TopFacts DEF Scoping
  <2>2. d \in DescType
    BY <2>1, NoEntryTyped
  <2>3. KidsOf(d) = {}
    BY DEF D, KidsOf
  <2> QED
    BY <2>2, <2>3 DEF D
<1> HIDE DEF d
<1> QED
  BY <1>1, <1>2, <1>3, MethodsScopes

\* A parameter, however it is inserted.
LEMMA ParamTree ==
    ASSUME NEW R, WellFormed(R), NEW Open, NEW Free, TreeOK(R, Open, Free),
           NEW s \in Open, NEW n \in NameOpt, NEW p \in Nat
    PROVE  LET d == D("Param", n, p, <<>>, 0) IN
           /\ d \in Insertable /\ s \in 1..R.scopes
           /\ TreeOK(RegisterInsert(R, s, d), Open, Free)
           /\ TreeOK(RegisterInsertChild(R, s, d), Open, Free)
<1> DEFINE d == D("Param", n, p, <<>>, 0)
           Q == RegisterInsertChild(R, s, d)
           m == R.next
<1>1. d \in Insertable /\ d.tag = "Param"
  <2>1. d \in Insertable
    BY DescTyped, KidsTyped DEF Tags, OtherTags
  <2> QED
    BY <2>1 DEF D
<1> HIDE DEF d
<1>2. /\ s \in 1..R.scopes /\ 1 \in Open /\ Free \subseteq Open
      /\ R.next \in Nat \ {0} /\ RegisterOK(R)
  BY Sizes DEF TreeOK, Unsealed
<1>3. d.tag \notin Branching \cup Holders
  BY <1>1 DEF Branching, Flow, Holders, Declared, ScopedCalls
<1>4. TreeOK(RegisterInsert(R, s, d), Open, Free)
  BY <1>1, <1>3, PlainTree DEF Plain
<1>5. 0 \in 0..(m - 1) /\ Q = Store(R, s, d, 0)
  BY <1>2 DEF RegisterInsertChild
<1>6. Q.flat[m].tag = "Param"
  <2> HIDE DEF Q
  <2>1. Q.flat[m] = Entry(d, s, 0)
    BY <1>1, <1>2, <1>5, StoreFields
  <2> QED
    BY <1>1, <2>1 DEF Entry
<1> HIDE DEF Q
<1>7. Fits(Q, m) /\ (\A t : ~Seals(Q, m, t)) /\ Leads(R, d, s)
  BY <1>3, <1>6 DEF Fits, Seals, Leads, Declared, ScopedCalls
<1> HIDE DEF m
<1>8. TreeOK(Q, Open, Free)
  BY <1>1, <1>2, <1>3, <1>5, <1>7, StoreTree DEF m
<1> QED
  BY <1>1, <1>2, <1>4, <1>8 DEF d, Q

\* A parameter.
LEMMA ParamScopes ==
    ASSUME Scoping, NEW n \in Name, RegisterParam(n) PROVE Scoped(reg', stack')
<1> DEFINE s == Top.scope
           p == Top.entry.pos
           d == D("Param", n, p, <<>>, 0)
           I == RegisterInsert(reg, s, d)
           Open == Opened(stack)
           Free == Claimed(stack)
<1>1. /\ stack # <<>> /\ stack' = SetTop(Stepped)
      /\ \/ reg' = RegisterInsertChild(reg, s, d)
         \/ reg' = I
         \/ reg' = RegisterExpr(I, s, Top.dflt, p)
  BY DEF RegisterParam, More, In
<1>2. /\ s \in Open /\ p \in Nat /\ Top.dflt \in Exprs /\ n \in NameOpt
      /\ WellFormed(reg) /\ TreeOK(reg, Open, Free)
  BY <1>1, TopScoped, ScopingFacts DEF FrameType, DescType, NameOpt
<1>3. Kept
  BY ParamKept DEF Scoping
<1>4. /\ d \in Insertable /\ s \in 1..reg.scopes /\ TreeOK(I, Open, Free)
      /\ TreeOK(RegisterInsertChild(reg, s, d), Open, Free)
  <2> HIDE DEF Open, Free, s, p
  <2> QED
    BY <1>2, ParamTree
<1> HIDE DEF d, Open, Free
<1>5. WellFormed(I) /\ I.scopes = reg.scopes
  BY <1>2, <1>4, InsertFields
<1> HIDE DEF I
<1>6. TreeOK(RegisterExpr(I, s, Top.dflt, p), Open, Free)
  BY <1>2, <1>4, <1>5, ExprTree
<1>7. TreeOK(reg', Open, Free)
  BY <1>1, <1>4, <1>6
<1> QED
  BY <1>1, <1>3, <1>7, IterScoped DEF Open, Free

\* The parameters are registered: the body is next.
LEMMA EnterBodyScopes == ASSUME Scoping, EnterBody PROVE Scoped(reg', stack')
<1> DEFINE s == Top.scope
           f == Body(s)
           Open == Opened(stack)
           Free == Claimed(stack)
<1>1. /\ stack # <<>> /\ stack' = SetTop(f)
      /\ reg' = reg \/ reg' = RegisterExpr(reg, s, Top.dflt, Top.entry.pos)
  BY DEF EnterBody, In
<1>2. /\ s \in Open /\ Top.entry.pos \in Nat /\ Top.dflt \in Exprs /\ s \in Nat
      /\ WellFormed(reg) /\ TreeOK(reg, Open, Free)
      /\ Opened(Pop) \subseteq Open /\ Claimed(Pop) \subseteq Free
  BY <1>1, TopScoped, ScopingFacts DEF FrameType, DescType
<1>3. Kept
  BY EnterBodyKept DEF Scoping
<1> HIDE DEF Open, Free
<1>4. TreeOK(reg', Open, Free)
  BY <1>1, <1>2, ExprTree
<1>5. /\ f \in FrameType /\ Claims(f) = {} /\ f.entry.tag \in Held /\ Around(f) = {s}
      /\ Leads(reg', f.entry, f.reg)
  BY <1>2, BodyScopes
<1> HIDE DEF f
<1>6. /\ Claims(f) \cap Claimed(Pop) = {} /\ Opened(Pop) \cup Around(f) \subseteq Open
      /\ Claimed(Pop) \cup Claims(f) \subseteq Free
  BY <1>2, <1>5
<1> QED
  BY <1>1, <1>3, <1>4, <1>5, <1>6, SetScoped

\* enum, extern and module: their statements or variants go to a child.
LEMMA BlockScopes ==
    ASSUME Scoping, Kept, NEW t \in {"Enum", "Extern", "Module"}, Stmt(t),
           reg' = MakeChild(reg, Here), NEW n \in Name, NEW kids \in Seq(Nat),
           kids = <<>> \/ kids = <<reg'.scopes>>, NEW kind \in FrameKinds,
           stack' = Push(Frame(kind, reg'.scopes, Here, D(t, n, Pos, kids, 0), NoExpr))
    PROVE  Scoped(reg', stack')
<1> DEFINE c == reg'.scopes
           d == D(t, n, Pos, kids, 0)
           f == Frame(kind, c, Here, d, NoExpr)
           Open == Opened(stack)
           Free == Claimed(stack)
           X == Open \cup {c}
           Y == Free \cup {c}
<1>1. /\ WellFormed(reg) /\ TreeOK(reg, Open, Free) /\ Here \in Open /\ Pos \in Nat
      /\ Here \in Nat /\ t \in Tags /\ n \in NameOpt
  BY StmtScopes DEF NameOpt
<1>2. TreeOK(reg', X, Y) /\ c \in Nat
  <2> DEFINE C == MakeChild(reg, Here)
  <2> HIDE DEF Open, Free, X, Y, c
  <2>1. TreeOK(C, Open \cup {C.scopes}, Free \cup {C.scopes}) /\ C.scopes \in Nat
    BY <1>1, ChildScopes
  <2> QED
    BY <2>1 DEF X, Y, c
<1>3. d \in DescType /\ d.tag = t /\ d.kids = kids
  <2>1. d \in Insertable
    BY <1>1, DescTyped
  <2> QED
    BY <2>1 DEF Insertable, D
<1>4. stack' = Append(stack, f)
  BY DEF Push
<1> HIDE DEF d
<1>5. f \in FrameType /\ f.scope = c /\ f.reg = Here /\ f.entry = d
  BY <1>1, <1>2, <1>3, ExprsAssumption DEF Frame, FrameType
<1> HIDE DEF f
<1>6. Claims(f) = {} /\ f.entry.tag \in Held /\ Leads(reg', f.entry, f.reg)
  <2>1. f.entry.tag \in Held \ {"If", "Elif", "Match"}
    BY <1>3, <1>5 DEF Held
  <2> QED
    BY <2>1, EmptyHanded
<1>7. KidsOf(d) \subseteq {c}
  BY <1>3 DEF KidsOf
<1>8. /\ Claims(f) \cap Claimed(stack) = {}
      /\ Opened(stack) \cup Around(f) \subseteq X /\ Claimed(stack) \cup Claims(f) \subseteq Y
  BY <1>1, <1>5, <1>6, <1>7 DEF Around
<1> HIDE DEF X, Y, c
<1> QED
  BY <1>2, <1>4, <1>5, <1>6, <1>8, PushScoped

\* register_enum, register_extern and register_module, up to what is in them.
LEMMA BlocksScope ==
    ASSUME Scoping, NEW n \in Name,
           RegisterEnum(n) \/ RegisterExtern(n) \/ RegisterModule(n)
    PROVE  Scoped(reg', stack')
<1>1. reg.scopes \in Nat
  BY ScopingFacts
<1>2. ASSUME reg' = MakeChild(reg, Here) PROVE <<reg'.scopes>> \in Seq(Nat)
  BY <1>1, <1>2, KidsTyped DEF MakeChild
<1>3. Kept
  BY BlocksKept DEF Scoping
<1>4. CASE RegisterEnum(n)
  BY <1>2, <1>3, <1>4, BlockScopes DEF RegisterEnum, FrameKinds
<1>5. CASE RegisterExtern(n)
  BY <1>2, <1>3, <1>5, BlockScopes DEF RegisterExtern, FrameKinds
<1>6. CASE RegisterModule(n)
  BY <1>3, <1>6, KidsTyped, BlockScopes DEF RegisterModule, FrameKinds, StmtLoops
<1> QED
  BY <1>4, <1>5, <1>6

\* A variant of an enum.
LEMMA VariantScopes ==
    ASSUME Scoping, NEW n \in Name, NEW f \in NameOpt, RegisterVariant(n, f)
    PROVE  Scoped(reg', stack')
<1> DEFINE C == MakeChild(reg, Top.scope)
           c == C.scopes
           p == Top.entry.pos
           a == D("Param", f, p, <<>>, 0)
           F == IF f = NoName THEN C ELSE RegisterInsert(C, c, a)
           d == D("EnumVariant", n, p, <<c>>, 0)
           Open == Opened(stack)
           Free == Claimed(stack)
           X == Open \cup {c}
           Y == Free \cup {c}
<1>1. stack # <<>> /\ reg' = RegisterInsert(F, Top.reg, d) /\ stack' = SetTop(Stepped)
  BY DEF RegisterVariant, More, In
<1>2. /\ Top.scope \in Open /\ Top.reg \in Open /\ p \in Nat
      /\ WellFormed(reg) /\ TreeOK(reg, Open, Free)
  BY <1>1, TopScoped, ScopingFacts DEF FrameType, DescType
<1> HIDE DEF Open, Free
<1>3. WellFormed(C) /\ c \in Nat /\ c \in 1..c /\ TreeOK(C, X, Y)
  BY <1>2, ChildScopes
<1>4. c \in X /\ Top.reg \in X /\ Open \subseteq X /\ Free \subseteq Y
  BY <1>2
<1> HIDE DEF C, X, Y
<1>5. d \in Insertable /\ Plain(d)
  <2>1. d \in Insertable
    BY <1>2, <1>3, DescTyped, KidsTyped DEF Tags, OtherTags, NameOpt
  <2> QED
    BY <2>1 DEF D, Plain, Holders, Branching, Flow, ScopedCalls, Declared
<1> HIDE DEF d
<1>6. TreeOK(F, X, Y) /\ WellFormed(F)
  <2> DEFINE I == RegisterInsert(C, c, a)
  <2>1. a \in Insertable /\ TreeOK(I, X, Y)
    BY <1>2, <1>3, <1>4, ParamTree
  <2> HIDE DEF a
  <2>2. WellFormed(I)
    BY <1>3, <2>1, InsertFields
  <2> QED
    BY <1>3, <2>1, <2>2
<1> HIDE DEF F
<1>7. TreeOK(reg', X, Y)
  BY <1>1, <1>4, <1>5, <1>6, PlainTree
<1>8. Kept
  BY VariantKept DEF Scoping
<1> QED
  BY <1>1, <1>4, <1>7, <1>8, IterScoped DEF Open, Free

\* A function of an extern block.
LEMMA ExternFuncScopes ==
    ASSUME Scoping, NEW n \in Name, NEW f \in NameOpt, RegisterExternFunc(n, f)
    PROVE  Scoped(reg', stack')
<1> DEFINE s == Top.scope
           p == Top.entry.pos
           a == D("Param", f, p, <<>>, 0)
           F == IF f = NoName THEN reg ELSE RegisterInsert(reg, s, a)
           d == D("ExternFunc", n, p, <<>>, 0)
           Open == Opened(stack)
           Free == Claimed(stack)
<1>1. stack # <<>> /\ reg' = RegisterInsert(F, s, d) /\ stack' = SetTop(Stepped)
  BY DEF RegisterExternFunc, More, In
<1>2. s \in Open /\ p \in Nat /\ WellFormed(reg) /\ TreeOK(reg, Open, Free)
  BY <1>1, TopScoped, ScopingFacts DEF FrameType, DescType
<1> HIDE DEF Open, Free
<1>3. d \in Insertable /\ Plain(d)
  <2>1. d \in Insertable
    BY <1>2, DescTyped, KidsTyped DEF Tags, OtherTags, NameOpt
  <2> QED
    BY <2>1 DEF D, Plain, Holders, Branching, Flow, ScopedCalls, Declared
<1> HIDE DEF d
<1>4. TreeOK(F, Open, Free) /\ WellFormed(F)
  <2> DEFINE I == RegisterInsert(reg, s, a)
  <2>1. a \in Insertable /\ s \in 1..reg.scopes /\ TreeOK(I, Open, Free)
    BY <1>2, ParamTree
  <2> HIDE DEF a
  <2>2. WellFormed(I)
    BY <1>2, <2>1, InsertFields
  <2> QED
    BY <1>2, <2>1, <2>2
<1> HIDE DEF F
<1>5. TreeOK(reg', Open, Free)
  BY <1>1, <1>2, <1>3, <1>4, PlainTree
<1>6. Kept
  BY ExternFuncKept DEF Scoping
<1> QED
  BY <1>1, <1>5, <1>6, IterScoped DEF Open, Free

\* Every action that registers one statement.
LEMMA LeafStepScopes == ASSUME Scoping, Leaf PROVE Scoped(reg', stack')
<1>1. ASSUME NEW n \in Name, RegisterStruct(n) PROVE Scoped(reg', stack')
  BY <1>1, StructScopes
<1>2. ASSUME NEW n \in Name, NEW x \in Exprs, NEW ty \in NameOpt, NEW fits \in BOOLEAN,
             RegisterVar(n, x, ty, fits)
      PROVE  Scoped(reg', stack')
  BY <1>2, VarScopes
<1>3. ASSUME NEW n \in Name, NEW x \in Exprs, RegisterLet(n, x) \/ RegisterConst(n, x)
      PROVE  Scoped(reg', stack')
  BY <1>3, BindingScopes DEF RegisterLet, RegisterConst
<1>4. ASSUME NEW x \in Exprs, RegisterReturn(x) PROVE Scoped(reg', stack')
  BY <1>4, InPlaceScopes DEF RegisterReturn
<1>5. ASSUME NEW x \in Exprs, RegisterAtomic(x) PROVE Scoped(reg', stack')
  BY <1>5, AtomicScopes
<1>6. ASSUME NEW x \in Conds, RegisterExprStmt(x) PROVE Scoped(reg', stack')
  BY <1>6, InPlaceScopes DEF RegisterExprStmt, Conds
<1> QED
  BY <1>1, <1>2, <1>3, <1>4, <1>5, <1>6 DEF Leaf

\* Every action of branches, loops and matches.
LEMMA BranchStepScopes == ASSUME Scoping, Branch PROVE Scoped(reg', stack')
<1>1. ASSUME NEW x \in Conds, NEW pat \in Patterns, NEW hasElse \in BOOLEAN,
             RegisterIf(x, pat, hasElse) \/ RegisterElif(x, pat, hasElse)
      PROVE  Scoped(reg', stack')
  BY <1>1, IfScopes, ElifScopes DEF Conds
<1>2. CASE SkipElse
  BY <1>2, SkipElseScopes
<1>3. CASE EndIf
  BY <1>3, FinishScopes DEF EndIf, In, Inserting
<1>4. ASSUME NEW x \in Conds, RegisterWhile(x) \/ RegisterFor(x) PROVE Scoped(reg', stack')
  BY <1>4, LoopScopes DEF RegisterWhile, RegisterFor, Conds
<1>5. ASSUME NEW x \in Conds, RegisterMatch(x) PROVE Scoped(reg', stack')
  BY <1>5, MatchScopes DEF Conds
<1>6. CASE BeginArm
  BY <1>6, ArmScopes
<1>7. CASE EndMatch
  BY <1>7, FinishScopes DEF EndMatch, In, Inserting
<1>8. CASE EndBody
  BY <1>8, EndScopes DEF EndBody, In
<1> QED
  BY <1>1, <1>2, <1>3, <1>4, <1>5, <1>6, <1>7, <1>8 DEF Branch

\* Every action of functions, classes and traits.
LEMMA CallableStepScopes ==
    ASSUME Scoping, stack # <<>> /\ Top.kind = "class" => Top.entry.tag = "none", Callable
    PROVE  Scoped(reg', stack')
<1>1. Defaults \subseteq Exprs
  BY ExprsAssumption DEF Defaults
<1>2. ASSUME NEW n \in Name, NEW dflt \in Defaults, RegisterFunction(n, dflt)
      PROVE  Scoped(reg', stack')
  BY <1>1, <1>2, FunctionScopes
<1>3. ASSUME NEW n \in Name, NEW dflt \in Defaults, RegisterMethod(n, dflt)
      PROVE  Scoped(reg', stack')
  <2>1. stack # <<>>
    BY <1>3 DEF RegisterMethod, More, In
  <2> QED
    BY <1>1, <1>3, <2>1, MethodScopes
<1>4. ASSUME NEW n \in Name, NEW dflt \in Defaults, RegisterTraitMethod(n, dflt)
      PROVE  Scoped(reg', stack')
  BY <1>1, <1>4, TraitMethodScopes
<1>5. ASSUME NEW n \in Name, RegisterClass(n) \/ RegisterTrait(n) \/ RegisterParam(n)
      PROVE  Scoped(reg', stack')
  BY <1>5, ClassScopes, TraitScopes, ParamScopes
<1>6. CASE EndClass
  BY <1>6, EndScopes DEF EndClass, In
<1>7. CASE EndTrait
  BY <1>7, FinishScopes DEF EndTrait, In, Inserting
<1>8. CASE EnterBody
  BY <1>8, EnterBodyScopes
<1> QED
  BY <1>2, <1>3, <1>4, <1>5, <1>6, <1>7, <1>8 DEF Callable

\* Every action of blocks.
LEMMA BlockStepScopes == ASSUME Scoping, Block PROVE Scoped(reg', stack')
<1>1. ASSUME NEW n \in Name, RegisterEnum(n) \/ RegisterExtern(n) \/ RegisterModule(n)
      PROVE  Scoped(reg', stack')
  BY <1>1, BlocksScope
<1>2. ASSUME NEW n \in Name, NEW f \in NameOpt,
             RegisterVariant(n, f) \/ RegisterExternFunc(n, f)
      PROVE  Scoped(reg', stack')
  BY <1>2, VariantScopes, ExternFuncScopes
<1>3. CASE EndEnum \/ EndExtern \/ EndModule
  BY <1>3, FinishScopes DEF EndEnum, EndExtern, EndModule, In, Inserting
<1> QED
  BY <1>1, <1>2, <1>3 DEF Block

\* The global scope alone.
LEMMA InitScopes == Init => ScopesOK
<1>1. ASSUME Init PROVE ScopesOK
  <2>1. reg = RegisterNew /\ stack = <<Body(1)>>
    BY <1>1 DEF Init
  <2>2. IdsOf(reg) = {} /\ reg.scopes = 1
    BY <2>1 DEF RegisterNew, IdsOf
  <2>3. /\ DOMAIN stack = {1} /\ stack[1].entry.tag = "none" /\ stack[1].entry.kids = <<>>
        /\ stack[1].scope = 1 /\ stack[1].reg = 1
    BY <2>1 DEF Body, Frame, NoEntry, D
  <2>4. Around(stack[1]) = {1} /\ Claims(stack[1]) = {}
    BY <2>3 DEF Around, Claims, KidsOf, Branching, Flow
  <2>5. Opened(stack) = {1} /\ Claimed(stack) = {}
    BY <2>3, <2>4 DEF Opened, Claimed
  <2>6. TreeOK(reg, {1}, {})
    BY <2>2 DEF TreeOK, Led, Unsealed, Disjoint
  <2>7. Apart(reg, stack)
    BY <2>3, <2>4 DEF Apart, Held, Leads, Branching, Flow
  <2> QED
    BY <2>5, <2>6, <2>7 DEF ScopesOK
<1> QED
  BY <1>1

\* The induction step: every action of the walk keeps ScopesOK.
LEMMA StepScopes == WalkInv /\ ScopesOK /\ [Next]_vars => ScopesOK'
<1>1. ASSUME WalkInv, ScopesOK, [Next]_vars PROVE ScopesOK'
  <2>1. Scoping
    BY <1>1, GoodIsIndInv DEF WalkInv, Scoping, Scoped, ScopesOK
  <2>2. stack # <<>> /\ Top.kind = "class" => Top.entry.tag = "none"
    <3>1. ASSUME stack # <<>>, Top.kind = "class" PROVE Top.entry.tag = "none"
      <4>1. Len(stack) \in 1..Len(stack)
        BY <2>1, <3>1 DEF Scoping, Good, StackGood
      <4>2. FramePlaced(Top, reg, src)
        BY <1>1, <4>1 DEF WalkInv, WalkOK, Top
      <4> QED
        BY <3>1, <4>2 DEF FramePlaced, Inserting
    <3> QED
      BY <3>1
  <2>3. ASSUME UNCHANGED vars PROVE ScopesOK'
    <3>1. reg' = reg /\ stack' = stack
      BY <2>3 DEF vars
    <3>2. ScopesOK' <=> Scoped(reg', stack')
      BY DEF ScopesOK, Scoped
    <3> QED
      BY <1>1, <3>1, <3>2 DEF ScopesOK, Scoped
  <2>4. ASSUME Leaf \/ Branch \/ Callable \/ Block PROVE ScopesOK'
    <3>1. Scoped(reg', stack')
      BY <2>1, <2>2, <2>4, LeafStepScopes, BranchStepScopes, CallableStepScopes, BlockStepScopes
    <3> QED
      BY <3>1 DEF ScopesOK, Scoped
  <2> QED
    BY <1>1, <2>3, <2>4 DEF Next, Returned
<1> QED
  BY <1>1

\* The entries lead to distinct scopes inside their own, expressions hold
\* what is behind them, and the scopes of arguments and initialisers are
\* visited by nobody (register.c:80-256, expr.c:29-402, stmt.c:9-831).
THEOREM ScopesInvariance == Spec => []ScopesOK
<1>1. WalkInv /\ ScopesOK /\ [Next]_vars => (WalkInv /\ ScopesOK)'
  BY StepWalks, StepScopes
<1> QED
  BY <1>1, InitWalks, InitScopes, PTL DEF Spec
=============================================================================
