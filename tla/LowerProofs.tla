---------------------------- MODULE LowerProofs ----------------------------
(***************************************************************************)
(* Lowering and the registers: lower_expr inserts into registers that are  *)
(* being walked.  Proved here: the registers stay well formed through it,  *)
(* nothing but entries of atoms is added to them, and the parameters of a  *)
(* function are found in its body.                                         *)
(***************************************************************************)
EXTENDS Lower, WalkProofs

\* What may come of the registers when a step of lowering is over.
AddsAtoms(Q, R) ==
    /\ Grows(Q, R)
    /\ Q.names = R.names /\ Q.scopes = R.scopes /\ OwnersKept(Q, R)
    /\ \A i \in IdsOf(Q) \ IdsOf(R) : Q.flat[i].tag \in AtomTags

\* Nothing happens to the registers in most steps.
LEMMA AddsNothing == ASSUME NEW R, WellFormed(R) PROVE AddsAtoms(R, R)
BY GrowsSelf DEF AddsAtoms, OwnersKept

\* An atom has no name, so the name table of its scope stays as it is.
LEMMA AtomAdds ==
    ASSUME NEW R, WellFormed(R), NEW s \in 1..R.scopes, NEW t \in AtomTags,
           NEW p \in Nat
    PROVE  AddsAtoms(Atom(R, s, t, p), R)
<1> DEFINE d == D(t, NoName, p, <<>>, 0)
           Q == Atom(R, s, t, p)
<1>1. d \in Insertable
  BY DescTyped, NoNameTyped, KidsTyped DEF Tags
<1>2. Q = RegisterInsert(R, s, d)
  BY DEF Atom
<1>3. /\ Within(Q, R, s) /\ Q.next = R.next + 1 /\ Q.scopes = R.scopes
      /\ Q.flat[R.next] = Entry(d, s, OwnerFn(R, s))
  BY <1>1, <1>2, InsertWithin
<1>4. Grows(Q, R)
  BY <1>3, WithinGrows
<1>5. Q.names = R.names
  <2>1. R.names \in [1..R.scopes -> [Name -> 0..(R.next - 1)]]
    BY Sizes DEF RegisterOK
  <2>2. d.name = NoName
    BY DEF D
  <2>3. PutName(R.names[s], d.name, R.next) = R.names[s]
    BY <2>2, NoNameAssumption DEF PutName
  <2>4. Q.names = [R.names EXCEPT ![s] = PutName(R.names[s], d.name, R.next)]
    BY <1>2 DEF RegisterInsert, Store
  <2> QED
    BY <2>1, <2>3, <2>4
<1>6. ASSUME NEW i \in IdsOf(Q) \ IdsOf(R) PROVE Q.flat[i].tag \in AtomTags
  <2>1. i = R.next
    BY <1>3, <1>6, Sizes DEF IdsOf
  <2>2. Q.flat[i].tag = t
    BY <1>3, <2>1 DEF Entry, D
  <2> QED
    BY <2>2
<1> HIDE DEF Q
<1>7. AddsAtoms(Q, R)
  BY <1>3, <1>4, <1>5, <1>6 DEF AddsAtoms, OwnersKept, Within
<1> QED
  BY <1>7 DEF Q

LEMMA AgainAdds ==
    ASSUME NEW R, WellFormed(R), NEW s \in 1..R.scopes, NEW i \in IdsOf(R)
    PROVE  AddsAtoms(Again(R, s, i), R)
<1>1. R.flat[i].pos \in Nat
  BY Sizes, EntryFacts DEF EntryType
<1>2. CASE R.flat[i].tag = "ExprStructCall" /\ Before(R, i) # {}
  <2>1. R.flat[i - 1].tag \in AtomTags
    BY <1>2 DEF Before
  <2>2. Again(R, s, i) = Atom(R, s, R.flat[i - 1].tag, R.flat[i].pos)
    BY <1>2 DEF Again
  <2> QED
    BY <1>1, <2>1, <2>2, AtomAdds
<1>3. CASE ~(R.flat[i].tag = "ExprStructCall" /\ Before(R, i) # {})
  BY <1>3, AddsNothing DEF Again
<1> QED
  BY <1>2, <1>3

-----------------------------------------------------------------------------
(* The steps of lowering.                                                  *)

\* lower_expr is called with a Register that has an entry, or on no entry.
LEMMA LowerExprAdds ==
    ASSUME WellFormed(reg), NEW s, NEW i, i \in Ids => s \in Scopes,
           LowerExpr(s, i)
    PROVE  AddsAtoms(reg', reg)
<1>1. CASE i \notin Ids
  BY <1>1, AddsNothing DEF LowerExpr
<1>2. CASE i \in Ids
  <2>1. reg' = Again(reg, s, i)
    BY <1>2 DEF LowerExpr
  <2> QED
    BY <1>2, <2>1, AgainAdds DEF Ids, Scopes
<1> QED
  BY <1>1, <1>2

\* The entry the loop has come to is in the scope it walks.
LEMMA UpcomingScope ==
    ASSUME WellFormed(reg), NEW i \in Upcoming
    PROVE  i \in Ids /\ Scope \in Scopes
<1>1. i \in Left
  BY DEF Upcoming
<1>2. i \in IdsOf(reg) /\ reg.flat[i].scope = Scope
  BY <1>1 DEF Left
<1> QED
  BY <1>2, Sizes, EntryFacts DEF Ids, Scopes

\* What register_from_scope finds in a scope shows that the scope exists.
LEMMA FoundScope ==
    ASSUME WellFormed(reg), NEW s, NEW e, RegisterFromScope(reg, s, e) \in Ids
    PROVE  s \in Scopes
<1>1. RegisterFromScope(reg, s, e) # 0
  BY Sizes DEF Ids, IdsOf
<1>2. e \in DOMAIN reg.flat /\ reg.flat[e].scope = s
  BY <1>1 DEF RegisterFromScope
<1>3. e \in IdsOf(reg)
  BY <1>2, Sizes DEF RegisterOK
<1> QED
  BY <1>2, <1>3, Sizes, EntryFacts DEF Scopes

LEMMA FlowAdds ==
    ASSUME WellFormed(reg), NEW i \in Upcoming, LowerFlow(i)
    PROVE  AddsAtoms(reg', reg)
<1> DEFINE s == CondScope(reg.flat[i])
           c == RegisterFromScope(reg, reg.flat[i].kids[1], reg.flat[i].expr)
<1>1. LowerExpr(s, c)
  BY DEF LowerFlow
<1>2. s = reg.flat[i].kids[1]
  BY DEF CondScope
<1>3. c \in Ids => s \in Scopes
  BY <1>2, FoundScope
<1> HIDE DEF s, c
<1> QED
  BY <1>1, <1>3, LowerExprAdds

LEMMA StepAdds ==
    ASSUME WellFormed(reg), LowerStep
    PROVE  AddsAtoms(reg', reg) /\ UNCHANGED <<stack, src>>
<1>1. CASE LowerModule
  BY <1>1, AddsNothing DEF LowerModule
<1>2. CASE EndVisit
  BY <1>2, AddsNothing DEF EndVisit
<1>3. ASSUME NEW i \in Upcoming,
             \/ LowerDefinition(i) \/ LowerFunction(i)
             \/ DropReturn(i) \/ CrashReturn(i)
      PROVE  AddsAtoms(reg', reg) /\ UNCHANGED <<stack, src>>
  BY <1>3, AddsNothing DEF LowerDefinition, LowerFunction, DropReturn, CrashReturn
<1>4. ASSUME NEW i \in Upcoming, LowerBinding(i) \/ LowerExprStmt(i) \/ LowerReturn(i)
      PROVE  AddsAtoms(reg', reg) /\ UNCHANGED <<stack, src>>
  <2>1. Scope \in Scopes
    BY UpcomingScope
  <2>2. UNCHANGED <<stack, src>> /\ \E e : LowerExpr(Scope, e)
    BY <1>4 DEF LowerBinding, LowerExprStmt, LowerReturn
  <2> QED
    BY <2>1, <2>2, LowerExprAdds
<1>5. ASSUME NEW i \in Upcoming, LowerFlow(i)
      PROVE  AddsAtoms(reg', reg) /\ UNCHANGED <<stack, src>>
  BY <1>5, FlowAdds, SMTT(30) DEF LowerFlow
<1> QED
  BY <1>1, <1>2, <1>3, <1>4, <1>5 DEF LowerStep

-----------------------------------------------------------------------------
(* The specification.                                                      *)

\* lower_function finds a parameter of that function under its parameters' names.
LEMMA ParamsFound ==
    ASSUME NEW R, WellFormed(R), ParamsFirst(R), NEW i \in IdsOf(R),
           R.flat[i].tag = "Param", R.owner[R.flat[i].scope] # 0
    PROVE  LET p == RegisterGet(R, R.flat[i].scope, R.flat[i].name)
           IN R.flat[p].tag = "Param" /\ R.flat[p].scope = R.flat[i].scope
<1> DEFINE s == R.flat[i].scope
           n == R.flat[i].name
           p == R.names[s][n]
<1>1. RegisterOK(R) /\ NamesOK(R) /\ s \in 1..R.scopes /\ i \in Nat \ {0}
  BY Sizes, EntryFacts DEF WellFormed
<1>2. n \in Name /\ \A j \in 1..(i - 1) : R.flat[j].scope = s /\ R.flat[j].name \in Name
                                              => R.flat[j].tag = "Param"
  BY SMTT(30) DEF ParamsFirst
<1>3. p \in 1..i /\ R.flat[p].scope = s /\ R.flat[p].name = n
  <2>1. p \in 1..i
    BY <1>1, <1>2 DEF NamesOK
  <2>2. p # 0
    BY <1>1, <2>1
  <2> QED
    BY <1>1, <1>2, <2>1, <2>2, ZenonT(30) DEF NamesOK
<1>4. R.flat[p].tag = "Param"
  <2>1. \A q \in 1..i : q = i \/ q \in 1..(i - 1)
    BY <1>1
  <2> QED
    BY <1>2, <1>3, <2>1, Zenon
<1>5. RegisterGet(R, s, n) = p
  <2>1. s \in 0..R.scopes /\ s # 0
    BY <1>1, Sizes
  <2>2. p # 0
    <3>1. \A q \in 1..i : q # 0
      BY <1>1
    <3> QED
      BY <1>3, <3>1, Zenon
  <2> QED
    BY <1>1, <1>2, <2>1, <2>2, GetUnfolds
<1> QED
  BY <1>3, <1>4, <1>5

\* Entries of atoms are not declared and change no scope's owner.
LEMMA ParamsStay ==
    ASSUME NEW R, WellFormed(R), NEW Q, AddsAtoms(Q, R), ParamsFirst(R)
    PROVE  ParamsFirst(Q)
<1>1. /\ \A i \in IdsOf(R) : Q.flat[i] = R.flat[i] /\ R.flat[i].scope \in 1..R.scopes
      /\ R.next \in Nat /\ IdsOf(R) = 1..(R.next - 1)
  BY Sizes, EntryFacts DEF AddsAtoms, Grows, Follows, IdsOf
<1>2. ASSUME NEW i \in IdsOf(Q), Q.flat[i].tag = "Param" PROVE i \in IdsOf(R)
  BY <1>2 DEF AddsAtoms, AtomTags
<1>3. \A i \in IdsOf(R) : \A j \in 1..(i - 1) : j \in IdsOf(R)
  BY <1>1
<1>4. \A i \in IdsOf(R) : Q.owner[R.flat[i].scope] = R.owner[R.flat[i].scope]
  BY <1>1 DEF AddsAtoms, OwnersKept
<1>5. ASSUME NEW i \in IdsOf(Q), Q.flat[i].tag = "Param", Q.owner[Q.flat[i].scope] # 0
      PROVE  /\ Q.flat[i].name \in Name
             /\ \A j \in 1..(i - 1) :
                    Q.flat[j].scope = Q.flat[i].scope /\ Q.flat[j].name \in Name
                        => Q.flat[j].tag = "Param"
  <2>1. i \in IdsOf(R) /\ Q.flat[i] = R.flat[i] /\ R.owner[R.flat[i].scope] # 0
    BY <1>1, <1>2, <1>4, <1>5
  <2>2. \A j \in 1..(i - 1) : Q.flat[j] = R.flat[j]
    BY <1>1, <1>3, <2>1
  <2> QED
    BY <1>5, <2>1, <2>2 DEF ParamsFirst
<1> QED
  BY <1>5 DEF ParamsFirst

\* A step of the composed system is one of RegisterStmt or adds atoms.
LEMMA LowerNextKept ==
    ASSUME IndInv, [LowerNext]_allVars PROVE Kept
<1>1. Good
  BY GoodIsIndInv
<1>2. CASE Registering
  BY <1>2, StepKept DEF Registering, Next
<1>3. CASE LowerStep
  <2>1. AddsAtoms(reg', reg) /\ stack' = stack /\ src' = src
    BY <1>1, <1>3, StepAdds DEF Good
  <2>2. Grows(reg', reg)
    BY <2>1 DEF AddsAtoms
  <2>3. StackGood(stack, reg')
    BY <1>1, <2>2, StackGrows DEF Good
  <2> QED
    BY <1>1, <2>1, <2>2, <2>3 DEF Good, Kept
<1>4. CASE UNCHANGED allVars
  BY <1>4, StepKept DEF allVars, vars
<1> QED
  BY <1>2, <1>3, <1>4 DEF LowerNext

\* The invariant of both phases: the walk keeps its own until register_body
\* returns, and lowering starts then.
LowerInv ==
    /\ IndInv /\ ParamsFirst(reg)
    /\ stack # <<>> => WalkInv
    /\ calls # <<>> => stack = <<>>

\* A handler in progress is called after registration.
LEMMA StepLowers ==
    ASSUME LowerInv, LowerStep PROVE stack = <<>> /\ stack' = <<>>
<1>1. CASE LowerModule
  BY <1>1 DEF LowerModule
<1>2. CASE EndVisit
  BY <1>2 DEF EndVisit, LowerInv
<1>3. ASSUME NEW i \in Upcoming PROVE stack = <<>>
  BY <1>3 DEF Upcoming, LowerInv
<1>4. stack' = stack
  BY StepAdds DEF LowerInv, IndInv
<1> QED
  BY <1>1, <1>2, <1>3, <1>4 DEF LowerStep

LEMMA LowerInvKept == ASSUME LowerInv, [LowerNext]_allVars PROVE LowerInv'
<1>1. IndInv'
  BY LowerNextKept, KeptIsIndInv DEF LowerInv
<1>2. CASE Registering
  <2>1. WalkInv /\ Next /\ stack # <<>> /\ calls' = calls
    BY <1>2 DEF Registering, LowerInv, Next, lowerVars
  <2>2. WalkInv'
    BY <2>1, StepWalks
  <2>3. ParamsFirst(reg')
    BY <2>2 DEF WalkInv, WalkOK
  <2> QED
    BY <1>1, <2>1, <2>2, <2>3 DEF LowerInv
<1>3. CASE LowerStep
  <2>1. stack' = <<>>
    BY <1>3, StepLowers
  <2>2. ParamsFirst(reg')
    BY <1>3, StepAdds, ParamsStay DEF LowerInv, IndInv
  <2> QED
    BY <1>1, <2>1, <2>2 DEF LowerInv
<1>4. CASE UNCHANGED allVars
  <2>1. WalkInv => WalkInv'
    BY <1>4, StepWalks DEF allVars, vars
  <2> QED
    BY <1>1, <1>4, <2>1 DEF LowerInv, allVars
<1> QED
  BY <1>2, <1>3, <1>4 DEF LowerNext

\* The invariants of registration hold through lowering as well: what
\* lower_expr inserts keeps ids, owners and name keys as register_insert needs
\* them.
THEOREM LoweringInvariance == LowerSpec => []LowerInv
<1>1. LowerInit => LowerInv
  <2>1. Init => IndInv /\ WalkInv /\ ParamsFirst(reg)
    BY InitGood, InitWalks DEF WalkInv, WalkOK
  <2> QED
    BY <2>1 DEF LowerInit, LowerInv
<1>2. LowerInv /\ [LowerNext]_allVars => LowerInv'
  BY LowerInvKept
<1> QED
  BY <1>1, <1>2, PTL DEF LowerSpec

\* lower_function, which looks the parameters of a function up by name when
\* everything has been registered, finds parameters of that function
\* (ir.c:545-553).
THEOREM ParamsAreParams == LowerSpec => []ParamsOwn
<1>1. LowerInv => ParamsOwn
  <2>1. ASSUME LowerInv, NEW i \in Ids, reg.flat[i].tag = "Param",
               reg.owner[reg.flat[i].scope] # 0
        PROVE  LET p == RegisterGet(reg, reg.flat[i].scope, reg.flat[i].name)
               IN reg.flat[p].tag = "Param" /\ reg.flat[p].scope = reg.flat[i].scope
    BY <2>1, ParamsFound DEF LowerInv, IndInv, Ids
  <2> QED
    BY <2>1 DEF ParamsOwn
<1> QED
  BY <1>1, LoweringInvariance, PTL

\* Lowering names nothing, makes no scope, alters no entry, and adds no entry
\* that lower_stmt has a handler for (ir.c:653).
THEOREM LoweringAddsOnly == LowerSpec => LoweringOnlyAdds
<1> DEFINE A == stack = <<>> =>
                  /\ Follows(reg', reg)
                  /\ reg'.names = reg.names /\ reg'.scopes = reg.scopes
                  /\ \A i \in IdsOf(reg') \ IdsOf(reg) :
                         reg'.flat[i].tag \notin StmtTags
<1>1. LowerInv /\ [LowerNext]_allVars => [A]_allVars
  <2> SUFFICES ASSUME LowerInv, LowerNext, stack = <<>> PROVE A \/ UNCHANGED allVars
    OBVIOUS
  <2>1. WellFormed(reg)
    BY DEF LowerInv, IndInv
  <2>2. CASE Registering
    BY <2>2 DEF Registering
  <2>3. CASE LowerStep
    <3>1. AddsAtoms(reg', reg)
      BY <2>1, <2>3, StepAdds
    <3> QED
      BY <3>1 DEF AddsAtoms, Grows, AtomTags, StmtTags
  <2> QED
    BY <2>2, <2>3 DEF LowerNext
<1> HIDE DEF A
<1>2. LowerSpec => [][A]_allVars
  BY <1>1, LoweringInvariance, PTL DEF LowerSpec
<1> QED
  BY <1>2 DEF LoweringOnlyAdds, A
=============================================================================
