-------------------------------- MODULE Lower --------------------------------
(***************************************************************************)
(* The lowering of the symbol tables to the IR: src/ir/ir.c, which main    *)
(* calls when register_body has returned.                                  *)
(*                                                                         *)
(* lower_stmt walks the ids of one scope in order and calls a handler for  *)
(* each entry it finds there; the handlers of functions, branches, loops   *)
(* and matches call lower_stmt on the scopes the entry keeps.  The C stack *)
(* is explicit again: a frame of `calls' is a handler that has called      *)
(* lower_stmt, and the scopes it has still to visit.  Only the outermost   *)
(* lower_stmt has a module: every other one is given (IR_Module){0} and a  *)
(* list of statements, so a definition met there is lowered and lost.      *)
(*                                                                         *)
(* The IR is kept as the ids of the entries it was made from: ir[s] is     *)
(* what the visit of scope s emitted, in order.  For the global scope it   *)
(* is IR_Module.defs, for the others the IR_StmtArr of the body.           *)
(***************************************************************************)
EXTENDS RegisterStmt

VARIABLES
    calls,   \* the handlers in progress, the innermost last
    ir,      \* scope -> ids emitted; empty until lower_stmt is called
    uses,    \* auxiliary: <<id, scope>> for every lower_expr(scope, id)
    done,    \* auxiliary: the scopes lower_stmt has returned from
    slot0    \* global_flat[0], which is never written; see SlotZero

lowerVars == <<calls, ir, uses, done, slot0>>
allVars == <<reg, stack, src, calls, ir, uses, done, slot0>>

\* What the memory realloc returned may hold in slot 0: NULL, an address that
\* can be read, or one that cannot.  "crashed" once the last has been read.
SlotZero == {"null", "readable", "unmapped"}

-----------------------------------------------------------------------------
(* Expressions: lower_expr.                                                *)

ScopedCalls == {"ExprFunctionCall", "ExprEnumCall", "ExprArray"}

\* The entries an expression node holds pointers or ids of.  A list of Operator
\* has at most one element (module RegisterStmt), the entry just before it.
Before(R, i) == IF i > 1 /\ R.flat[i - 1].tag \in AtomTags
                         /\ R.flat[i - 1].scope = R.flat[i].scope
                         /\ R.flat[i - 1].pos = R.flat[i].pos
                THEN {i - 1} ELSE {}
Operands(R, i) ==
    LET e == R.flat[i]
    IN CASE e.tag \in ScopedCalls -> {j \in IdsOf(R) : R.flat[j].scope = e.kids[1]}
         [] e.tag = "ExprField" ->
              IF e.kids = <<>> THEN {e.expr}     \* made for a pattern
              ELSE {j \in IdsOf(R) : R.flat[j].scope = e.kids[1]}
         [] e.tag \in {"ExprBinaryOp", "ExprIdx"} -> {i - 2, i - 1}
         [] e.tag \in {"ExprUnary", "ExprAddrOf", "ExprCast"} -> {i - 1}
         [] e.tag \in {"ExprTuple", "ExprStructCall"} -> Before(R, i)
         [] OTHER -> {}

\* The Register lower_expr passes on to the operands.
Passed(R, i, s) ==
    LET e == R.flat[i]
    IN CASE e.tag \in ScopedCalls -> e.kids[1]
         [] e.tag = "ExprCast" -> e.scope
         [] OTHER -> s

\* All calls of lower_expr made for lower_expr(s, i).
Uses(R, s, i) ==
    LET made[j \in IdsOf(R)] ==
            [t \in 1..R.scopes |->
                {<<j, t>>} \cup UNION {made[k][Passed(R, j, t)] : k \in Operands(R, j)}]
    IN made[i][s]

\* Bug for the mutation runs: the argument is registered as a statement.
AgainStmt(R, s, i) ==
    IF R.flat[i].tag = "ExprStructCall"
    THEN RegisterInsert(R, s, D("ExprStmt", NoName, R.flat[i].pos, <<>>, 0)) ELSE R

\* A struct call keeps the AST of its arguments: they are registered again, in
\* the Register lower_expr was given, and the new entries are lowered.
Again(R, s, i) ==
    IF R.flat[i].tag = "ExprStructCall" /\ Before(R, i) # {}
    THEN Atom(R, s, R.flat[i - 1].tag, R.flat[i].pos) ELSE R

\* lower_expr(s, i) as a step of a handler; i = 0 is no expression, and no id.
LowerExpr(s, i) ==
    IF i \notin Ids THEN UNCHANGED <<reg, uses>>
    ELSE /\ reg' = Again(reg, s, i)
         /\ uses' = uses \cup
                IF reg.flat[i].tag = "ExprStructCall"
                THEN {<<i, s>>} \cup {<<j, s>> : j \in reg.next..(reg'.next - 1)}
                ELSE Uses(reg, s, i)

-----------------------------------------------------------------------------
(* lower_stmt.                                                             *)

\* A handler that has called lower_stmt on the first scope of todo; entry is
\* the one it emits in the end, 0 for main.
Visit(entry, todo) == [entry |-> entry, todo |-> todo, at |-> 1]

Call == calls[Len(calls)]
Scope == Head(Call.todo)
IsMain == Len(calls) = 1

Definitions == {"Function", "Struct", "Enum", "Trait", "Extern"}
Declared == {"Var", "Let", "Const"}
Flow == {"If", "Elif", "While", "For", "Match", "Return", "ExprStmt", "Atomic"}

\* The tags lower_stmt has a call for: without stmts_out, no statements.
Handled == Definitions \cup Declared \cup IF IsMain THEN {} ELSE Flow

\* The ids the loop has still to look at, next_id being read on every round.
Left == {i \in IdsOf(reg) : /\ i >= Call.at /\ reg.flat[i].scope = Scope
                            /\ reg.flat[i].tag \in Handled}

\* The entry the loop comes to next, if there is one.
Upcoming == IF calls = <<>> THEN {}
            ELSE {i \in Left : \A j \in Left : i <= j}

\* The switch calls the handler of the tags T on entry i.
At(i, T) == reg.flat[i].tag \in T

\* The loop goes on behind i in the frame c.
Past(c, i) == [c EXCEPT !.at = i + 1]

SetCall(c) == [calls EXCEPT ![Len(calls)] = c]

\* ARR_PUSH or IR_MOD_PUSH of what i was lowered to, in the visit of scope s.
Emit(s, i) == ir' = [ir EXCEPT ![s] = Append(@, i)]

\* main: lower_stmt on the global scope, once the program is registered.
LowerModule ==
    /\ stack = <<>> /\ ir = <<>>
    /\ calls' = <<Visit(0, <<1>>)>>
    /\ ir' = [s \in 1..reg.scopes |-> <<>>]
    /\ slot0' \in SlotZero
    /\ UNCHANGED <<reg, stack, src, uses, done>>

\* lower_struct, lower_enum, lower_trait and lower_extern build the definition
\* from the entry; it is lost unless the module is main's.
LowerDefinition(i) ==
    /\ At(i, {"Struct", "Enum", "Trait", "Extern"})
    /\ calls' = SetCall(Past(Call, i))
    /\ IF IsMain THEN Emit(Scope, i) ELSE UNCHANGED ir
    /\ UNCHANGED <<reg, stack, src, uses, done, slot0>>

\* lower_var, lower_let and lower_const: a statement in a body, a definition in
\* the module.  The initialiser is lowered with the scope of the declaration.
LowerBinding(i) ==
    /\ At(i, Declared)
    /\ LowerExpr(Scope, reg.flat[i].expr)
    /\ calls' = SetCall(Past(Call, i))
    /\ Emit(Scope, i)
    /\ UNCHANGED <<stack, src, done, slot0>>

\* lower_function: the body first; whatever of the body becomes of it, see EndVisit.
LowerFunction(i) ==
    /\ At(i, {"Function"})
    /\ calls' = Append(SetCall(Past(Call, i)), Visit(i, reg.flat[i].kids))
    /\ UNCHANGED <<reg, stack, src, ir, uses, done, slot0>>

\* Bug for the mutation runs: the condition is lowered in the first body.
CondBody(e) == e.kids[2]

\* The Register the condition or the subject is lowered with.
CondScope(e) == e.kids[1]

\* Bug for the mutation runs: the else_child and all arms but the first are missed.
BodiesFirst(e) == SubSeq(e.kids, 2, 2)

\* The scopes lower_if, lower_while, lower_for and lower_match visit in turn:
\* the then_child and the else_child if there is one, the body, the arms.  The
\* default of a match is never there.
Bodies(e) ==
    CASE e.tag = "Match" -> SubSeq(e.kids, 3, Len(e.kids))
      [] OTHER           -> Tail(e.kids)

\* lower_if, lower_while, lower_for, lower_match up to the first lower_stmt; a
\* match without arms calls none.
LowerFlow(i) ==
    LET e == reg.flat[i]
        cond == RegisterFromScope(reg, e.kids[1], e.expr)
        todo == Bodies(e)
    IN /\ At(i, {"If", "Elif", "While", "For", "Match"})
       /\ LowerExpr(CondScope(e), cond)
       /\ IF todo = <<>>
          THEN calls' = SetCall(Past(Call, i)) /\ Emit(Scope, i)
          ELSE calls' = Append(SetCall(Past(Call, i)), Visit(i, todo)) /\ UNCHANGED ir
       /\ UNCHANGED <<stack, src, done, slot0>>

\* lower_expr_stmt looks the expression up in the scope; lower_atomic lowers
\* none, the arguments having no id.
LowerExprStmt(i) ==
    /\ At(i, {"ExprStmt", "Atomic"})
    /\ LowerExpr(Scope, RegisterFromScope(reg, Scope, reg.flat[i].expr))
    /\ calls' = SetCall(Past(Call, i))
    /\ Emit(Scope, i)
    /\ UNCHANGED <<stack, src, done, slot0>>

\* lower_return asks register_get_function for the function, and global_flat
\* for its entry.  A call returned where the function's type is an enum has
\* its arguments lowered without lower_expr on the call itself: the scopes
\* the arguments are lowered with are the same.
LowerReturn(i) ==
    /\ At(i, {"Return"})
    /\ RegisterGetFunction(reg, i) # 0 \/ slot0 = "readable"
    /\ LowerExpr(Scope, reg.flat[i].expr)
    /\ calls' = SetCall(Past(Call, i))
    /\ Emit(Scope, i)
    /\ UNCHANGED <<stack, src, done, slot0>>

\* Bug for the mutation runs: the loop goes on only behind what it has emitted.
DropReturnStuck(i) == At(i, {"Return"}) /\ slot0 = "null" /\ UNCHANGED allVars

\* The function's id is 0, and slot 0 of global_flat happens to be NULL.
DropReturn(i) ==
    /\ At(i, {"Return"})
    /\ RegisterGetFunction(reg, i) = 0 /\ slot0 = "null"
    /\ calls' = SetCall(Past(Call, i))
    /\ UNCHANGED <<reg, stack, src, ir, uses, done, slot0>>

\* The function's id is 0, and slot 0 does not point anywhere: the process ends.
CrashReturn(i) ==
    /\ At(i, {"Return"})
    /\ RegisterGetFunction(reg, i) = 0 /\ slot0 = "unmapped"
    /\ calls' = <<>> /\ slot0' = "crashed"
    /\ UNCHANGED <<reg, stack, src, ir, uses, done>>

\* Bug for the mutation runs: a function is pushed wherever it was met.
PushedAlways(parent, i) == TRUE

\* What a handler made is pushed to the list of the statement's scope, or to
\* main's module when it is a function.
Pushed(parent, i) == parent = 1 \/ reg.flat[i].tag # "Function"

\* lower_stmt returns.  The handler visits its next scope, or emits its entry
\* behind what its caller has emitted.
EndVisit ==
    /\ calls # <<>> /\ Left = {}
    /\ done' = done \cup {Scope}
    /\ IF Len(Call.todo) > 1
       THEN /\ calls' = SetCall(Visit(Call.entry, Tail(Call.todo)))
            /\ UNCHANGED ir
       ELSE /\ calls' = SubSeq(calls, 1, Len(calls) - 1)
            /\ IF ~IsMain /\ Pushed(Len(calls) - 1, Call.entry)
               THEN Emit(Head(calls[Len(calls) - 1].todo), Call.entry)
               ELSE UNCHANGED ir
    /\ UNCHANGED <<reg, stack, src, uses, slot0>>

-----------------------------------------------------------------------------

LowerInit ==
    /\ Init
    /\ calls = <<>> /\ ir = <<>> /\ uses = {} /\ done = {} /\ slot0 = "null"

LowerStep ==
    \/ LowerModule
    \/ \E i \in Upcoming :
           \/ LowerDefinition(i)
           \/ LowerBinding(i)
           \/ LowerFunction(i)
           \/ LowerFlow(i)
           \/ LowerExprStmt(i)
           \/ LowerReturn(i)
           \/ DropReturn(i)
           \/ CrashReturn(i)
    \/ EndVisit

\* The front end registers the whole program first.
Registering ==
    /\ stack # <<>>
    /\ Leaf \/ Branch \/ Callable \/ Block
    /\ UNCHANGED lowerVars

Lowered == ir # <<>> /\ calls = <<>>

LowerNext == Registering \/ LowerStep \/ (Lowered /\ UNCHANGED allVars)

\* One thread runs it: a step of lowering that can be taken is taken.
LowerSpec == LowerInit /\ [][LowerNext]_allVars /\ WF_allVars(LowerStep)

-----------------------------------------------------------------------------
(* Properties.                                                             *)

CallType == [entry : {0} \cup Ids, todo : Seq(Scopes) \ {<<>>}, at : 1..reg.next]

\* Handlers in progress refer to entries and scopes that exist, and the
\* registers stay well formed while lowering adds entries to them.
LowerTypeOK ==
    /\ IndInv
    /\ calls \in Seq(CallType)
    /\ ir = <<>> \/ ir \in [Scopes -> Seq(Ids)]
    /\ \A u \in uses : u[1] \in Ids /\ u[2] \in Scopes
    /\ slot0 \in SlotZero \cup {"crashed"}

\* Entry i, met in its scope, has s for a body.  Everything is met in the global
\* scope but control flow, and everything in a body.
Enters(R, i, s) ==
    LET e == R.flat[i]
    IN /\ e.tag \in {"Function"} \cup Flow
       /\ \E k \in DOMAIN e.kids : /\ e.kids[k] = s
                                   /\ e.tag # "Function" => k > 1
                                   /\ e.tag = "Match" => k > 2
       /\ e.scope < s
       /\ e.scope = 1 => e.tag = "Function"

\* The scopes whose statements belong in the IR: the body of a function that is
\* itself met, and of a branch, loop or arm met in such a body.
Met(R) ==
    LET met[s \in 1..R.scopes] ==
            s = 1 \/ \E i \in IdsOf(R) : Enters(R, i, s) /\ met[R.flat[i].scope]
    IN {s \in 1..R.scopes : met[s]}

\* What must come of scope s: the definitions of the module, or the statements
\* of a body, but for a return whose function is read from an empty slot 0.
Wanted(R, slot, s) ==
    {i \in IdsOf(R) :
        /\ R.flat[i].scope = s
        /\ R.flat[i].tag \in Declared \cup IF s = 1 THEN Definitions ELSE Flow
        /\ (R.flat[i].tag = "Return" /\ R.flat[i].fn = 0) => slot # "null"}

\* Every body in the IR holds the statements of its scope once each, in the
\* order of their ids, and nothing else: no step of lowering, which itself
\* registers entries while lower_stmt loops over next_id, makes the loop skip
\* or repeat one (ir.c:880-909, ir.c:653).
Ascending(q) == \A m, n \in DOMAIN q : m < n => q[m] < q[n]
Emitted(q) == {q[m] : m \in DOMAIN q}
BlocksComplete ==
    ir # <<>> =>
        /\ \A s \in DOMAIN ir : Ascending(ir[s]) /\ Emitted(ir[s]) \subseteq Wanted(reg, slot0, s)
        /\ Lowered /\ slot0 # "crashed" =>
               \A s \in Met(reg) : Emitted(ir[s]) = Wanted(reg, slot0, s)

\* A name is looked up with a Register from which it means what it means in the
\* scope the expression was registered in: the declarations of a body are not
\* visible to the condition before it (ir.c:250, ir.c:276, ir.c:301, ir.c:326).
ScopeFaithful ==
    \A u \in uses, n \in Name :
        RegisterGet(reg, u[2], n) = RegisterGet(reg, reg.flat[u[1]].scope, n)

\* lower_function finds the parameters by name in the scope of the body, after
\* the body has been registered: what it finds is a parameter of that function,
\* whatever the body declares (ir.c:545-553).
ParamsOwn ==
    \A i \in Ids :
        LET e == reg.flat[i]
            s == e.scope
        IN e.tag = "Param" /\ reg.owner[s] # 0 /\ reg.flat[reg.owner[s]].kids = <<s>>
               => LET p == RegisterGet(reg, s, e.name)
                  IN reg.flat[p].tag = "Param" /\ reg.flat[p].scope = s

\* Lowering only adds entries of expressions: it declares no name, makes no
\* scope and alters no entry of the program.
LoweringOnlyAdds ==
    [][stack = <<>> =>
           /\ Follows(reg', reg)
           /\ reg'.names = reg.names /\ reg'.scopes = reg.scopes
           /\ \A i \in IdsOf(reg') \ IdsOf(reg) :
                  reg'.flat[i].tag \notin StmtTags]_allVars

\* lower_stmt returns, though every struct call it lowers moves next_id, the
\* bound of its loop, away.
LowerEnds == (ir # <<>>) ~> Lowered

-----------------------------------------------------------------------------
(* What these properties rest on.  First, where the scopes and the ids     *)
(* that an entry holds may lead: ScopesOK, an invariant of the walk.       *)

KidsOf(e) == {e.kids[k] : k \in DOMAIN e.kids}

\* The entries whose conditions and bodies lowering enters.
Branching == {"Function"} \cup Flow

\* Nobody but the handler that made entry i has registered in s: the arguments
\* of a call, or the initialiser of a declaration.
Seals(R, i, s) ==
    LET e == R.flat[i]
    IN \/ e.tag \in ScopedCalls \cup {"ExprField"} /\ e.kids # <<>> /\ s = e.kids[1]
       \/ e.tag \in Declared /\ e.expr # 0 /\ s = R.flat[e.expr].scope /\ s # e.scope
Unsealed(R, s) == s \in 1..R.scopes /\ \A i \in IdsOf(R) : ~Seals(R, i, s)

\* An entry leads to s.
Led(R, s) == \E i \in IdsOf(R) : R.flat[i].tag \in Branching /\ s \in KidsOf(R.flat[i])

\* The names of c are those of s.
Nameless(R, c, s) ==
    /\ c \in 1..R.scopes /\ R.parent[c] = s
    /\ \A n \in Name : R.names[c][n] = 0

\* The operands of an expression, and the expression of a statement, are behind
\* the entry that holds them, in its scope or in one with the same names.
Fits(R, i) ==
    LET e == R.flat[i]
        near(j) == j \in 1..(i - 1) /\ R.flat[j].scope = e.scope
    IN /\ e.tag \in ScopedCalls \cup {"ExprField"} /\ e.kids # <<>> =>
              /\ e.kids[1] \in 1..R.scopes
              /\ \A j \in IdsOf(R) : R.flat[j].scope = e.kids[1] => j < i
       /\ e.tag \in ScopedCalls => e.kids # <<>>
       /\ e.tag = "ExprField" => IF e.kids = <<>> THEN near(e.expr)
                                 ELSE Nameless(R, e.kids[1], e.scope)
       /\ e.tag \in {"ExprBinaryOp", "ExprIdx"} => near(i - 2) /\ near(i - 1)
       /\ e.tag \in {"ExprUnary", "ExprAddrOf", "ExprCast"} => near(i - 1)
       /\ e.tag \in Declared /\ e.expr # 0 =>
              /\ e.expr \in 1..(i - 1)
              /\ near(e.expr) \/ Nameless(R, R.flat[e.expr].scope, e.scope)
       /\ e.tag = "Return" /\ e.expr # 0 => near(e.expr)

\* An entry of scope s leads to scopes inside, as many as its handler makes.
Leads(R, e, s) ==
    e.tag \in Branching =>
        /\ KidsOf(e) \subseteq (s + 1)..R.scopes
        /\ \A k, l \in DOMAIN e.kids : e.kids[k] = e.kids[l] => k = l
        /\ CASE e.tag = "Function" -> Len(e.kids) = 1
             [] e.tag \in {"Return", "ExprStmt", "Atomic"} -> e.kids = <<>>
             [] OTHER -> Len(e.kids) >= 2

\* No two entries lead to one scope.
Disjoint(R) ==
    \A i, j \in IdsOf(R) :
        i # j /\ {R.flat[i].tag, R.flat[j].tag} \subseteq Branching
            => KidsOf(R.flat[i]) \cap KidsOf(R.flat[j]) = {}

\* The handlers in progress register in the scopes of Open, and some entry will
\* yet lead to those of Free.
TreeOK(R, Open, Free) ==
    /\ \A i \in IdsOf(R) : Fits(R, i) /\ Leads(R, R.flat[i], R.flat[i].scope)
    /\ \A s \in 1..R.scopes : Led(R, s) => Unsealed(R, s)
    /\ Disjoint(R)
    /\ 1 \in Open /\ Free \subseteq Open
    /\ \A s \in Open : Unsealed(R, s)
    /\ \A s \in Free : ~Led(R, s)

\* The scopes a handler in progress may still register in, and those the entry
\* it holds will lead to.
Around(f) == {f.scope, f.reg} \cup KidsOf(f.entry)
Claims(f) == IF f.entry.tag \in Branching THEN KidsOf(f.entry) ELSE {}
Opened(st) == {1} \cup UNION {Around(st[k]) : k \in DOMAIN st}
Claimed(st) == UNION {Claims(st[k]) : k \in DOMAIN st}

\* What a handler holds until its statements are registered.
Held == {"none", "If", "Elif", "Match", "Trait", "Enum", "Extern", "Module"}

\* No two handlers hold a claim to one scope.
Apart(R, st) ==
    /\ \A k \in DOMAIN st : st[k].entry.tag \in Held /\ Leads(R, st[k].entry, st[k].reg)
    /\ \A j, k \in DOMAIN st : j # k => Claims(st[j]) \cap Claims(st[k]) = {}

\* The invariant of the walk that lowering needs.
ScopesOK == TreeOK(reg, Opened(stack), Claimed(stack)) /\ Apart(reg, stack)

-----------------------------------------------------------------------------
(* Then, what the handlers in progress have come past and left behind.     *)

\* Lowering visits the global scope, and scopes some entry leads to.
Visited(R, s) == s = 1 \/ Led(R, s)

\* The scopes the handler of entry e calls lower_stmt on.
Inside(e) ==
    CASE e.tag = "Function" -> KidsOf(e)
      [] e.tag \in {"If", "Elif", "While", "For", "Match"} /\ e.scope # 1 ->
           {Bodies(e)[k] : k \in DOMAIN Bodies(e)}
      [] OTHER -> {}

\* Of the handlers c in progress: the scope a handler is in, those it has to
\* visit from there on, and the entries whose handlers they are.
Cur(c, k) == Head(c[k].todo)
Todo(c, k) == {c[k].todo[m] : m \in DOMAIN c[k].todo}
InHand(c) == {c[k].entry : k \in DOMAIN c}

\* The loop has come past entry i, and the handler of i has returned.
Finished(R, c, d, i) ==
    \/ R.flat[i].scope \in d
    \/ /\ i \notin InHand(c)
       /\ \E k \in DOMAIN c : R.flat[i].scope = Cur(c, k) /\ i < c[k].at

\* A handler has come to its entry in the scope its caller is in, and to its
\* scope when those before it were done.
CallsPlaced(R, c, d) ==
    /\ IF c = <<>> THEN 1 \in d ELSE c[1].entry = 0 /\ c[1].todo = <<1>>
    /\ \A k \in DOMAIN c :
           /\ \A m, n \in DOMAIN c[k].todo : c[k].todo[m] = c[k].todo[n] => m = n
           /\ Todo(c, k) \cap d = {}
           /\ \A j \in 1..(k - 1), s \in Todo(c, k) : Cur(c, j) < s
           /\ k > 1 => LET e == R.flat[c[k].entry]
                       IN /\ e.scope = Cur(c, k - 1) /\ c[k - 1].at = c[k].entry + 1
                          /\ Todo(c, k) \subseteq Inside(e)
                          /\ Inside(e) \subseteq Todo(c, k) \cup d

\* A scope is visited for an entry the loop has come past, and a body holds what
\* was finished of its scope.
BodiesOK(R, c, d, b, slot) ==
    /\ \A i \in IdsOf(R) : Finished(R, c, d, i) => Inside(R.flat[i]) \subseteq d
    /\ \A s \in 1..R.scopes :
           /\ Ascending(b[s])
           /\ Emitted(b[s]) = {i \in Wanted(R, slot, s) : Finished(R, c, d, i)}
    /\ \A s \in d \cup UNION {Todo(c, k) : k \in DOMAIN c} :
           s # 1 => \E i \in IdsOf(R) : /\ s \in Inside(R.flat[i])
                                        /\ Finished(R, c, d, i) \/ i \in InHand(c)

\* A process that crashed in lower_return has emitted nothing that is not wanted.
VisitsOK ==
    CASE ir = <<>> -> done = {}
      [] ir # <<>> /\ slot0 # "crashed" ->
           CallsPlaced(reg, calls, done) /\ BodiesOK(reg, calls, done, ir, slot0)
      [] ir # <<>> /\ slot0 = "crashed" ->
           /\ calls = <<>>
           /\ \A s \in Scopes : Ascending(ir[s]) /\ Emitted(ir[s]) \subseteq Wanted(reg, slot0, s)

\* The inductive invariant of lowering: handlers visit scopes that entries lead
\* to, each once; what the loops have come past is emitted if it is wanted, and
\* the bodies inside it are done (ir.c:246-353, ir.c:536-578, ir.c:880-909).
LoweringOK ==
    /\ LowerTypeOK /\ ScopesOK /\ ScopeFaithful /\ VisitsOK
    /\ stack # <<>> => calls = <<>> /\ ir = <<>> /\ uses = {}
    /\ calls # <<>> => ir # <<>>
    /\ \A k \in DOMAIN calls :
           /\ k > 1 => calls[k].entry # 0
           /\ \A m \in DOMAIN calls[k].todo : Visited(reg, calls[k].todo[m])
=============================================================================
