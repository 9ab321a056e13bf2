------------------------------- MODULE Generic -------------------------------
(***************************************************************************)
(* Monomorphisation: src/generic.c and include/generic.h.  main calls      *)
(* check_generic on the global scope when register_body has returned, and  *)
(* lowers the tables afterwards.                                           *)
(*                                                                         *)
(* A call, a struct or enum value, or the type of a variable may carry     *)
(* generic arguments.  The handler makes up the name of the instance       *)
(* (set_name), copies the template under that name with its types          *)
(* substituted unless the name is taken, and writes the name in the place  *)
(* of the arguments.  The body of a copied function is checked at once,    *)
(* before the call that asked for it is rewritten: check_body calls        *)
(* itself, and a frame of `frames' is one of its activations.              *)
(*                                                                         *)
(* A copy is shallow.  The parameters and fields of functions and structs  *)
(* are copied, the entries of a body are copied one level deep, and the    *)
(* copy of an enum points to the field arrays of the template: they are in *)
(* `heap', by address.  A name is a sequence of words, which the code      *)
(* joins with '_'.                                                         *)
(***************************************************************************)
EXTENDS Naturals, Sequences, FiniteSets, SequencesExt

CONSTANTS
    Sources,   \* the tables register_body may leave; module MCGeneric
    MaxFrames  \* the frames the C stack holds, branches that wait their turn included

ASSUME FramesAssumption == MaxFrames \in Nat \ {0}

VARIABLES
    tab,       \* the tables: see TableType
    frames,    \* check_generic, then the activations of check_body
    slot0,     \* global_flat[0], which is never written; see SlotZero
    outcome    \* "running", "crashed" or, when the stack is full, "overflow"

vars == <<tab, frames, slot0, outcome>>

\* What register_from_global(0) yields: NULL, an address that may be read, or
\* one that may not.  It is unknown until somebody looks.
SlotZero == {"null", "readable", "unmapped"}

-----------------------------------------------------------------------------
(* Types and names.                                                        *)

\* Only the name of a pointer's target is kept.  Garbage is what stands in
\* memory after an array of types.
Prim(n) == [kind |-> "Prim", name |-> n, args |-> <<>>]
Custom(n, args) == [kind |-> "Custom", name |-> n, args |-> args]
Ptr(n) == [kind |-> "Ptr", name |-> n, args |-> <<>>]
Garbage == [kind |-> "Garbage", name |-> <<"unknown">>, args |-> <<>>]
NoType == [kind |-> "Void", name |-> <<"void">>, args |-> <<>>]

\* type_from_range and, back to a word, type_to_name: several words are one
\* type, which has one name.  An argument list holds words only, so no other
\* type is ever named.
Primitive == [bool |-> "bool", char |-> "char", int8 |-> "int8", int16 |-> "int16", int |-> "int",
              int32 |-> "int", int64 |-> "int64", uint8 |-> "uint8", uint16 |-> "uint16",
              uint |-> "uint32", uint32 |-> "uint32", uint64 |-> "uint64",
              float |-> "float", float32 |-> "float", float64 |-> "float64"]
Word(n) == IF n \in {<<>>, <<"void">>} THEN NoType
           ELSE IF Len(n) = 1 /\ n[1] \in DOMAIN Primitive THEN Prim(<<Primitive[n[1]]>>)
           ELSE Custom(n, <<>>)

\* set_generic_type on the arguments of a call or of a type.
SetGenericType(args) == [i \in DOMAIN args |-> Word(args[i])]

\* set_generic_type on the parameters of a template: an array of GenericParam,
\* each a name and a bound, is read as an array of names.
ParamAt(generic, i) ==
    IF i % 2 = 1 THEN generic[(i + 1) \div 2].name ELSE generic[i \div 2].bound

\* match_generic: one past the last position when nothing matches, which its
\* caller does not notice.
MatchGeneric(n, generic) ==
    LET hits == {i \in DOMAIN generic : ParamAt(generic, i) = n}
    IN  IF hits = {} THEN Len(generic) + 1
        ELSE CHOOSE i \in hits : \A j \in hits : i <= j

\* resolve_type, the first branch; args is fn_generic.
Substitute(t, generic, args) ==
    LET i == MatchGeneric(t.name, generic)
    IN  IF t.kind # "Custom" THEN t
        ELSE IF i <= Len(args) THEN args[i] ELSE Garbage

-----------------------------------------------------------------------------
(* The tables.                                                             *)

Globals == 1

\* A RegisterEntry: tag, scope, decl_name_range, the parameters of a template,
\* the call (its name and arguments), the types of the parameters, fields or
\* declaration, the result type, the addresses of the variants' fields, the
\* child Registers, the expression; and as written (auxiliary) the call.
NoCall == [name |-> <<>>, args |-> <<>>]
Blank(tag) ==
    [tag |-> tag, scope |-> 0, name |-> <<>>, generic |-> <<>>, call |-> NoCall,
     types |-> <<>>, ret |-> NoType, fields |-> <<>>, kids |-> <<>>, expr |-> 0,
     was |-> NoCall]

Calls == {"ExprFunctionCall", "ExprEnumCall", "ExprStructCall"}

Put(f, x, v) == [y \in DOMAIN f \cup {x} |-> IF y = x THEN v ELSE f[y]]

\* register_insert: in the global scope the first declaration keeps the name.
Insert(g, s, e) ==
    LET id == Len(g.entries) + 1
    IN  [g EXCEPT !.entries = Append(@, [e EXCEPT !.scope = s]),
                  !.names = IF s = Globals /\ e.name # <<>> /\ e.name \notin DOMAIN @
                            THEN Put(@, e.name, id) ELSE @]

\* A loop of register_insert_child.
InsertChildren(g, s, es) ==
    [g EXCEPT !.entries = @ \o [i \in DOMAIN es |-> [es[i] EXCEPT !.scope = s]]]

MakeChild(g) == [g EXCEPT !.scopes = @ + 1]

\* register_by_name, 0 for NULL.
ByName(g, n) == IF n \in DOMAIN g.names THEN g.names[n] ELSE 0

InScope(g, s) == {i \in DOMAIN g.entries : g.entries[i].scope = s}

\* Bug for the mutation runs: the instance is not remembered.
GenericIndexNone(g, n, id, of, args) ==
    [g EXCEPT !.made = Put(@, id, [of |-> of, args |-> args])]

\* Bug for the mutation runs: the id taken last, that of an entry of the body.
GenericIndexLast(g, n, id, of, args) ==
    [g EXCEPT !.seen = Put(@, n, Len(g.entries)), !.made = Put(@, id, [of |-> of, args |-> args])]

\* generic_index, and the auxiliary record of what the new entry is a copy of.
GenericIndex(g, n, id, of, args) ==
    [g EXCEPT !.seen = Put(@, n, id), !.made = Put(@, id, [of |-> of, args |-> args])]

Candidate(base, args) == base \o FlattenSeq([i \in DOMAIN args |-> args[i].name])

\* set_name.  The suffix is looked for in the tables, not among the instances:
\* a copy that was made under a suffix is not found again.
SetName(g, base, args) ==
    LET candidate == Candidate(base, args)
        free == {k \in 1 .. Cardinality(DOMAIN g.names) : ByName(g, Append(candidate, ToString(k))) = 0}
    IN  IF candidate \in DOMAIN g.seen THEN g.entries[g.seen[candidate]].name
        ELSE IF ByName(g, candidate) = 0 THEN candidate
        ELSE Append(candidate, ToString(CHOOSE k \in free : \A j \in free : k <= j))

-----------------------------------------------------------------------------
(* Instances.  resolve_type makes the structs and enums that a type asks   *)
(* for, whose fields are resolved in turn.                                 *)

RECURSIVE Resolve(_, _, _, _), ResolveAll(_, _, _, _), ResolveFields(_, _, _, _)

\* The tables, and the types resolved so far.
Start(g) == [g |-> g, types |-> <<>>]
Add(r, one) == [g |-> one.g, types |-> Append(r.types, one.type)]

\* generic_param, generic_field: the types of a list, one after the other.
ResolveAll(r, types, generic, args) ==
    IF types = <<>> THEN r
    ELSE ResolveAll(Add(r, Resolve(r.g, Head(types), generic, args)), Tail(types), generic, args)

\* generic_variant: the fields of every variant, where they stand.
Overwrite(r, address) == [r.g EXCEPT !.heap[address] = r.types]
ResolveFields(g, fields, generic, args) ==
    IF fields = <<>> THEN g
    ELSE ResolveFields(
             Overwrite(ResolveAll(Start(g), g.heap[Head(fields)], generic, args), Head(fields)),
             Tail(fields), generic, args)

\* What check_enumcall and resolve_type make of an enum, and check_var, which
\* does not list the variants in the child.  (check_enumcall hands on another
\* table of instances; it comes to make one only for the initialiser of a var
\* whose type has resolved the same fields before, and nothing is entered.)
AddEnum(g, tmpl, name, args, listed) ==
    LET fields == g.entries[tmpl].fields
        I == Insert(g, Globals, [Blank("Enum") EXCEPT !.name = name, !.fields = fields,
                                                      !.kids = <<g.scopes>>])
        variants == [v \in DOMAIN fields |-> [Blank("EnumVariant") EXCEPT !.fields = <<fields[v]>>]]
    IN  GenericIndex(InsertChildren(I, g.scopes, IF listed THEN variants ELSE <<>>),
                     name, Len(I.entries), tmpl, args)
NewEnum(g, tmpl, name, args, listed) ==
    LET e == g.entries[tmpl]
    IN  AddEnum(MakeChild(ResolveFields(g, e.fields, e.generic, args)), tmpl, name, args, listed)

\* check_structcall makes a child Register that nothing refers to.
AddStruct(r, tmpl, name, args) ==
    LET I == Insert(r.g, Globals, [Blank("Struct") EXCEPT !.name = name, !.types = r.types])
    IN  GenericIndex(I, name, Len(I.entries), tmpl, args)
NewStruct(g, tmpl, name, args) ==
    LET e == g.entries[tmpl]
    IN  AddStruct(ResolveAll(Start(g), e.types, e.generic, args), tmpl, name, args)

\* Bug for the mutation runs: a generic type keeps its arguments.
ResolveShallow(g, t, generic, args) ==
    [g |-> g, type |-> IF t.args = <<>> THEN Substitute(t, generic, args) ELSE t]

\* resolve_type.  Naming a type that was read past its array may crash: wild.
\* A name that leads to neither an enum nor a struct is made up all the same.
Instance(g, tmpl, name, args) ==
    LET tag == IF ByName(g, name) # 0 \/ tmpl = 0 THEN "" ELSE g.entries[tmpl].tag
    IN  [type |-> Custom(name, <<>>),
         g |-> CASE tag = "Enum" -> NewEnum(g, tmpl, name, args, TRUE)
                 [] tag = "Struct" -> NewStruct(g, tmpl, name, args)
                 [] OTHER -> g]
InstanceOf(g, of, args) ==
    Instance([g EXCEPT !.wild = @ \/ Garbage \in Range(args)], ByName(g, of), SetName(g, of, args), args)
Resolve(g, t, generic, args) ==
    IF t.args = <<>> THEN [g |-> g, type |-> Substitute(t, generic, args)]
    ELSE InstanceOf(g, t.name, [i \in DOMAIN t.args |-> Substitute(Word(t.args[i]), generic, args)])

\* Bug for the mutation runs: the parameters are substituted where they stand.
CopyParamsInPlace(g, tmpl, args) ==
    LET P == ResolveAll(Start(g), g.entries[tmpl].types, g.entries[tmpl].generic, args)
    IN  [P EXCEPT !.g.entries[tmpl].types = P.types]

\* The parameters of the copy: memcpy and generic_param.
CopyParams(g, tmpl, args) ==
    ResolveAll(Start(g), g.entries[tmpl].types, g.entries[tmpl].generic, args)

\* The copy of a function: its entry, its parameters, and what else is in the
\* child of the template, entry by entry.
AddFunction(g, types, ret, tmpl, name, args) ==
    LET I == Insert(g, Globals, [Blank("Function") EXCEPT !.name = name, !.types = types,
                                     !.ret = ret, !.kids = <<g.scopes>>])
        template == g.entries[tmpl].kids[1]
        body == SelectSeq(g.entries, LAMBDA x : x.scope = template /\ x.tag # "Param")
        params == [i \in DOMAIN types |-> [Blank("Param") EXCEPT !.types = <<types[i]>>]]
    IN  GenericIndex(InsertChildren(I, g.scopes, params \o body), name, Len(I.entries), tmpl, args)
AddReturn(types, r, tmpl, name, args) ==
    AddFunction(MakeChild(r.g), types, r.type, tmpl, name, args)
AddParams(r, tmpl, name, args) ==
    LET e == r.g.entries[tmpl]
    IN  AddReturn(r.types, Resolve(r.g, e.ret, e.generic, args), tmpl, name, args)
NewFunction(g, tmpl, name, args) == AddParams(CopyParams(g, tmpl, args), tmpl, name, args)

-----------------------------------------------------------------------------
(* check_expr and its handlers.  Each yields the tables and the frames to  *)
(* push: one when a function was copied.                                   *)

Frame(s, fn, call, name) == [scope |-> s, at |-> 1, fn |-> fn, call |-> call, name |-> name]

Yield(g, more) == [g |-> g, more |-> more]

\* The last statements of the three handlers.
Rewrite(g, id, name) == [g EXCEPT !.entries[id].call = [name |-> name, args |-> <<>>]]

\* check_functioncall.  The call is rewritten when the body has been checked.
Enter(g, fn, id, name) == Yield(g, <<Frame(g.entries[fn].kids[1], fn, id, name)>>)
CallOf(g, id, fn, name, args) ==
    IF ByName(g, name) # 0 THEN Yield(Rewrite(g, id, name), <<>>)
    ELSE LET N == NewFunction(g, fn, name, args) IN Enter(N, ByName(N, name), id, name)
CheckFunctionCall(g, id) ==
    LET call == g.entries[id].call
        fn == ByName(g, call.name)
        args == SetGenericType(call.args)
    IN  IF call.args = <<>> \/ fn = 0 THEN Yield(g, <<>>)
        ELSE CallOf(g, id, fn, SetName(g, call.name, args), args)

\* check_enumcall and check_structcall.
ValueOf(g, id, tmpl, name, args) ==
    Rewrite(IF ByName(g, name) # 0 THEN g
            ELSE IF g.entries[tmpl].tag = "Enum" THEN NewEnum(g, tmpl, name, args, TRUE)
            ELSE MakeChild(NewStruct(g, tmpl, name, args)), id, name)
CheckValue(g, id, tag) ==
    LET call == g.entries[id].call
        tmpl == ByName(g, call.name)
        args == SetGenericType(call.args)
    IN  IF call.args = <<>> \/ tmpl = 0 THEN g
        ELSE IF g.entries[tmpl].tag # tag THEN g
        ELSE ValueOf(g, id, tmpl, SetName(g, call.name, args), args)

CheckExpr(g, id) ==
    LET tag == g.entries[id].tag
    IN  CASE tag = "ExprFunctionCall" -> CheckFunctionCall(g, id)
          [] tag = "ExprEnumCall" -> Yield(CheckValue(g, id, "Enum"), <<>>)
          [] tag = "ExprStructCall" -> Yield(CheckValue(g, id, "Struct"), <<>>)
          [] OTHER -> Yield(g, <<>>)

\* check_var, the declared type: every template is taken for an enum.  The
\* fields of a struct read as variants are followed to an address that is none;
\* a struct without fields becomes an enum without variants.
TypeOf(g, id, tmpl, name, args) ==
    LET misread == tmpl # 0 /\ g.entries[tmpl].tag # "Enum"
    IN  [(IF ByName(g, name) # 0 \/ tmpl = 0 THEN g
          ELSE IF misread /\ g.entries[tmpl].types # <<>> THEN [g EXCEPT !.lost = TRUE]
          ELSE NewEnum(g, tmpl, name, args, FALSE))
             EXCEPT !.entries[id].types = <<Custom(name, <<>>)>>]
CheckType(g, id) ==
    LET t == g.entries[id].types[1]
        args == SetGenericType(t.args)
    IN  IF t.args = <<>> THEN g ELSE TypeOf(g, id, ByName(g, t.name), SetName(g, t.name, args), args)

-----------------------------------------------------------------------------
(* The loops of check_generic (the outermost frame) and check_body.  Both  *)
(* read next_id again for every entry.                                     *)

Running == outcome = "running" /\ frames # <<>>
Top == frames[Len(frames)]
Left == {i \in InScope(tab, Top.scope) : i >= Top.at}
Id == CHOOSE i \in Left : \A j \in Left : i <= j
E == tab.entries[Id]

\* The entry the loop has come to; depth 1 is check_generic.
At(tags, global) ==
    /\ Running /\ Left # {}
    /\ E.tag \in tags /\ (Len(frames) = 1) = global

\* Bug for the mutation runs: a loop starts the scan of its scope again.
PastRestart == [frames EXCEPT ![Len(frames)].at = IF E.tag = "While" THEN 1 ELSE Id + 1]

\* Where the top frame goes on.
Past == [frames EXCEPT ![Len(frames)].at = Id + 1]

\* The end of one iteration: r is what the handlers yield.
Done(r) ==
    /\ tab' = [r.g EXCEPT !.wild = FALSE, !.lost = FALSE]
    /\ frames' = Past \o r.more
    /\ LET after == IF Len(frames') > MaxFrames THEN "overflow" ELSE "running"
       IN  outcome' \in IF r.g.lost THEN {"crashed"}
                        ELSE IF r.g.wild THEN {after, "crashed"} ELSE {after}
    /\ UNCHANGED slot0

Body(i, fn) == Frame(i, fn, 0, <<>>)

\* check_function and check_enum.  Only an enum among the instances is skipped.
CheckFunction == At({"Function"}, TRUE) /\ Done(Yield(tab, <<Body(E.kids[1], Id)>>))
CheckEnum ==
    /\ At({"Enum"}, TRUE)
    /\ Done(Yield(tab, IF E.name \in DOMAIN tab.seen THEN <<>> ELSE <<Body(E.kids[1], Id)>>))

\* Bug for the mutation runs: the condition and the first body only.
BranchesTwo(kids) == Reverse(SubSeq(kids, 1, 2))

\* check_body calls itself on each child in turn.
Branches(kids) == Reverse(kids)

CheckBranches ==
    /\ At({"If", "Elif", "Match"}, FALSE)
    /\ Done(Yield(tab, [i \in DOMAIN Branches(E.kids) |-> Body(Branches(E.kids)[i], Top.fn)]))

CheckCall == At(Calls, FALSE) /\ Done(CheckExpr(tab, Id))

\* check_var.  The field that holds the initialiser of a var is read: for a let
\* or a const it is the child Register, which is no call.
CheckVar ==
    /\ At({"Var"}, FALSE)
    /\ Done(IF E.expr = 0 THEN Yield(CheckType(tab, Id), <<>>) ELSE CheckExpr(CheckType(tab, Id), E.expr))
CheckLet == At({"Let", "Const"}, FALSE) /\ Done(Yield(CheckType(tab, Id), <<>>))
CheckConst == At({"Const"}, TRUE) /\ Done(Yield(CheckType(tab, Id), <<>>))

\* Bug for the mutation runs: a type that is set already is kept.
ReturnTypeOnce(e, fn) == IF e.ret = NoType THEN fn.ret ELSE e.ret

ReturnType(e, fn) == fn.ret

Typed(e) == [tab EXCEPT !.entries[Id].ret = ReturnType(e, tab.entries[Top.fn])]

\* check_return, with an expression.
CheckReturn == At({"Return"}, FALSE) /\ E.expr # 0 /\ Done(CheckExpr(Typed(E), E.expr))

\* check_return without one looks up the entry 0.  What stands at an address
\* that may be read has no tag check_expr has a case for.
CheckBareReturn ==
    /\ At({"Return"}, FALSE) /\ E.expr = 0
    /\ slot0' \in IF slot0 = "unread" THEN SlotZero ELSE {slot0}
    /\ tab' = IF slot0' = "null" THEN tab ELSE Typed(E)
    /\ frames' = Past
    /\ outcome' = IF slot0' = "unmapped" THEN "crashed" ELSE "running"

\* Entries the switch has no case for; a while and a for are among them.
Skip ==
    \/ At({"Struct", "Var", "Let", "Class"}, TRUE) /\ Done(Yield(tab, <<>>))
    \/ At({"Param", "EnumVariant", "ExprStmt", "While", "ExprLiteral"}, FALSE) /\ Done(Yield(tab, <<>>))

\* check_body returns; to check_functioncall when it has a call to rewrite.
EndLoop ==
    /\ Running /\ Left = {}
    /\ tab' = IF Top.call = 0 THEN tab ELSE Rewrite(tab, Top.call, Top.name)
    /\ frames' = Front(frames)
    /\ UNCHANGED <<slot0, outcome>>

\* main goes on, or the process has ended.
Returned == ~Running /\ UNCHANGED vars

Init ==
    /\ tab \in Sources
    /\ frames = <<Body(Globals, 0)>>
    /\ slot0 = "unread"
    /\ outcome = "running"

Next == \/ CheckFunction \/ CheckEnum \/ CheckBranches \/ CheckCall \/ CheckVar \/ CheckLet
        \/ CheckConst \/ CheckReturn \/ CheckBareReturn
        \/ Skip \/ EndLoop \/ Returned

\* check_generic is called once and returns to main: a step is taken as long as
\* there is one.  That is as long as Running, for the run finds no deadlock and
\* every other disjunct moves a frame: this is WF_vars(Next) in a form TLC can
\* evaluate.
Fairness == <>[]Running => []<><<Next>>_vars

Spec == Init /\ [][Next]_vars /\ Fairness

-----------------------------------------------------------------------------
(* Properties.                                                             *)

Ids == DOMAIN tab.entries
Ended == frames = <<>> /\ outcome = "running"

TypeType(t) == /\ t.kind \in {"Prim", "Custom", "Ptr", "Garbage", "Void"}
               /\ t.args # <<>> => t.kind = "Custom"

\* Ids, scopes and addresses that are referred to exist; a name leads to an
\* entry of that name in the global scope, and what is among the instances is
\* a global entry made from another; a frame walks a scope that exists.
GenericTypeOK ==
    /\ \A i \in Ids :
           LET e == tab.entries[i]
           IN  /\ e.scope \in 1 .. tab.scopes /\ e.expr \in 0 .. Len(tab.entries)
               /\ Range(e.kids) \subseteq (Globals + 1) .. tab.scopes
               /\ Range(e.fields) \subseteq DOMAIN tab.heap
               /\ \A t \in Range(e.types) \cup {e.ret} : TypeType(t)
    /\ \A n \in DOMAIN tab.names : tab.entries[tab.names[n]].name = n
    /\ \A n \in DOMAIN tab.seen : tab.seen[n] \in DOMAIN tab.made /\ tab.entries[tab.seen[n]].name = n
    /\ \A i \in DOMAIN tab.made : tab.made[i].of < i /\ tab.entries[i].scope = Globals
    /\ \A k \in DOMAIN frames :
           frames[k].scope \in 1 .. tab.scopes /\ frames[k].call \in 0 .. Len(tab.entries)
    /\ slot0 \in SlotZero \cup {"unread"}
    /\ outcome \in {"running", "crashed", "overflow"}

\* One instance is made for a template and a list of arguments, and its name
\* leads to it: generic_contains and register_by_name stand between a request
\* and a second copy, and a copy whose name is taken is given another.  A
\* declaration that has the name of an instance breaks the first part, and is
\* left out of it (set_name then makes a copy for every call).
Undisturbed(i) ==
    tab.entries[i].name = Candidate(tab.entries[tab.made[i].of].name, tab.made[i].args)
InstancesUnique ==
    /\ \A i \in DOMAIN tab.made : ByName(tab, tab.entries[i].name) = i
    /\ \A i, j \in DOMAIN tab.made : tab.made[i] = tab.made[j] /\ Undisturbed(i) => i = j

\* The scopes of the statements of a function that check_body reaches.
RECURSIVE BodyScopes(_)
BodyScopes(ss) ==
    LET inner == UNION {Range(tab.entries[i].kids) :
                            i \in {j \in Ids : /\ tab.entries[j].scope \in ss
                                               /\ tab.entries[j].tag \in {"If", "Elif", "Match"}}}
    IN  IF inner \subseteq ss THEN ss ELSE BodyScopes(ss \cup inner)
Functions == {i \in InScope(tab, Globals) : tab.entries[i].tag = "Function"}
BodyOf(f) == BodyScopes(Range(tab.entries[f].kids))
In(ss, tags) == {i \in Ids : tab.entries[i].scope \in ss /\ tab.entries[i].tag \in tags}

\* When check_generic returns, no generic call is left in the body of a
\* function, in a branch or an arm of it, or as the initialiser of a var, in
\* templates and instances alike: the lowering that follows knows no arguments.
\* A call that leads nowhere, or to something of another kind, stays.
Callee(i) == ByName(tab, tab.entries[i].was.name)
Settled(i) == /\ tab.entries[i].call.args = <<>>
              /\ ByName(tab, tab.entries[i].call.name) # 0
CallsSettled ==
    Ended => \A f \in Functions :
        /\ \A i \in In(BodyOf(f), Calls) : Callee(i) # 0 => Settled(i)
        /\ \A v \in In(BodyOf(f), {"Var"}) :
               LET i == tab.entries[v].expr
               IN  i # 0 /\ tab.entries[i].tag \in Calls /\ Callee(i) # 0 => Settled(i)

\* got is the type that t is when the parameters stand for the arguments.
Positions(e, n) == {k \in DOMAIN e.generic : e.generic[k].name = n}
Stands(e, args, n, got) ==
    IF Positions(e, n) = {} THEN got = Word(n)
    ELSE \A k \in Positions(e, n) : k <= Len(args) /\ got = Word(args[k])
RightType(e, args, t, got) ==
    CASE t.kind = "Ptr" -> got.kind = "Ptr" /\ Stands(e, args, t.name, Word(got.name))
      [] t.kind # "Custom" -> got = t
      [] t.args = <<>> -> Stands(e, args, t.name, got)
      [] OTHER -> LET i == ByName(tab, got.name)
                  IN  /\ got.args = <<>> /\ i \in DOMAIN tab.made
                      /\ tab.made[i].of = ByName(tab, t.name)
                      /\ \A k \in DOMAIN t.args : Stands(e, args, t.args[k], tab.made[i].args[k])
RightList(e, args, ts, got) ==
    Len(ts) = Len(got) /\ \A k \in DOMAIN ts : RightType(e, args, ts[k], got[k])
\* The entry i is the instance of the template m that a call written w asks
\* for; variants is what was declared of the fields, by address.
RightCopy(i, m, w, declared) ==
    LET e == tab.entries[m] c == tab.entries[i]
    IN  /\ c.tag = e.tag /\ i # m
        /\ RightList(e, w.args, e.types, c.types)
        /\ RightType(e, w.args, e.ret, c.ret)
        /\ Len(c.fields) = Len(e.fields)
        /\ \A v \in DOMAIN c.fields :
               RightList(e, w.args, declared[e.fields[v]], tab.heap[c.fields[v]])

\* Functions and structs with one parameter, none of whose types is a pointer
\* to it or a name of another declaration.
Plain(e, w) ==
    LET own == {e.generic[k].name : k \in DOMAIN e.generic}
    IN  /\ e.tag \in {"Function", "Struct"} /\ Len(e.generic) = 1 /\ Len(w.args) = 1
        /\ \A t \in Range(e.types) \cup {e.ret} :
               /\ t.kind # "Ptr"
               /\ t.kind = "Custom" =>
                      IF t.args = <<>> THEN t.name \in own
                      ELSE \A k \in DOMAIN t.args : Word(t.args[k]).kind = "Prim" \/ t.args[k] \in own

Resolved == {i \in Ids : /\ tab.entries[i].tag \in Calls /\ tab.entries[i].was.args # <<>>
                         /\ tab.entries[i].call.args = <<>>}

\* A call of a plain template that has been rewritten names the copy it asked
\* for: the template of that name, with the types its arguments stand for in
\* every place the parameter was, in the result and inside other generics.
CallsRight ==
    \A i \in Resolved :
        LET w == tab.entries[i].was
        IN  Plain(tab.entries[Callee(i)], w)
                => RightCopy(ByName(tab, tab.entries[i].call.name), Callee(i), w, <<>>)

\* The same of every call; what the update notes promise.
EveryCallRight ==
    \A i \in Resolved :
        RightCopy(ByName(tab, tab.entries[i].call.name), Callee(i), tab.entries[i].was, tab.declared)

\* When check_generic returns, a return statement with a value has the result
\* type of its function: in a template and in an instance when it stands in the
\* body itself, in a function that was never copied wherever it stands.
Copied == {tab.made[i].of : i \in DOMAIN tab.made} \cup DOMAIN tab.made
ReturnsOwn ==
    Ended => \A f \in Functions :
        LET ss == IF f \in Copied THEN Range(tab.entries[f].kids) ELSE BodyOf(f)
        IN  \A r \in In(ss, {"Return"}) :
                tab.entries[r].expr # 0 => tab.entries[r].ret = tab.entries[f].ret

\* No step alters a function or a struct that is in the tables, template or
\* instance, takes a name from the entry it leads to, or gives a call that has
\* been rewritten another name: calls in bodies that share their entries are
\* visited again for every instance.
TemplatesKept ==
    [][/\ \A i \in Ids : tab.entries[i].tag \in {"Function", "Struct"} => tab'.entries[i] = tab.entries[i]
       /\ \A n \in DOMAIN tab.names : tab'.names[n] = tab.names[n]
       /\ \A i \in Resolved : tab'.entries[i].call = tab.entries[i].call]_vars

\* No function template calls, where check_body looks, for an instance under a
\* name that a declaration has.
Requests(f) ==
    {i \in In(BodyOf(f), Calls) \cup {tab.entries[v].expr : v \in In(BodyOf(f), {"Var", "Return"})} :
         i # 0 /\ tab.entries[i].call.args # <<>>}
NamesFree ==
    \A f \in {i \in Functions : tab.entries[i].generic # <<>>} : \A i \in Requests(f) :
        LET call == tab.entries[i].call
        IN  Candidate(call.name, SetGenericType(call.args)) \notin DOMAIN tab.names

\* check_generic returns, although the loops visit the instances they add and
\* the body of an instance asks for more, itself among them: in programs with
\* NamesFree.  (No struct or enum of the sources holds itself.)
GenericEnds == NamesFree => <>(frames = <<>> \/ outcome = "crashed")

\* The same of every program: the stack is never full.  A generic function that
\* is used is copied, the update notes have it, and a program of n templates and
\* m lists of arguments has n * m copies to make, with MaxFrames well above that.
EveryPassFits == outcome # "overflow"
=============================================================================
