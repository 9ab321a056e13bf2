------------------------------ MODULE Register ------------------------------
(***************************************************************************)
(* The symbol tables of the Vix compiler: src/register/register.c and the  *)
(* types of include/register.h.                                            *)
(*                                                                         *)
(* Every registered AST node is a RegisterEntry with an id taken from one  *)
(* counter (IDCounter).  The entry is reachable two ways: by id through    *)
(* the flat array global_flat, and by name or id through the hash table of *)
(* the scope (a Register) it was inserted in.  Scopes form a tree through  *)
(* Register.parent; a scope that is the body of a function or of a loop    *)
(* carries the id of that entry in owner_id, and register_insert uses it   *)
(* to stamp every entry with the function it belongs to (owner_fn_id).     *)
(*                                                                         *)
(* All of it lives in one record R, so that a handler that makes several   *)
(* inserts is the composition of the operators below:                      *)
(*   next    IDCounter.next_id                                             *)
(*   cap     global_flat_cap (0 until the first insert)                    *)
(*   flat    global_flat, id -> entry                                      *)
(*   scopes  number of Register objects made; they are named 1, 2, ...     *)
(*   parent  Register.parent, 0 for NULL                                   *)
(*   owner   Register.owner_id, 0 for none                                 *)
(*   names   the name keys of Register.table: name -> id, 0 when absent    *)
(*   encl    auxiliary (not in the code): the innermost function whose     *)
(*           body contains the scope, 0 for none                           *)
(* The id keys of Register.table are not kept apart: scope s holds the key *)
(* "i" exactly when flat[i].scope = s, because both are written by the     *)
(* same insert and never removed.  Two fields of an entry are auxiliary:   *)
(* scope, the scope it was inserted in, and pos, the source statement that *)
(* was being registered.  The tables `pending' and `mono', never written   *)
(* here, and the depth map, which depth_map_init would have to create and  *)
(* which nobody calls, are left out.                                       *)
(***************************************************************************)
EXTENDS Naturals, Sequences

CONSTANTS
    Name,      \* the names declarations can have
    NoName,    \* decl_name_range left empty: no name key is put
    FlatCap0   \* first capacity of global_flat (1024 in the code)

\* Capacity 1 would not hold the first id, which is 1: 2 is the least that works.
ASSUME FlatCapAssumption == FlatCap0 \in Nat /\ FlatCap0 >= 2
ASSUME NoNameAssumption == NoName \notin Name

NameOpt == Name \cup {NoName}

\* RegisterEntryTag: statements, atoms of expressions, and the others.
StmtTags == {"Function", "Struct", "Enum", "Class", "Trait", "Extern", "Var",
             "Let", "Const", "If", "Elif", "While", "For", "Match", "Return",
             "ExprStmt", "Module", "Atomic", "Else"}
AtomTags == {"ExprLiteral", "ExprIdentifier"}
OtherTags == {"Param", "EnumVariant", "ExternFunc", "ExprFunctionCall",
              "ExprBinaryOp", "ExprArray", "ExprEnumCall", "ExprField", "ExprIdx",
              "ExprUnary", "ExprAddrOf", "ExprCast", "ExprTuple", "ExprStructCall"}
Tags == StmtTags \cup AtomTags \cup OtherTags

\* What a handler puts in the compound literal it passes to register_insert:
\* tag, decl_name_range, the statement it comes from (auxiliary), the child
\* Registers it stores in order, and the id of the expression it stores
\* (cond_id, iter_id, expr_id or the id of init; 0 for NULL).
D(tag, name, pos, kids, expr) ==
    [tag |-> tag, name |-> name, pos |-> pos, kids |-> kids, expr |-> expr]

Entry(d, s, fn) ==
    [tag |-> d.tag, name |-> d.name, pos |-> d.pos, kids |-> d.kids,
     expr |-> d.expr, scope |-> s, fn |-> fn]

-----------------------------------------------------------------------------

\* register_new(NULL, counter) on zeroed globals: the global scope is 1.
RegisterNew ==
    [next |-> 1, cap |-> 0, flat |-> <<>>, scopes |-> 1,
     parent |-> <<0>>, owner |-> <<0>>,
     names |-> <<[n \in Name |-> 0]>>, encl |-> <<0>>]

Extend(f, x, v) == [y \in DOMAIN f \cup {x} |-> IF y = x THEN v ELSE f[y]]

\* Bug for the mutation runs: the array grows one insert too late.
GrowFlatLate(cap, id) ==
    IF id > cap THEN IF cap = 0 THEN FlatCap0 ELSE 2 * cap ELSE cap

\* The growth test of global_flat_insert: one doubling per insert, no loop.
GrowFlat(cap, id) ==
    IF id >= cap THEN IF cap = 0 THEN FlatCap0 ELSE 2 * cap ELSE cap

\* Bug for the mutation runs: the value is stored without looking at `absent'.
PutNameLast(tab, n, id) ==
    IF n \in Name THEN [tab EXCEPT ![n] = id] ELSE tab

\* register_table_put on the name key: `absent' tells whether the key was new,
\* and only then is the value stored, so the first declaration keeps the name.
PutName(tab, n, id) ==
    IF n \in Name /\ tab[n] = 0 THEN [tab EXCEPT ![n] = id] ELSE tab

\* Bug for the mutation runs: the owner itself, even when it is a loop.
OwnerFnDirect(R, s) == R.owner[s]

\* Bug for the mutation runs: the id of the entry that is being inserted.
OwnerFnSelf(R, s) == R.next

\* owner_fn_id as register_insert computes it from reg->owner_id alone.
OwnerFn(R, s) ==
    LET o == R.owner[s] IN
    IF o = 0 THEN 0 ELSE IF R.flat[o].tag = "Function" THEN o ELSE R.flat[o].fn

\* What both inserts share: take an id, store in global_flat, put the keys.
Store(R, s, d, fn) ==
    [next   |-> R.next + 1,
     cap    |-> GrowFlat(R.cap, R.next),
     flat   |-> Extend(R.flat, R.next, Entry(d, s, fn)),
     scopes |-> R.scopes,
     parent |-> R.parent,
     owner  |-> R.owner,
     names  |-> [R.names EXCEPT ![s] = PutName(R.names[s], d.name, R.next)],
     encl   |-> R.encl]

\* The id returned by the last insert is LastId of the resulting register.
LastId(R) == R.next - 1

\* Bug for the mutation runs: the stamp is forgotten.
RegisterInsertPlain(R, s, d) == Store(R, s, d, 0)

RegisterInsert(R, s, d) == Store(R, s, d, OwnerFn(R, s))

\* register_insert_child stores entry.owner_fn_id as the caller left it: zero.
RegisterInsertChild(R, s, d) == Store(R, s, d, 0)

\* make_child(parent): a fresh scope without an owner.  It is R.scopes + 1.
MakeChild(R, s) ==
    LET c == R.scopes + 1 IN
    [next   |-> R.next, cap |-> R.cap, flat |-> R.flat,
     scopes |-> c,
     parent |-> Extend(R.parent, c, s),
     owner  |-> Extend(R.owner, c, 0),
     names  |-> Extend(R.names, c, [n \in Name |-> 0]),
     encl   |-> Extend(R.encl, c, R.encl[s])]

\* child->owner_id = eid, which the handlers of functions and loops do by hand.
SetOwner(R, s, o) ==
    [next   |-> R.next, cap |-> R.cap, flat |-> R.flat, scopes |-> R.scopes,
     parent |-> R.parent,
     owner  |-> [R.owner EXCEPT ![s] = o],
     names  |-> R.names,
     encl   |-> IF R.flat[o].tag = "Function" THEN [R.encl EXCEPT ![s] = o]
                ELSE R.encl]

-----------------------------------------------------------------------------

\* register_get: the nearest binding of n from s outwards, 0 when there is none.
RegisterGet(R, s, n) ==
    LET from[t \in 0..R.scopes] ==
            IF t = 0 THEN 0
            ELSE IF R.names[t][n] # 0 THEN R.names[t][n] ELSE from[R.parent[t]]
    IN from[s]

\* register_by_name looks in the global scope only.
RegisterByName(R, n) == IF n \in Name THEN R.names[1][n] ELSE 0

\* register_from_scope: an id is found only in the scope it was inserted in.
RegisterFromScope(R, s, id) ==
    IF id \in DOMAIN R.flat /\ R.flat[id].scope = s THEN id ELSE 0

\* register_get_function
RegisterGetFunction(R, id) == R.flat[id].fn

-----------------------------------------------------------------------------
(* What makes a register well formed.                                      *)

IdsOf(R) == 1..(R.next - 1)

EntryType == [tag : Tags, name : NameOpt, pos : Nat, kids : Seq(Nat),
              expr : Nat, scope : Nat, fn : Nat]
\* The tag "none" stands for a handler that inserts nothing when it returns.
DescType == [tag : Tags \cup {"none"}, name : NameOpt, pos : Nat,
             kids : Seq(Nat), expr : Nat]

\* Ids and scopes are numbered without gaps, every reference is to one that
\* exists, and a scope is younger than its parent.
RegisterOK(R) ==
    /\ R.next \in Nat \ {0} /\ R.scopes \in Nat \ {0} /\ R.cap \in Nat
    /\ R.flat \in [IdsOf(R) -> EntryType]
    /\ R.parent \in [1..R.scopes -> Nat]
    /\ R.owner \in [1..R.scopes -> 0..(R.next - 1)]
    /\ R.names \in [1..R.scopes -> [Name -> 0..(R.next - 1)]]
    /\ R.encl \in [1..R.scopes -> 0..(R.next - 1)]
    /\ \A s \in 1..R.scopes : R.parent[s] < s
    /\ \A i \in IdsOf(R) : R.flat[i].scope \in 1..R.scopes /\ R.flat[i].fn < i

\* Every id taken is an index of the array global_flat.
BoundsOK(R) == \A i \in IdsOf(R) : i < R.cap

\* A name key leads to an entry of that name in that scope, and every named
\* entry is at or after the one its name leads to.
NamesOK(R) ==
    /\ \A s \in 1..R.scopes, n \in Name :
           LET id == R.names[s][n]
           IN id # 0 => R.flat[id].scope = s /\ R.flat[id].name = n
    /\ \A i \in IdsOf(R) :
           LET e == R.flat[i]
           IN e.name \in Name => R.names[e.scope][e.name] \in 1..i

\* A stamp is the id of the innermost function around the scope of the entry.
OwnersOK(R) ==
    \A i \in IdsOf(R) : LET e == R.flat[i]
                        IN e.fn # 0 => /\ e.fn = R.encl[e.scope]
                                       /\ R.flat[e.fn].tag = "Function"

\* The owner of a scope is the function the scope is the body of, or a loop
\* that stands in the same function as the scope.
LinksOK(R) ==
    \A s \in 1..R.scopes :
        LET o == R.owner[s]
        IN o # 0 => R.encl[s] = IF R.flat[o].tag = "Function" THEN o
                                ELSE R.encl[R.flat[o].scope]

\* A stamp is what register_insert would put today, but for the parameters of
\* plain functions.
StampsOK(R) ==
    \A i \in IdsOf(R) : LET e == R.flat[i]
                        IN \/ e.fn = OwnerFn(R, e.scope)
                           \/ e.tag = "Param" /\ e.fn = 0

\* The array has room for the ids taken, and is never of capacity 1.
CapOK(R) == (R.cap = 0 /\ R.next = 1) \/ (R.cap >= 2 /\ R.next <= R.cap)

WellFormed(R) ==
    /\ RegisterOK(R) /\ CapOK(R) /\ NamesOK(R)
    /\ OwnersOK(R) /\ LinksOK(R) /\ StampsOK(R)

\* Q comes after R: no entry is forgotten or altered, no scope is moved, and
\* neither a name nor an owner, once set, changes.
Follows(Q, R) ==
    /\ Q.next >= R.next /\ Q.scopes >= R.scopes
    /\ \A i \in IdsOf(R) : Q.flat[i] = R.flat[i]
    /\ \A s \in 1..R.scopes :
           /\ Q.parent[s] = R.parent[s]
           /\ R.owner[s] # 0 => Q.owner[s] = R.owner[s]
           /\ \A n \in Name : R.names[s][n] # 0 => Q.names[s][n] = R.names[s][n]
=============================================================================
