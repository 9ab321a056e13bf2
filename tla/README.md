# A verification of the Vix compiler

This directory holds TLA+ models of the Vix compiler (the C program under
`src/`), the TLC configurations that check them on small instances, and proofs,
checked by TLAPS, of what holds for every instance. Paths below are relative to
the repository (`src/register/stmt.c` is the compiler's own file).

## 1. The system

`vix run file.vix` is one pass over one file, in one thread (`src/main.c`):

| part | state it keeps | operations | hands over |
|---|---|---|---|
| main driver, `main.c` | the error list, the file manager, the global Register | parse loop, register, monomorphise, lower, generate, verify, link | calls every other part in that order |
| lexer, `syntax/lexer.c` | cursor, token on top, table of line starts | `lexer_peek`, `lexer_advance`, copies for lookahead | tokens to the parser, line starts to the file manager |
| parser, `syntax/parser.c` | a lexer by value, a pointer to the error list | one function per construct, EXPECT, synchronisation after an error | an array of `Stmts` |
| symbol tables, `register/register.c` | `IDCounter`, `global_flat`, one hash table per scope, `parent`, `owner_id` | `register_insert`, `register_insert_child`, `make_child`, lookups by name, by id, by scope | entries, shared by pointer with every later phase |
| registration, `register/stmt.c`, `register/expr.c` | only the symbol tables | one handler per statement and per expression, recursive | the filled tables |
| monomorphisation, `generic.c` | the same tables, a set of names already made | `check_generic`, `check_body`, one function per generic construct | instances, added to the tables while they are walked |
| lowering, `ir/ir.c` | an array of IR statements per body | `lower_stmt` visits a scope by increasing id | an IR module |
| code generation, `codegen/` | the LLVM builder and its block, `symbol_table` (id to value) | one function per IR node | an LLVM module, which `main` verifies |
| footprint, `footprint/footprint.c` | writers per symbol group, string tables, files under the build root | chunked writes of packs, the snapshot file | files |
| project pack, `footprint/pack.c`, `config.c` | `.project.pack`, `config.toml` | read, compare, delete, write | ownership flags |
| file manager, diagnostics, printers | paths and line starts | locations, messages | text |

What is hard here is not concurrency inside the compiler (there is one thread)
but distance: a handler of the registration inserts an entry, and ten functions
later, in another file, lowering looks for it by its id *in one particular
scope* and does nothing, silently, when it is not there. The order of
`make_child`, `owner_id =` and `register_insert` in twenty handlers decides
whether a return knows its function, whether a name means what it should, and
whether a statement is emitted at all. The files kept on disk are the other
hard part: they are read, changed and written back by any number of compilers,
any of which can be killed.

What makes each part correct:

- *symbol tables*: every id is an index of `global_flat`; a name leads to the
  first declaration of its scope, and never changes; a function stamp is the
  innermost function.
- *registration*: every statement gets one entry, in the scope of the body it
  stands in, in the order of the source; the ids it stores can be found where
  lowering looks.
- *lowering*: every statement of a function body is emitted once, in order,
  under the branch it stands in; a name resolves as it did where it was used.
- *monomorphisation*: the walk ends; an instance is made once per list of type
  arguments and does not disturb its template.
- *code generation*: every block ends with one terminator.
- *lexer and parser*: every loop makes progress on every input; a well formed file
  comes back as the tree it is; what is dropped is reported, and an error costs no
  more than the construct it is in.
- *project pack and snapshot*: a reader sees a complete file or none; what a run
  does not own survives it.

`PROJECT.json` lists every part with what is modelled of it, and, under
`hazards`, the places in the code where these can go wrong, each with the
properties that cover it or the reason why none does.

## 2. What is modelled

### Register.tla: the symbol tables

Pure operators on one record `R`, one operator per C function, so that a handler
that inserts five entries is a composition of five of them.

| code | model |
|---|---|
| `IDCounter.next_id` | `R.next` |
| `global_flat`, `global_flat_cap` | `R.flat` (id to entry), `R.cap` |
| a `Register`, `.parent`, `.owner_id` | a number in `1..R.scopes`, `R.parent`, `R.owner` |
| name keys of `Register.table` | `R.names[scope][name]`, 0 when absent |
| id keys of `Register.table` | `R.flat[i].scope`: id `i` is a key of exactly that scope |
| `register_new`, `make_child` | `RegisterNew`, `MakeChild` |
| `register_insert`, `register_insert_child` | `RegisterInsert`, `RegisterInsertChild` |
| `global_flat_insert`, `register_table_put` | `GrowFlat`, `PutName` |
| the stamp computed at the head of `register_insert` | `OwnerFn` |
| `child->owner_id = eid.id` | `SetOwner` |
| `register_get`, `register_by_name`, `register_from_scope`, `register_get_function` | operators of those names |

`R.encl`, and the fields `scope` and `pos` of an entry, are auxiliary: they record
which function a scope really is in, and which source statement an entry comes
from, so that properties can compare what the code stores with the truth. No
operator that models code reads `encl`.

The module ends with the predicates that say when such a record is well formed;
the properties and the inductive invariant are made of them.

### RegisterStmt.tla: the walk

The handlers call one another recursively over the AST. The model makes the C
stack explicit: a handler that is in the middle of a loop (over statements,
parameters, methods, variants, functions, arms) is a *frame* of `stack`. A handler
is then one action from its entry to its loop, one action per iteration, and one
action from the end of the loop to the return. Handlers with no nested statement
are a single action. The AST is not built beforehand: the next statement,
expression and name are chosen when they are met, and recorded in `src`, so that a
run of TLC covers every program within the bounds.

| code | action |
|---|---|
| `register_struct`, `register_var`, `register_let`, `register_const`, `register_return`, `register_expr_stmt`, `register_atomic` | the action of that name |
| `register_if`, `register_elif` | `RegisterIf`, `RegisterElif` (up to the body), `SkipElse` (an else clause, which `register_stmt` ignores), `EndIf` (the entry) |
| `register_pattern_condition` | `RegisterPatternCondition` |
| `register_while`, `register_for` | `RegisterWhile`, `RegisterFor`, then `EndBody` |
| `register_match` | `RegisterMatch`, `BeginArm` per case, `EndMatch` |
| `register_function` | `RegisterFunction`, `RegisterParam` per parameter, `EnterBody`, `EndBody` |
| `register_class` | `RegisterClass`, `RegisterMethod`, `RegisterParam`, `EnterBody`, `EndBody` per method, `EndClass` |
| `register_trait` | `RegisterTrait`, `RegisterTraitMethod`, `RegisterParam`, `EnterBody`, `EndBody`, `EndTrait` |
| `register_enum`, `register_extern`, `register_module` | begin, one action per variant or function, end |
| `register_expr`, `register_expr_calls` | `RegisterExpr` on the shapes listed at `Expr` |

Some details are there because they matter: a class's methods are inserted in the
scope of the class under a name that `mangle_name_unique` makes unique (the guard
of `RegisterMethod`); the parameters of a plain function go through
`register_insert_child`, which stamps no function, those of a method do not; a
trait registers the default values of its parameters once per parameter; an
initialiser of an enum type is rewritten when the enum is visible from the scope,
and lost when it is not global; an array is kept under an array type only.

### Parser.tla: tokens to trees

The recursive descent parser, `parser_stmt` and everything below it, and the loop of
`main` around it. Its C stack is explicit as a sequence of instructions still to
execute, `todo`: the definition named after a parser function is the sequence of its
steps (advance, expect, call, test, loop, report, synchronise, build), and one
action per kind of instruction executes them.

| code | model |
|---|---|
| the `Parser`, its current token | `src.toks`, `pos` |
| the C stack, with the loops in progress | `todo` |
| the error list | `errs`, the positions reported |
| the nodes built | `out`: tag, first and last token, in the order they are built |
| a parser function | the definition of its name, a sequence of instructions |
| `parser_advance`, `parse_error`, `parser_sync` | `AdvanceToken`, `parse_error`, `parser_sync` |
| an `if`, a `switch`, the condition of a loop | `Choose`, `TestLoop` |
| the test for progress at the end of a loop body | `EndIteration` |
| EXPECT, ADVANCE | `Expect`, `Advance` |
| the binding powers | `Levels`, `parser_precedence`, `RightLevel`, `parser_expr_bp` |

A token is its tag, except for the few identifiers and numbers whose text the parser
reads (`self`, `operation`, `atom`, `ffi`, `bits`, `signed`, an upper case initial).
The spans of the nodes, in the order of construction, determine the tree.

The model keeps what the code does where it may surprise: EXPECT reports twice and
goes on; a prefix operator takes the primary behind it and no postfix, so that
`-p.x` is a field of `-p` and `not obj.is_done()` a call on `not obj` (`test/if.vix:309`
and other tests read it the other way); a cast takes all of its operand before it and
ends it, so that `x as T + y` is not a sum; the generic parameters of a struct, enum or trait open with `[` only, while
those of functions and classes open with `<`; a field followed by `<` is always a
call with generic arguments, so that `p.x < y` is reported; a bare `return` before `else` takes the `else` for its
value; `default` in a match is never parsed; an `if` without `end` at the end of the
file is accepted; `@operation(..)` and `@atom(..)` report an error even when well
formed; a `for` keeps the statements that other bodies drop because they failed. In
particular main goes on to registration whatever was reported.

### Lower.tla: the tables to the IR

`Lower` extends `RegisterStmt`: when the walk of registration has ended, lowering
starts on the very tables that the walk left. `lower_stmt` visits the ids of one scope
in order, up to a `next_id` that it re-reads; the handlers of functions, branches,
loops and matches call it on the scopes an entry keeps. A frame of `calls` is a
handler that has called `lower_stmt`, with the scopes it has still to visit. `done`,
the scopes `lower_stmt` has returned from, is auxiliary: no action reads it.

| code | model |
|---|---|
| `IR_Module.defs`, the `IR_StmtArr` of a body | `ir[scope]`: the ids of the entries that were lowered, in the order of the pushes |
| the loop of `lower_stmt` | `Upcoming`, `Past`, `EndVisit` |
| `lower_function` | `LowerFunction` |
| `lower_if`, `lower_while`, `lower_for`, `lower_match` | `LowerFlow` (`CondScope`, `Bodies`), `EndVisit` |
| `lower_var`, `lower_let`, `lower_const` | `LowerBinding` |
| `lower_struct`, `lower_enum`, `lower_trait`, `lower_extern` | `LowerDefinition` |
| `lower_expr_stmt`, `lower_atomic` | `LowerExprStmt` |
| `lower_return` | `LowerReturn`, `DropReturn`, `CrashReturn` |
| `lower_expr` | `LowerExpr`: `uses` records which entry it met from which scope, `Again` the entries it registers |

Slot 0 of `global_flat` is never written, and `lower_return` reads it for a return
without a function (see `return_function` below). `slot0` is what the memory happens
to hold: NULL (the return is dropped), an address that can be read (it is lowered) or
one that cannot (the compiler dies); the choice is made once.

What the model shows on the way, without a property: only the outermost visit has a
module, so structs, enums and functions declared in a body are lowered and lost;
control flow at top level is not lowered; the variables of a pattern are never
declared in the IR; the child scope of a module is reachable from nowhere. `check_generic`
lies between registration and lowering in `main`; `Lower` is the composition for
programs without generics, where it changes nothing.

### Generic.tla: monomorphisation

`check_generic` walks the global scope, `check_body` the scopes below. A call, a
value or a declared type with generic arguments makes up the name of the instance,
copies the template under it unless the name is taken, substitutes the types, checks
the body of the copy at once, and puts the name in the place of the arguments.

| code | model |
|---|---|
| the tables that `register_body` leaves | `tab`; the initial states are generated by `MCGeneric` from small programs, as registration would leave them |
| field arrays of enums, which copies share | `tab.heap`, by address |
| `g->global_table` | `tab.seen` |
| activations of `check_generic` and `check_body` | `frames`; more than `MaxFrames` end the run as `overflow` |
| `set_name`, `generic_contains`, `generic_index` | `SetName`, `GenericIndex` |
| `resolve_type`, `generic_field`, `generic_variant`, `generic_param`, `generic_return` | `Resolve`, `ResolveFields`, ... on the tables, with the instances they make |
| `check_functioncall`, `check_enumcall`, `check_structcall`, `check_var`, `check_return` | `CheckFunctionCall`, `CheckValue`, `CheckType`, `CheckVar`, `Typed` |
| the cases of the loop of `check_body` | `CheckBranches`, `CheckCall`, `CheckVar`, `CheckLet`, `CheckReturn`, `CheckBareReturn`, `Skip`, `EndLoop` |

`was`, `made` and `declared` are auxiliary: the call as it was written, what an
instance was made from, and the fields as declared. A read of memory that the code
does not own (arguments past the end of their array, the wrong member of a union,
slot 0) yields `Garbage`, or ends the run as `crashed`.

The model follows the code where it is odd. The parameters of a template are an array
of names *and bounds* that is read as an array of names, so only the first parameter
is matched reliably; pointers, arrays and tuples of a parameter are not substituted;
the enum instance made for the declared type of a variable has no variants in its
scope; a variable of type `Box[int]` declared before `Box[int]` exists kills the
compiler; branches and the expressions of declarations are shared between a template
and its instances; calls in let and const initialisers, in arguments, in bodies of
while and for, and in class methods are never resolved; a declaration that already
has the name of an instance makes every call produce a copy of its own, without end
when the call is in the body that is copied.

### ProjectPack.tla: compilers that share a file

Every compiler that starts in a directory calls `project_pack_sync`, which reads
`.project.pack`, compares it with its own job (name and link from the
configuration, hash of the source), and deletes and rewrites it when it is not up
to date. Nothing locks the file. The model has one action per call that touches
the file system, so everything another compiler, a kill or a power failure can do
between two calls is covered.

| code | model |
|---|---|
| the paths `.project.pack`, `.project.pack.tmp` | `dir["pack"]`, `dir["tmp"]`: an inode, or none |
| what a file holds | `file[inode]`: a record, `Empty`, or `Torn` (fails the length or the CRC test) |
| `p` of `project_pack_sync`, `p.valid` | `pack[p]`, `Null` while not valid |
| the `FILE*` of `dir_write_file` | `fd[p]`, an inode: writing goes on in it wherever it has been renamed to |
| the arguments of `project_pack_sync` | `args[p]`, made by `SyncArgs` and `config_pack_own_flags` |
| `dir_exists`; `project_pack_read` and the comparison of the names; `dir_delete` | `Exists`, `Read`, `Delete`, each followed by the computation up to the next call (`Decide`, `Dirty`, `Refresh`) |
| `fopen`, `fwrite` and `fclose`, `rename`, `remove` in `dir_write_file` | `Open`, `OpenFails`; `Flush`, `ShortFlush`; `Rename`, `RenameFails`; `Unlink` |
| a killed compiler, a power failure | `Kill`, `PowerFailure` |

`mishaps` and `solo` are history variables that no action reads: what has gone
wrong so far (writers that overlapped, a kill, a full disk...), and the compiler
that last started, as long as it has run alone and without a fault.

`Posix = FALSE` gives Windows' rules: `rename` does not replace a file, and a file
that is open is neither renamed nor removed. `fwrite` and `fclose` are one action
because a pack is smaller than the buffer of a `FILE*`; `dir_read_file` is one
action for the same reason. A write over an inode that is not empty may leave the
tail of what was there.

### AtomicFile.tla: what a replaced file promises

The abstract specification that `ProjectPack` implements: as long as it can be
trusted the file is absent, or holds a whole content that a writer now at work
wants to put there; it is replaced or removed, never changed in place. The mapping
takes what a reader of the path would find for the cell, the packs of the compilers
about to rename for what is wanted, and trust for the absence of overlap, full
disk and power failure. A kill is *not* among them.

## 3. Checked by TLC

### Registration

These runs use module `MCRegisterStmt`, which names the sets of expressions.

| run | program fragment | bounds | properties |
|---|---|---|---|
| `shapes` | every kind of statement, with an expression of every shape | 1 name, 2 statements, lists of 2, first capacity 2 | `TypeOK`, `FlatInBounds`, `RefsResolve`, `SourceOrder`, `WalkInv`, `StatementsRegistered` |
| `names` | functions, classes with methods, variables, for | 2 names (symmetric), 3 statements, lists of 2 | `NameTableOK`, `OwnerSound`, `OwnerCurrent`, `MethodNamesOwn`, `BindingsStable`, `ResolutionStable` |

An else clause counts against no bound, because the if that precedes it has
already promised it.

Why these are enough. `FlatInBounds` needs the capacity to double several times:
it starts at 2 (1024 in the code) and a run takes over ten ids. Ownership needs a
loop in a loop in a function and a function in a loop, which three statements give.
Name resolution needs a redeclaration in the same scope and one in a scope
inside, of two names that cross: three declarations. `StatementsRegistered` and
`SourceOrder` need each statement inside each other, and an elif behind an if; `lower`
checks longer bodies. The shapes of expressions are what registration tells apart: no
entry, one, operands in the same scope, operands in a child scope. The unary operators,
fields, indexes, casts, addresses, tuples and struct calls of the model are of one of
these shapes.

What the properties say:

- `FlatInBounds`: ids stay below the capacity, although the growth is one doubling
  with no loop.
- `RefsResolve`: the ids lowering looks up with `register_from_scope` (conditions,
  subjects of a match, expression statements) are in the scope it looks in.
- `NameTableOK`, `BindingsStable`, `ResolutionStable`: the first declaration keeps
  the name; nothing registered is altered; a name changes meaning only by a new
  declaration in a nearer scope.
- `OwnerSound`: a stamp, when there is one, is the innermost function.
  `OwnerCurrent`: no entry was inserted under a scope that got its owner later.
- `MethodNamesOwn`: the mangled name of a method of a class leads to that method
  from then on, whatever else is declared.
- `SourceOrder`: within a scope ids follow the source, although branches insert
  their entry after their bodies and loops before.
- `StatementsRegistered`: every statement met has exactly one entry, in the right
  scope, unless its handler is still running.

No run of the registration states a liveness property: it is a recursion over a
finite tree, and a model that chooses the tree on the way could only have its end
by assuming it. Accordingly no fairness is assumed there. `Returned` is the
stuttering step of the finished walk, so that deadlock stays checked: every
handler can always go on.

### The parser

| run | files | properties |
|---|---|---|
| `parser` | (a) every expression form, alone and as an argument, field, element or index; each under every prefix, postfix and cast; every binary operator beside each of these; every pair of the 29 binary operators in both groupings; every pair of statements in a function; every pair of items. (b) Each item and each body with one token removed, inserted or replaced at each position, bodies followed by an intact function. (c) Every opening keyword followed by two loose tokens. (d) The annotations outside of a class, with the token that is taken for a name and without it. (e) Every operator behind a field, a cast or a prefix with a postfix, without parentheses. | `TypeOK`, `RoundTrip`, `ClosedIfSilent`, `NothingSkipped`, `NextSurvives`, `ParseEnds` |

- `RoundTrip`: a file printed from trees, with the parentheses that the parser's own
  grouping asks for and no others, parses without an error into these trees:
  precedence, associativity and nesting survive. Two operators in a row are all that
  precedence decides at a time. The grouping is the code's, not what a reader of Vix
  may expect: `MCParser` prints a postfix of a prefix, a cast on the left of an operator
  and a field before `<` in parentheses, because without them the program means something
  else or is refused (section 2, Parser). Those files are in (e), for the other properties.
- `ParseEnds`: whatever the tokens, the parse ends. Weak fairness of the next step says
  that the one thread keeps running.
- `ClosedIfSilent`, `NothingSkipped`: if nothing was reported every block has an `end`
  of its own, and every token is in some node, or in one of the two annotations that are
  read and dropped outside of a class.
- `NextSurvives`: after a broken body or function an intact function is still parsed
  whole. It is stated for one wrong token in a body or a function, and not for other
  items: a broken header of a class or trait may take the next function for a member.

Files that are wrong in one place are enough for the recovery: it starts again at
every error, and what it starts from is a position and a stack.

### Lowering

| run | program fragment | bounds | properties |
|---|---|---|---|
| `lower` | functions, if, elif, match, return, let, struct, expression statements, with calls and struct calls | 1 name, 3 statements, lists of 1 | `LoweringOK`, `BlocksComplete`, `ScopeFaithful`, `ParamsOwn`, `LoweringOnlyAdds`, `LowerEnds` |

- `BlocksComplete`: each body holds the statements of its scope, once each, in the
  order of their ids and nothing else, for every scope that should be met; except
  that returns without a function are missing when slot 0 holds NULL.
- `ScopeFaithful`: every expression is lowered from a scope in which each name means
  what it means in the scope it was written in.
- `LoweringOK`: the inductive invariant of section 4, with the types (`LowerTypeOK`)
  and the shape of what registration hands over (`ScopesOK`). Beyond the two properties
  above it says that no scope is visited twice and what a body holds at every moment.
- `ParamsOwn`: what `lower_function` finds under the name of a parameter is a
  parameter of that function.
- `LoweringOnlyAdds`: the entries lowering adds to the tables it walks name nothing
  and are nothing `lower_stmt` handles; with `LowerEnds`, the loop does not run after
  its own bound.

Loops are not among the run's statements: `lower_while` and `lower_for` are `LowerFlow`
with one body, as is an if. Three statements give a branch in a branch in a function,
two functions, and a statement before and behind a struct call. The weak fairness of
`LowerStep` is one thread that runs; registration is not assumed to end, so `LowerEnds`
starts when lowering does.

### Monomorphisation

| run | programs | properties |
|---|---|---|
| `generic` | a struct, a struct that holds another instance, an enum, a function of one or two parameters with every result and seven bodies (calls to itself at its own and at fixed types, to others, in branches), and main with two uses out of fourteen; functions that call themselves or one another at fixed types; with and without declarations that already have the name of an instance | `GenericTypeOK`, `InstancesUnique`, `CallsSettled`, `CallsRight`, `ReturnsOwn`, `TemplatesKept`, `GenericEnds` |

- `InstancesUnique`: one instance per template and arguments, which its name leads to.
- `CallsSettled`: when `check_generic` returns no generic call is left where it looks:
  in bodies, branches, arms and initialisers of variables, of templates and instances
  alike.
- `CallsRight`: a rewritten call names the copy it asked for, with the argument in
  every place of the parameter, the result and other instances included; for functions
  and structs with one parameter whose types are not pointers to it, which is what the
  code gets right.
- `ReturnsOwn`: a return has the type of its own function, although instances share
  the entries of branches; only the returns directly in the body of an instance are
  covered, the others keep the type of whoever wrote it last.
- `TemplatesKept`: no function or struct in the tables is ever altered, and a call
  that has been rewritten keeps its name.
- `GenericEnds`: the pass ends (or crashes as the program would), although the loops
  walk the instances they add, provided no function template asks in its body for an
  instance whose name a declaration has (`NamesFree`). Without that it does not end, see
  `generic_loop` below; the run has such programs, for its other properties. Programs
  with a struct or enum that holds itself at the same type are left out: `resolve_type`,
  one step of the model, recurs on them until the C stack overflows.

`MaxFrames` is 16, more than any program needs whose pass ends: one that came past
it would be an `overflow`, which `GenericEnds` does not count as an end.

`GenericEnds` holds under `Fairness`, written as *while the pass runs a step is taken
again and again*, which for a pass that is never stuck is weak fairness of `Next`.

### The project pack

These runs use module `MCProjectPack`, which names the sets of configurations.

| run | question | bounds | properties |
|---|---|---|---|
| `pack_race` | any interleaving of compilers with different jobs, and the recovery from it | POSIX; 3 compilers, 4 syncs, 1 fault, 2 configurations, 2 hashes | `TypeOK`, `ReturnCurrent`, `NoLitter`, `QuietPack`, `SoloCurrent`, `PackInv`, `AtomicPack` |
| `pack_windows` | the race with Windows' rules, and the end of every sync | 2 compilers, 3 syncs, 1 fault, 3 configurations, 2 hashes | `AtomicPack`, `SyncEnds` |

Three compilers are needed for the shared temporary file to be renamed by one,
removed by a second and missed by a third; a fourth sync is one that starts after
such a race, or recovers from the fault: a kill that leaves a temporary file, a
power failure that damages it or the pack, a short write. The two configurations
are the ones that differ most (none, and one with a name and a link). There is one inode more than can be in use, so `fopen` always
finds one.

- `ReturnCurrent`: what a sync returns is its own job, although it decided on a file
  that others were changing.
- `NoLitter`: a temporary file that nobody is writing was left by a kill or a power
  failure. When a rename fails the clean-up removes the path, whosever file it is
  by then, and the last writer to leave still leaves nothing.
- `QuietPack`: when nothing went wrong there is a readable pack once all have ended,
  although each may have deleted the one it found.
- `SoloCurrent`: a sync alone and without a fault leaves its own job in the file,
  from every state the others, kills, full disks and power failures can leave.
- `AtomicPack`: refinement of `AtomicFile`. In particular kills alone never make the
  pack unreadable.
- `SyncEnds`: under weak fairness of the steps of each compiler, which only says that
  a process that is not killed keeps running, every sync ends. A fault is never
  fair, and starting is not either.

What the runs do *not* show, because it is not so. Two writers that overlap can
tear the pack or leave one's job where the other's was expected: the loser's
`fwrite` goes to an inode that has been renamed in the meantime. The promise is
only that the next sync notices and repairs. `SoloCurrent` is checked and proved
for POSIX: on Windows the pack of a project without a name stays as it was first
written, because `rename` fails and nobody looks at the result. And a named project
deletes and rewrites its pack in every run: the name is not stored when the
configuration owns it, so the pack always looks like another project's.

### Where the code does not do what the project's notes say

Five runs are expected to find a violation.

- `return_function` (`ReturnHasFunction`): branch scopes have no owner, so a
  return in an if or a match arm has no function, although
  `update/Update Alpha 2.2.75.md` describes `register_get_function` as the way
  for a return to find it. Lowering then reads `global_flat[0]`.
- `else_clause` (`ElseRegistered`): `register_stmt` has no case for an else
  clause, so neither it nor what it contains is registered (`STYLE.md`,
  `test/if.vix`).
- `pattern_binding` (`PatternVisible`): the variable of `if var i = example()
  then return i end` is registered under an empty name, in a scope the body cannot
  see.
- `generic_enum` (`EveryCallRight`): `update/Update Alpha 2.2.75.md` promises a new
  copy of a generic enum for each list of arguments. The copies share the field arrays
  of the template, which the first of them has overwritten: in `Opt[int]` followed by
  `Opt[bool]` the field of the second is an int.
- `generic_loop` (`EveryPassFits`): the same note promises *a new copy*. A generic `f`
  whose body calls `f` at int, beside a function named `f_int`, is copied as `f_int_1`;
  `set_name` knows copies by the name without a suffix only, so the call in the body of
  the copy makes `f_int_2`, and so on until the stack is full.

Two more have no run. `update/Update Alpha 2.2.25.md` says the project file stores the
location of the footprint: `project_pack_write` writes it only when the configuration
does not own it, and `config_pack_own_flags` makes it owned whenever there is one; that no
file ever holds a link is part of `PackInv`. And `test/if.vix` negates method calls with
`not`, which the parser reads as calls on a negated object (section 2, Parser).

### Compared with the program

`Parser` and `Generic` were run side by side with the C code, the parser on 2526
files made by mutation of small programs (the nodes, spans and error positions
were the same in all of them), monomorphisation on 2249 programs of the same kind as the
run's, taken through the real parser and registration (the final tables were the same
in all; the 754 that the model ends as crashed crashed).

## 4. Proved by TLAPS

### Registration

`RegisterProofs.tla` proves lemmas about the operators of `Register`;
`RegisterStmtProofs.tla` and `WalkProofs.tla` prove theorems of `RegisterStmt!Spec`,
for every set of names, every set of programs, any first capacity of at least 2, and
any bound. The first has what concerns the registers alone, the second what ties them
to the handlers in progress and to the source.

Assumptions: those of the modules, `FlatCapAssumption` (a first capacity of 1
would not hold the first id), `NoNameAssumption`, `KindsAssumption`,
`ExprsAssumption`, `BoundAssumption`. TLC evaluates them in every run.

*The registers.* `WellFormed` is not inductive without typing, nor `TypeOK` without
the frames, and `FlatInBounds` says nothing of the room left. The inductive invariant
is

    IndInv == TypeOK /\ FramesOK /\ WellFormed(reg)

where `CapOK` (the next id is at most the capacity, and the capacity is at least 2
once there is one) strengthens `FlatInBounds`, `LinksOK` (the owner of a scope is
the function it is the body of, or a loop of the same function) is what makes
`OwnerSound` inductive through nested loops, and `FramesOK` says that a handler
that inserts on its way out has something to insert.

The argument has three levels. (a) One insert, one `MakeChild`, one `SetOwner` on a
fresh scope each keep `WellFormed`. (b) Each of them only adds: the relation
*after the step, everything there was is there unchanged* composes, so an
expression or a pattern, which is a chain of inserts, keeps `WellFormed` and adds.
(c) Each action is such a chain and a change of the stack, and one step of the
proof per action checks both. `BindingsNeverChange` falls out of (b).

*Names.* `RegisterGet` is a recursive function on the scope tree. What it returns is
not proved by induction over that tree (see *Functions defined by recursion* below) but from two
facts: the function unfolds once (`GetUnfolds`), and a set of scopes on which a
claim fails has a least member (`Least`), whose parent is not in the set. So a name is found
in the nearest scope that declares it (`GetBelongs`, `NewName`), and a step that only
adds changes it only by a new declaration nearer by (`GetFollows`), which is
`NamesKeepMeaning`.

*The walk.* That the entries of a scope follow the source, or that a statement has one
entry, says nothing of the handlers that have not yet inserted theirs. The inductive
invariant of the walk is

    WalkInv == IndInv /\ WalkOK /\ SourceOrder /\ StatementsRegistered

`WalkOK` says where a handler in progress may still insert. `FramePlaced`: the entry it
holds is that of a statement met, and the scopes it fills are younger than the one that
entry goes to. `Nested`: so are all scopes of the handlers it has called, and no two hold
an entry for the same statement. `HeldInOrder`: nothing in the scope of the held entry
comes from a later statement, which is why an if that inserts last still stands in the
order of the source. `Placed` and the `RefFound`s give every id its statement and its
scope. `MethodsKeyed` is the guard of `mangle_name_unique` carried along; with `NameTableOK`
and one unfolding of `RegisterGet` it gives `MethodNamesOwn`. `ParamsFirst` and
`ParamFrames` say that a body declares nothing before its parameters; lowering needs
them.

An action is again a chain of inserts and a change of the stack. One family of lemmas
says what a chain may bring: entries for one statement, in one scope and the scopes made
in it, with tags from a given set (`Brings`). Another says what each form of action does
to the invariant: a statement with no frame, a frame pushed, a step of a loop, a held
entry inserted, a frame popped. One step of the proof per action cites the form it has;
the frames at parameters are followed apart (`Framed`).

| theorem | states |
|---|---|
| `Invariance` | `Spec => []IndInv` |
| `TypeCorrect` | `Spec => []TypeOK` |
| `FlatArrayBounds` | `Spec => []FlatInBounds` |
| `NameTable` | `Spec => []NameTableOK` |
| `OwnersSound` | `Spec => []OwnerSound` |
| `OwnersCurrent` | `Spec => []OwnerCurrent` |
| `BindingsNeverChange` | `Spec => BindingsStable` |
| `NamesKeepMeaning` | `Spec => ResolutionStable` |
| `WalkInvariance` | `Spec => []WalkInv` |
| `StatementsInOrder` | `Spec => []SourceOrder` |
| `EachStatementOnce` | `Spec => []StatementsRegistered` |
| `RefsAreFound` | `Spec => []RefsResolve` |
| `MethodsFound` | `Spec => []MethodNamesOwn` |

### Lowering

Three modules, each of which extends the one before it. Assumptions: those of
`RegisterStmt`; the theorems are about `LowerSpec`, registration and lowering together,
for every program.

`LowerProofs.tla` carries the invariants over to both phases. The only thing
lowering does to the registers is to insert atoms without a name: a lemma per
operator says that this keeps `WellFormed` and grows the tables, and one step per
action of `LowerStep` collects them. The invariant keeps `WalkInv` while the walk is on,
and of it what lowering needs:

    LowerInv == IndInv /\ ParamsFirst(reg) /\ (stack # <<>> => WalkInv)
                       /\ (calls # <<>> => stack = <<>>)

`ScopeProofs.tla` is about what registration hands over. Lowering follows pointers that
sit in entries: the scopes of a branch, the arguments of a call, operands found by
their distance (`id - 1`, `id - 2`). `TreeOK` says where these lead: `Leads` and `Disjoint`,
an entry leads to scopes inside its own and no two entries to the same one; `Fits`, an
operand is behind the expression, in its scope or in one that declares nothing;
`Unsealed`, nobody visits the scope of an argument or of an initialiser. While the walk
is on, the handlers in progress own scopes that no entry leads to yet: `Opened` are the
scopes they may still register in, `Claimed` those their entry will lead to, and no two
claim the same (`Apart`). `ScopesOK` is all of this, and it is inductive with `WalkInv`.
One lemma per helper of the registration shows what it does to the tree, one per action
what it does to the claims.

`VisitProofs.tla` proves the inductive invariant of lowering,

    LoweringOK == LowerTypeOK /\ ScopesOK /\ ScopeFaithful /\ VisitsOK /\ ...

with three conjuncts that say which phase runs and that handlers visit scopes some entry
leads to. `BlocksComplete` speaks of the end; half way, a body lacks what its loop
has not come to. `VisitsOK` says what it must hold by then:

- `CallsPlaced`: each handler stands behind its entry in the scope its caller is in, has
  still to visit scopes of that entry, and has done the others; no scope waits twice.
- `BodiesOK`: a body holds, in order, exactly what is wanted of the entries that are
  *finished*: the loop has come past them and their handler has returned. All that is
  inside a finished entry is done. And a scope is visited only for an entry its
  caller's loop has come to.

At the end every entry of a scope that is done is finished, and so is every
entry of the bodies inside it; a scope of `Met` that were not done would be, with the least
number, a scope whose parent is done (`VisitsComplete`). What makes the invariant hold is that each
move of the stack (the loop goes past an entry, a handler calls `lower_stmt`, goes on with its
next scope, returns) finishes one entry at most, and that the scopes are a tree.

`ScopeFaithful` follows from the shape of the tree: `lower_expr` passes the child scope of
a call on to its arguments and looks their names up there, which is right only because
registration has put nothing with a name in it (`Nameless`, `UsesFaithful`).

| theorem | states |
|---|---|
| `LoweringInvariance` | `LowerSpec => []LowerInv` |
| `LoweringAddsOnly` | `LowerSpec => LoweringOnlyAdds` |
| `ParamsAreParams` | `LowerSpec => []ParamsOwn` |
| `ScopesInvariance` | `Spec => []ScopesOK` |
| `LoweringSound` | `LowerSpec => []LoweringOK` |
| `LoweringTyped` | `LowerSpec => []LowerTypeOK` |
| `NamesFaithful` | `LowerSpec => []ScopeFaithful` |
| `BodiesWhole` | `LowerSpec => []BlocksComplete` |

### The project pack

`ProjectPackProofs.tla` proves theorems of `ProjectPack!Spec` for any set of
compilers, configurations, hashes and inodes, any number of syncs and of faults,
on POSIX and on Windows except where it says otherwise. Assumptions: the types of
the constants (`ConfigAssumption`, `PackBoundAssumption`), and that the markers are
what they stand for (`ContentAssumption`, `NullAssumption`, `InodeAssumption`).

    PackInv == TypeOK /\ PacksOK /\ WritersOK /\ NoLitter /\ PackComes /\ SoloOK

- `PacksOK`: a pack in memory is the job of its compiler without the link, and no
  file holds a name or a link. This is what makes `Refresh`, which keeps the link it
  has read, return the compiler's own job.
- `WritersOK`: the two paths never lead to one inode; writers that do not overlap
  have the temporary file to themselves, empty until they flush and theirs after.
  This carries `AtomicPack`: what is renamed is what the compiler wanted.
- `PackComes`: without mishap and without a pack somebody is on the way to writing
  one (needed because `Delete` and `Unlink` remove files); gives `QuietPack`.
- `SoloOK`: where a compiler alone is, and what it has put in the file so far; gives
  `SoloCurrent`. It is the only part that needs POSIX.

Each part has a lemma that any step keeps it, with one step of the proof per
action. The refinement adds a lemma on what a trusted step does to what a reader
finds: nothing, removal, or the pack of a compiler about to rename.

| theorem | states |
|---|---|
| `PackInvariance` | `Spec => []PackInv` |
| `PackTypeCorrect` | `Spec => []TypeOK` |
| `ReturnsOwnPack` | `Spec => []ReturnCurrent` |
| `NoTemporaryLeft` | `Spec => []NoLitter` |
| `PackAtRest` | `Spec => []QuietPack` |
| `SoloLeavesItsPack` | `Posix` implies `Spec => []SoloCurrent` |
| `PackIsAtomic` | `Spec => AtomicPack` |

`SyncEnds` is liveness under fairness, out of the prover's reach: model-checked
only.

### The parser

`ParserProofs.tla` proves theorems of `Parser!Spec` for every set of files, of any tokens
and any length. Assumption: `SourcesAreFiles`, that `EOFs` is not a token of a file. The
lexer answers it only at the terminating NUL, where it stays.

The parser is an interpreter of `Code`, so the proofs have two halves. One is about the
code, a finite object: of which instructions each function is made, which of them leave the
function or a loop, what it does last (`OpenCode`, `ItemsCode`, `StmtCode`, ...). The other is
about the stack: every step puts a sequence in the place of the first few instructions
of `todo` (`Splice`, `StepIs`), and an invariant that says of each instruction what stands
before or behind it is kept if the new sequence has it and what is left does not
lose it.

    TypeInv   == ... /\ Placed(out, pos) /\ Running(todo, pos)
    ClosedInv == Extending /\ (Silent => Pending /\ OwnEnds)
    SkipInv   == Looped(todo) /\ (Silent =>
                   (todo = <<>> => pos = LastPos) /\ Started
                   /\ (Len(todo) > 3 => Underway) /\ Covered(out, Seen))

- `Running` is what makes `TypeOK` inductive. The model takes `From({"ret"})`, the last
  node, the innermost loop without asking whether they exist, as the C code uses its
  return address: `Framed`, what belongs to a function has the end of one behind it;
  `Timely`, the functions and loops in progress began before the current token;
  `Shape`, under the statement lie the `Keep` and the loop of `main`, which never leaves.
- `Pending`: until an error is reported, an instruction that builds a block stands
  directly behind the `EXPECT` of its `end`, or that `end` is being consumed, or has
  been consumed by it and by no block built before. `OwnEnds` is `ClosedIfSilent` on the
  way. `Extending` says that only a type is ever lengthened after it was built:
  `Extend` changes the last node, and would otherwise move the end of a block.
- `Covered(out, Seen)`: as long as no error is reported, every token `main` is done with is
  in a node or in one of the dropped annotations. `Seen` is the first token of the
  statement in progress (`Base`), and `pos` between two statements. That moment, when
  `Seen` moves from `Base` to `pos`, is why the rest is needed. `Underway`: the statement
  ends with a node from `Base`. Either an instruction that builds it lies under
  instructions none of which leaves the function without an error (`Owed`), or nothing was
  read yet (`Fresh`), or it is an annotation that has consumed at most the tokens
  `Annotated` excepts (`Annotating`). `Started`: an iteration of `main` has consumed a token
  when its statement returned, so the guard against a loop without progress never skips a
  token unreported. `Looped`: a `break` stands in a loop of its own function, so it never
  leaves the function with its node owed.

| theorem | states |
|---|---|
| `ParserStays` | `Spec => []TypeOK` |
| `BlocksClosed` | `Spec => []ClosedIfSilent` |
| `NothingUnreported` | `Spec => []NothingSkipped` |

`NothingSkipped` was stated as *without an error every token is in a node*, and the proof
attempt refuted it: `@operation x ( + )` and `@atom x ( ... )` outside of a class are read
without an error, with one token too many (`parser_operation` consumes the word and
`operation_op` one token more before the parenthesis), and dropped. The property now
excepts exactly these tokens (`Annotated`), and the run has files with them.

### Functions defined by recursion

Three operators are recursive functions: `RegisterGet` up the scope tree, `Uses` down an
expression, `Met` down the bodies. Induction over data needs a theorem with an operator
for a parameter, which the prover cannot instantiate. What the proofs do instead: suppose
a claim fails somewhere; the numbers where it fails have a least member (`Least`); unfold
the function there once and contradict. That such a function exists at all, so that it can be
unfolded, is shown in the same way where it is needed (`MadeExists`). This works where the
recursion runs over numbers that decrease, as scopes and ids do. It does not
extend to recursion over trees or types.

### What is only model-checked

- Liveness: `LowerEnds`, `ParseEnds`, `GenericEnds`, `SyncEnds`. Fairness and `ENABLED` are out
  of the prover's reach.
- `Generic`: it recurs through types with recursive operators, which the prover does not
  support.
- `Parser`: `RoundTrip` and `NextSurvives` are about what was printed into `Sources`, by
  recursion over trees.

## 5. Bounds and abstractions of the model

In `Register` and `RegisterStmt`:

- `Kinds`, `Exprs`: the statements and expressions a run's programs use.
- `MaxStmt`: statements in a program. `MaxIter`: parameters, methods, variants,
  functions or arms in one list.
- Expressions nest one level; a call has at most one argument, at most one
  parameter has a default value, a variant has at most one field, an external
  function at most one parameter. Each of these is a loop around one insert.
- Class calls are left out of `Expr`: their method is looked up in the scope of the
  class under a mangled name.
- Types, modes, ranges and values are left out of entries. The declared type of a
  variable is kept, because it decides how the initialiser is registered.
- The temporary of an if-pattern is called `tmp_`, the bound name and a number. A
  program may write such a name; the members of `Name` stand for names that are not of
  this form, and no name key is modelled for the temporary.
- The depth map is left out: nothing calls `depth_map_init`, and without it every
  `depth_map` call returns at once. `register_insert_id`, the `pending` and `mono`
  tables and `register_assign` have no caller.

In `Lower`: the bounds of `RegisterStmt`; expressions are followed by their ids only;
external functions of one block share a child scope in the code, where
`register_get` may find a parameter of another, and their lowering is one step here.

In `Parser`: `Sources`, the files, none of which has the token `EOFs`. In `Generic`: `Sources`, the tables of the programs, and
`MaxFrames`, what the C stack holds.
Template bodies are checked in the code with the parameter as a plain word, and so they
are in the model.

In `ProjectPack`:

- `MaxSync`: syncs started in all; `MaxFault`: kills, power failures, failed opens
  and short writes. `Rest` is the stuttering step at the end, so deadlock stays
  checked.
- `Inode`: enough that a new file always finds one.
- The root of a pack is left out: every caller passes ".", which exists, so the
  test of line 151 never fires. `project_pack_should_delete` is left out because
  it needs `PACK_OWN_PATH`, which `config_pack_own_flags` never sets.
- A power failure may lose the content of any file that has a name, never the
  names themselves.

## 6. Not modelled, and why

- The lexer: the parser model starts from tokens. The line table, and the
  copies of a lexer for lookahead, which share its buffer, are below it.
- Code generation: what an instruction computes is LLVM's; the blocks and terminators
  would need a model of the builder (planned).
- The footprint writer: no phase that is modelled calls it (planned).
- Dead code: `parser_index`, `parser_method_calls`, `parser_struct_call`,
  `parser_enums_call`, `parser_peek_offset`, `parser_atomic_op`, `parser_ordering`; the
  template, parameter and call tables of `generic.h`; `register_assign`.
- Class calls, and the methods of generic classes.
- The file manager, diagnostics and the debug printers are output.
- `khashl`, `toml`, `flatcc` and the code it generates are vendored; a hash table
  is a function in the model.
- Memory: `malloc` does not fail in the model, and `register_free`, at exit, is
  left out.

## 7. Plan

Every invariant and action property of registration, of lowering and of the pack that a
run checks is proved, and `TypeOK`, `ClosedIfSilent` and `NothingSkipped` of the parser; the
rest of section 4's properties is out of the prover's reach. What is left is to model more, in
order of importance:

1. Class calls in `RegisterStmt` and `Lower`.
2. `CodegenFlow`: blocks, terminators and the builder's position for if, while,
   for, match and return; every block that can be reached has a terminator.
3. `Snapshot`: `fp_snapshot_write` reads a shared file and writes it back through
   the same `dir_write_file`, without the CRC that lets a pack be repaired; two
   compilers, kills, the sections each of them must keep. Reuses `AtomicFile`.
4. `GroupWriters`: chunks, string tables and the indexes between them.
5. `Lexer`: progress of its loops, the line table and the copies for lookahead.
6. A broken parse composed with registration: the empty expression and the empty
   statement that stand for an error.
