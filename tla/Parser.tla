------------------------------- MODULE Parser -------------------------------
(***************************************************************************)
(* The recursive descent parser of src/syntax/parser.c, and the loop of    *)
(* main that calls parser_stmt until the end of the file.                  *)
(*                                                                         *)
(* The C stack is explicit: `todo' is what is left to do, in order.  The   *)
(* body of a parser function is a sequence of the instructions below, with *)
(* the function's own name, and an action executes the first instruction   *)
(* of todo.  A token is its tag, except where the parser looks at the      *)
(* text: see Words and Numbers.  A node of the tree is its tag with the    *)
(* first and the last token consumed between the entry of the function     *)
(* that builds it and the construction; `out' lists the nodes in the order *)
(* the parser builds them, so that the spans give the shape of the tree.   *)
(***************************************************************************)
EXTENDS Naturals, Sequences, FiniteSets

CONSTANTS
    Sources     \* the files to parse, see File

\* A file: its tokens; whether it is well formed, and then the nodes it must
\* yield; and the first token of an intact function at its end, or 0.
File(toks, valid, nodes, next) == [toks |-> toks, valid |-> valid, nodes |-> nodes, next |-> next]

\* The lexer answers the end of the file only after the last token.
IsFile(file) == file.toks \in Seq(STRING \ {"EOFs"})
ASSUME SourcesAreFiles == \A file \in Sources : IsFile(file)

VARIABLES
    src,     \* the file
    pos,     \* the current token; Len(src.toks) + 1 is the end of the file
    todo,    \* the instructions still to execute, the next one first
    errs,    \* the positions of the errors reported
    out      \* the nodes built, in order

vars == <<src, pos, todo, errs, out>>

\* Identifiers whose text the parser reads; "x" is any other one, "X" any
\* other one with an upper case initial.
Words == {"x", "X", "self", "operation", "atom", "ffi", "bits", "signed"}
\* Integer literals: one that is a width operation_atom accepts, one that is not.
Numbers == {"8", "3"}

Tag(t) == IF t \in Words THEN "Identifier" ELSE IF t \in Numbers THEN "Ints" ELSE t

TokenAt(p) == IF p \in DOMAIN src.toks THEN src.toks[p] ELSE "EOFs"
TagAt(p) == Tag(TokenAt(p))

-----------------------------------------------------------------------------
(* The instructions.                                                       *)

Advance == [op |-> "advance"]
Error   == [op |-> "error"]
Sync    == [op |-> "sync"]
Leave   == [op |-> "leave"]     \* return before the end of the function
Break   == [op |-> "break"]     \* leave the innermost loop
Keep    == [op |-> "keep"]      \* if (s.tag != 0) ARR_PUSH(...)
Extend  == [op |-> "extend"]    \* complete the node built last
Call(f) == [op |-> "call", to |-> f]
TailCall(f) == [op |-> "tail", to |-> f]        \* return f(self)
Expr(m) == [op |-> "expr", min |-> m]       \* parser_expr_bp(self, m)
Infix(m) == [op |-> "infix", min |-> m]     \* the loop of parser_expr_bp
Emit(tag) == [op |-> "emit", tag |-> tag]

\* Tests of the current token.
Is(tags)     == [kind |-> "tag",     set |-> tags]
Reads(words) == [kind |-> "word",    set |-> words]
Named(tags)  == [kind |-> "named",   set |-> tags]      \* and a colon follows
Generic      == [kind |-> "generic", set |-> {}]        \* parser_is_generic_invocation
Built(tag)   == [kind |-> "built",   set |-> {tag}]     \* the node built last

When(test, code) == [test |-> test, code |-> code]
Switch(cases, default) == [op |-> "switch", cases |-> cases, default |-> default]
If(test, yes, no) == Switch(<<When(test, yes)>>, no)

\* while (current is in tags) body; while (current is not in tags, nor EOF) body.
Loop(tags, when, body) == [op |-> "loop", tags |-> tags, when |-> when, body |-> body,
                           guard |-> FALSE, from |-> 0]
While(tags, body) == Loop(tags, TRUE, body)
Until(tags, body) == Loop(tags \cup {"EOFs"}, FALSE, body)
\* Until, and one token more whenever the body has consumed none.
Guarded(tags, body) == [Until(tags, body) EXCEPT !.guard = TRUE]

Opt(tag)    == If(Is({tag}), <<Advance>>, <<>>)
Need(tag)   == If(Is({tag}), <<Advance>>, <<Error>>)
Must(tag)   == If(Is({tag}), <<Advance>>, <<Error, Leave>>)
\* Bug for the mutation runs: a closing token that is missing is not missed.
ExpectSilent(tag) == Opt(tag)
\* EXPECT: parser_expect reports, the macro reports again and synchronises.
Expect(tag) == If(Is({tag}), <<Advance>>, <<Error, Error, Sync>>)
Type == Call("type")
Stmt == <<Call("stmt"), Keep>>

-----------------------------------------------------------------------------
(* Expressions.                                                            *)

TypeTokens == {"Identifier", "Ints", "Floats", "Chars", "Strings", "Bools", "Voids"}
Literals == {"Strings", "Ints", "Floats", "Chars", "Trues", "Falses", "Nulls"}
Operations == {"Plus", "Minuss", "Stars", "Slashs", "Percents", "Lesses", "Greaters", "Equalss",
               "Ampersands", "Pipes", "Carets", "Tildes", "Bangs", "PlusEqualss", "MinusEqualss",
               "StarEqualss", "SlashEqualss", "PercentEqualss", "PipeEqualss",
               "AmpersandEqualss", "CaretEqualss", "LeftShiftEqualss", "RightShiftEqualss",
               "LeftShifts", "RightShifts", "LessEqualss", "GreaterEqualss", "NotEqualss",
               "DoubleEqualss", "Ands", "Ors", "Nots"}
Assignments == {"Equalss", "PlusEqualss", "MinusEqualss", "StarEqualss", "SlashEqualss",
                "PercentEqualss", "PipeEqualss", "AmpersandEqualss", "CaretEqualss",
                "LeftShiftEqualss", "RightShiftEqualss"}

\* Level i is what parser_precedence maps to i; 0 stands for -1.
Levels == << Assignments, {"Ors"}, {"Ands"}, {"Pipes"}, {"Carets"}, {"Ampersands"},
             {"DoubleEqualss", "NotEqualss"},
             {"Lesses", "Greaters", "LessEqualss", "GreaterEqualss"},
             {"LeftShifts", "RightShifts"}, {"Plus", "Minuss"},
             {"Stars", "Slashs", "Percents"}, {"LeftBrackets"}, {"Dots"} >>
parser_precedence(tag) ==
    IF \E i \in DOMAIN Levels : tag \in Levels[i]
    THEN CHOOSE i \in DOMAIN Levels : tag \in Levels[i]
    ELSE 0

\* Bug for the mutation runs: every operator groups to the right.
RightLevelSame(tag) == parser_precedence(tag)

\* The operand parsed after an operator: to the right of an assignment the
\* same level again, of any other operator the next one.
RightLevel(tag) == IF tag \in Assignments THEN parser_precedence(tag)
                                          ELSE parser_precedence(tag) + 1

\* After its primary an expression takes operators of level min and above, and
\* then one cast.
Operator(tag, min) ==
    IF tag = "LeftBrackets"
    THEN <<Advance, Expr(0), Expect("RightBrackets"), Emit("Idx"), Infix(min)>>
    ELSE IF tag = "Dots"
    THEN << Advance,
            If(Is({"Identifier"}),
               << Advance, Call("generic_args"),
                  If(Is({"LeftParens"}), <<Call("arguments"), Emit("Class_Calls")>>,
                                         <<Emit("Field")>>) >>,
               <<Error>>),
            Infix(min) >>
    ELSE <<Advance, Expr(RightLevel(tag)), Emit("BinaryOps"), Infix(min)>>
Cast == <<If(Is({"Ass"}), <<Advance, Type, Emit("Cast")>>, <<>>)>>

\* TRUE when `<' opens a list of names and types that ends in `>(' or `>{'.
parser_is_generic_invocation ==
    LET scan[p \in 1 .. Len(src.toks) + 1, depth \in 0 .. Len(src.toks)] ==
            CASE TagAt(p) = "Greaters" /\ depth = 1 ->
                     TagAt(p + 1) \in {"LeftParens", "LeftBraces"}
              [] TagAt(p) = "Greaters" /\ depth > 1 -> scan[p + 1, depth - 1]
              [] TagAt(p) = "Lesses" -> scan[p + 1, depth + 1]
              [] TagAt(p) \in TypeTokens \cup {"Colons", "Commas"} -> scan[p + 1, depth]
              [] OTHER -> FALSE
    IN  TagAt(pos) = "Lesses" /\ scan[pos + 1, 1]

parser_literal ==
    << Advance, Until({"RightBraces"}, "literal_field"), Expect("RightBraces"),
       Emit("Struct_Calls") >>
LiteralField ==
    << If(Is({"Identifier"}), <<Advance>>, <<Error, Sync, Break>>),
       Need("Equalss"), Expr(0), Opt("Commas") >>

parser_array ==
    <<Advance, Until({"RightBrackets"}, "element"), Expect("RightBrackets"), Emit("Array")>>
Element == <<Expr(0), If(Is({"Commas"}), <<Advance>>, <<Break>>)>>

parser_function_call == <<Call("generic_args"), Call("arguments"), Emit("Function")>>
parse_call_arguments ==
    << If(Is({"LeftParens"}), <<Advance>>, <<Leave>>),
       Until({"RightParens"}, "argument"), Expect("RightParens") >>
Argument == <<If(Named({"Identifier"}), <<Advance, Advance>>, <<>>), Expr(0), Opt("Commas")>>

parse_generic_args ==
    << If(Is({"Lesses"}), <<Advance>>, <<Leave>>),
       Until({"Greaters"}, "generic_arg"), Expect("Greaters") >>
GenericArg == <<If(Is(TypeTokens \cup {"Commas"}), <<Advance>>, <<Error, Advance>>)>>

\* The zero Exprs that stands for a missing expression has tag 0, Expr_Function.
parser_expr_primary ==
    << Switch(<<
         When(Is({"LeftBrackets"}), <<TailCall("array")>>),
         When(Is({"Ampersands"}), <<Advance, Call("primary"), Emit("AddrOf")>>),
         When(Is({"Minuss", "Nots", "Bangs", "Tildes"}),
              <<Advance, Call("primary"), Emit("Unary")>>),
         When(Is({"LeftParens"}), <<TailCall("parenthesis")>>),
         When(Is(Literals), <<Advance, Emit("Literals")>>),
         When(Is({"Identifier"}), <<TailCall("identifier")>>),
         When(Is({"EOFs"}), <<Error, Emit("Function")>>)>>,
         <<Error, Advance, Emit("Function")>>) >>
Parenthesis ==
    << Advance,
       If(Is({"RightParens"}), <<Advance, Emit("Tuple"), Leave>>, <<Expr(0)>>),
       If(Is({"Commas"}),
          <<While({"Commas"}, "tuple_element"), Expect("RightParens"), Emit("Tuple")>>,
          <<Expect("RightParens")>>) >>
TupleElement == <<Advance, If(Is({"RightParens"}), <<Break>>, <<Expr(0)>>)>>
IdentifierExpr ==
    << Advance,
       If(Generic,
          << Advance, Until({"Greaters"}, "skip"), Opt("Greaters"),
             Switch(<< When(Is({"LeftParens"}), <<Call("arguments"), Emit("Function"), Leave>>),
                       When(Is({"LeftBraces"}), <<TailCall("literal")>>) >>, <<>>) >>,
          <<>>),
       Switch(<< When(Is({"LeftParens"}), <<TailCall("function_call")>>),
                 When(Is({"LeftBraces"}), <<TailCall("literal")>>) >>,
              <<Emit("Identifiers")>>) >>

-----------------------------------------------------------------------------
(* Types.  atomic_imported is never set: `Atomic' is a keyword, and the    *)
(* parser sets the flag for an identifier of that name.                    *)

parser_type_base ==
    << Switch(<<
         When(Is({"LeftBrackets"}),
              <<Advance, Type, While({"Commas"}, "dimension"), Expect("RightBrackets")>>),
         When(Is(TypeTokens \ {"Identifier"}), <<Advance, Emit("Type")>>),
         When(Is({"Atomics"}), <<Advance, Error, Advance, Emit("Type")>>),
         When(Is({"LeftParens"}),
              << Advance, Until({"RightParens"}, "type_element"), Expect("RightParens"),
                 Emit("Type") >>),
         When(Is({"Stars"}), <<TailCall("pointer")>>),
         When(Is({"Functions"}), <<TailCall("function_type")>>),
         When(Is({"Identifier"}), <<Advance, Emit("Type_Custom")>>)>>,
         <<Error, Advance, Emit("Type")>>) >>
Dimension == <<Advance, If(Is({"Ints"}), <<Advance, Emit("Type")>>, <<Error, Break>>)>>
TypeElement == <<Type, Opt("Commas")>>
Pointer ==
    << Advance, Opt("Consts"),
       If(Is({"Stars"}), <<Advance, Type, Opt("Consts"), Emit("Type")>>, <<Type>>),
       Emit("Type") >>
FunctionType ==
    << Advance,
       If(Is({"LeftParens"}),
          <<Advance, Until({"RightParens"}, "type_element"), Expect("RightParens")>>, <<>>),
       If(Is({"Colons"}), <<Advance, Type>>, <<>>), Emit("Type") >>

\* Only a named type takes arguments, whatever stands in the brackets.
parser_type ==
    << Call("type_base"),
       If(Built("Type_Custom"),
          << If(Is({"LeftBrackets"}),
                << Advance, Until({"RightBrackets"}, "type_arg"), Expect("RightBrackets"),
                   Extend >>, <<>>) >>,
          <<>>) >>
TypeArg == <<Advance, Opt("Commas")>>

-----------------------------------------------------------------------------
(* Declarations.                                                           *)

Bound == If(Is({"Colons"}), <<Advance, Need("Identifier")>>, <<>>)
GenericParam(names) ==
    << Switch(<< When(Is(names), <<Advance, Bound>>), When(Is({"Commas"}), <<Advance>>) >>,
              <<Error, Advance>>) >>
parse_generic_params ==
    << If(Is({"Lesses"}), <<Advance>>, <<Leave>>),
       Until({"Greaters"}, "generic_param"), Expect("Greaters") >>
\* What parser_structer, parser_enums and parser_traits have after the name.
Brackets ==
    If(Is({"LeftBrackets"}),
       <<Advance, Until({"RightBrackets"}, "bracket_param"), Expect("RightBrackets")>>, <<>>)

parse_function_params ==
    << Must("LeftParens"), Until({"RightParens"}, "param"), Expect("RightParens") >>
\* Bug for the mutation runs: the loop goes on where the synchronisation stopped.
FunctionParamAgain ==
    <<If(Is({"Identifier"}), <<Advance, If(Is({"Colons"}), <<Advance, Type>>, <<>>)>>, <<Error, Sync>>)>>
\* Only `self' needs no type.
FunctionParam ==
    << Switch(<< When(Reads({"self"}), <<Advance, If(Is({"Colons"}), <<Advance, Type>>, <<>>)>>),
                 When(Is({"Identifier"}),
                      <<Advance, If(Is({"Colons"}), <<Advance, Type>>, <<Error>>)>>) >>,
              <<Error, Sync, Break>>),
       Opt("Commas") >>
Signature ==
    << Need("Identifier"), Call("generic_params"), Call("params"),
       If(Is({"Colons"}), <<Advance, Type>>, <<>>) >>

parser_functions ==
    <<Advance>> \o Signature
    \o <<Guarded({"Ends"}, "body"), Expect("Ends"), Emit("Functions")>>
parser_trait_functions == <<Advance>> \o Signature \o <<Emit("TraitMethod")>>

Traits ==
    If(Is({"Fors"}),
       << Advance, If(Is({"Identifier"}), <<>>, <<Error>>), While({"Identifier"}, "type_arg") >>,
       <<>>)
parser_class ==
    << Advance, Need("Identifier"), Traits, Call("generic_params"),
       If(Is({"LeftParens"}), <<Call("params")>>, <<>>), Traits,
       If(Is({"Greaters"}), <<Advance, Need("Identifier")>>, <<>>),
       Until({"Ends"}, "member"), Expect("Ends"), Emit("Classes") >>
ClassMember ==
    << Switch(<<
         When(Is({"Vars", "Lets"}), <<Advance, Need("Identifier"), Need("Colons"), Type>>),
         When(Is({"Publics"}),
              << Advance, Opt("Unsafes"),
                 If(Is({"Functions"}), <<Call("functions")>>, <<Error, Advance>>) >>),
         When(Is({"Functions"}), <<Call("functions")>>),
         When(Is({"Ats"}),
              << Advance,
                 If(Reads({"operation"}),
                    << Call("operation_op"),
                       If(Is({"Functions"}), <<Call("functions")>>, <<Error>>) >>,
                    <<Error, Advance>>) >>)>>,
         <<Error, Advance>>) >>

parser_structer ==
    << Advance, Need("Identifier"), Brackets, Need("Colons"),
       Until({"Ends"}, "struct_field"), Expect("Ends"), Emit("Structs") >>
StructField ==
    << Switch(<< When(Is({"Vars"}), <<Advance, Need("Identifier"), Need("Equalss"), Type>>),
                 When(Is({"Identifier"}), <<Advance, Need("Colons"), Type>>) >>,
              <<Error, Advance>>) >>

parser_enums ==
    << Advance, Need("Identifier"), Brackets, Need("Colons"),
       Until({"Ends"}, "variant"), Expect("Ends"), Emit("Enums") >>
EnumVariant ==
    << Switch(<<
         When(Is({"Identifier"}),
              << Advance,
                 If(Is({"LeftParens"}),
                    << Advance, Until({"RightParens"}, "enum_field"), Expect("RightParens") >>,
                    <<>>) >>),
         When(Is({"Commas"}), <<Advance>>)>>,
         <<Error, Advance>>) >>
EnumField == <<If(Named(TypeTokens), <<Advance, Advance>>, <<>>), Type, Opt("Commas")>>

parser_traits ==
    << Advance, Need("Identifier"), Brackets, Need("Colons"),
       Guarded({"Ends"}, "trait_member"), Expect("Ends"), Emit("Traits") >>
TraitMember ==
    << Switch(<< When(Is({"Types"}), <<Advance, Need("Identifier")>>),
                 When(Is({"Functions"}), <<Call("trait_functions")>>) >>,
              <<Error, Advance>>) >>

\* The block is read in place, within the function that returns the statement.
parser_extern ==
    <<Advance, Opt("Strings"), Until({"Ends"}, "extern_func"), Expect("Ends"), Emit("Externs")>>
ExternFunc ==
    << If(Is({"Functions"}),
          << Advance, Need("Identifier"),
             If(Is({"LeftParens"}),
                <<Advance, Until({"RightParens"}, "extern_param"), Expect("RightParens")>>,
                <<Error>>),
             If(Is({"Colons"}), <<Advance, Type>>, <<>>) >>,
          <<Error, Advance>>) >>
ExternParam ==
    << If(Is({"Identifier"}), <<Advance>>, <<Error, Sync, Break>>),
       Need("Colons"), Type, Opt("Commas") >>

parser_module ==
    << Advance, Need("Identifier"), Guarded({"Ends"}, "body"), Expect("Ends"), Emit("Modules") >>

-----------------------------------------------------------------------------
(* Statements.                                                             *)

Declared ==
    << Need("Identifier"), If(Is({"Colons"}), <<Advance, Type>>, <<>>),
       If(Is({"Equalss"}), <<Advance, Expr(0)>>, <<Error>>) >>
parser_vars   == <<Advance>> \o Declared \o <<Emit("Vars")>>
parser_lets   == <<Advance>> \o Declared \o <<Emit("Lets")>>
parser_const  == Declared \o <<Emit("Consts")>>
\* Every caller passes is_const: a `global' is a constant.
parser_globle == <<Advance>> \o Declared \o <<Emit("Consts")>>

parser_return ==
    << Advance, If(Is({"Ends", "Semicolons", "EOFs"}), <<>>, <<Expr(0)>>), Emit("Returns") >>

parser_match ==
    << Advance, Expr(0), Need("Colons"), While({"Cases"}, "arm"), Expect("Ends"),
       Emit("Matchs") >>
Arm == <<Advance, Expr(0), Need("Dos"), Until({"Cases", "Ends"}, "body")>>

parser_while ==
    <<Advance, Expr(0), Need("Dos"), Until({"Ends"}, "body"), Expect("Ends"), Emit("Whiles")>>
\* A for keeps what parser_stmt returns, the zero Stmts included.
parser_for ==
    << Advance, Need("Identifier"), Need("Ins"), Expr(0), Need("Dos"),
       Until({"Ends"}, "for_body"), Expect("Ends"), Emit("Fors") >>

\* No token has tag Underscores.
parser_if_pat ==
    << Switch(<< When(Is({"Lets", "Vars"}), <<Advance, Must("Identifier")>>),
                 When(Reads({"X"}),
                      <<Advance, Must("LeftParens"), Must("Identifier"), Must("RightParens")>>) >>,
              <<Leave>>),
       Need("Equalss") >>
Branch ==
    << Advance, Call("if_pat"), Expr(0), Need("Thens"), Until({"Ends", "Elifs", "Elses"}, "body"),
       Switch(<< When(Is({"Elifs"}), <<Call("elif")>>), When(Is({"Elses"}), <<Call("else")>>) >>,
              <<>>) >>
parser_if   == Branch \o <<Opt("Ends"), Emit("Ifs")>>
parser_elif == Branch \o <<Emit("Elifs")>>
parser_else == <<Advance, Opt("Thens"), Until({"Ends"}, "body"), Emit("Elses")>>

parser_import ==
    << Advance,
       Switch(<< When(Is({"Stars"}),
                      << Advance, If(Is({"Froms"}), <<>>, <<Error>>), Advance, Need("Strings") >>),
                 When(Is({"Strings"}), <<Advance>>) >>,
              << Need("Identifier"), If(Is({"Froms"}), <<Advance, Need("Strings")>>, <<>>) >>),
       Emit("Imports") >>
parser_from_import ==
    << Advance, Need("Strings"), If(Is({"Imports"}), <<>>, <<Error>>), Advance,
       If(Is({"Stars", "Identifier"}), <<Advance>>, <<Error>>), Emit("Imports") >>

\* Annotations.  What operation_op returns is dropped outside of a class, and
\* operation_atom returns nothing: the statement is the zero Stmts.
operation_op == <<Advance, Must("LeftParens"), If(Is(Operations), <<Advance>>, <<Error, Leave>>),
                  Must("RightParens")>>
Says(words) == If(Reads(words), <<Advance>>, <<Error, Leave>>)
operation_atom ==
    << Advance, Must("LeftParens"), Says({"bits"}), Must("Equalss"), Says({"8"}), Must("Commas"),
       Says({"signed"}), Must("Equalss"),
       If(Is({"Trues", "Falses"}), <<Advance>>, <<Error, Leave>>), Must("RightParens") >>
parser_ffi ==
    << Advance,
       Switch(<< When(Is({"Strings"}), <<Advance>>) >>, <<Error, Emit("Invalid"), Leave>>),
       Switch(<< When(Is({"RightParens"}), <<Advance>>) >>, <<Error, Emit("Invalid"), Leave>>),
       TailCall("extern") >>
\* Bug for the mutation runs: an annotation nobody knows is dropped.
parser_operation_quiet ==
    << Advance, Opt("x"), If(Reads({"ffi"}), <<Advance, TailCall("ffi")>>, <<>>), Emit("Invalid") >>
parser_operation ==
    << Advance,
       Switch(<< When(Reads({"operation"}), <<Advance, Call("operation_op"), Emit("Invalid")>>),
                 When(Reads({"atom"}), <<Advance, Call("operation_atom"), Emit("Invalid")>>),
                 When(Reads({"ffi"}), <<Advance, TailCall("ffi")>>),
                 When(Is({"Identifier"}), <<Error, Advance, Emit("Invalid")>>) >>,
              <<Error, Emit("Invalid")>>) >>

\* What may follow `pub', `unsafe', both, or `const'.
OneOf(heads) ==
    Switch(heads, <<Error, Sync, Emit("Invalid")>>)
Begin(tag, f) == When(Is({tag}), <<TailCall(f)>>)
Items == << Begin("Functions", "functions"), Begin("Structs", "structer"),
            Begin("Enums", "enums"), Begin("Traits", "traits") >>
parser_stmt ==
    << Switch(<<
         When(Is({"Publics"}),
              << Advance,
                 If(Is({"Unsafes"}), <<Advance, OneOf(Items)>>,
                    <<OneOf(Items \o <<Begin("Classes", "class"), Begin("Modules", "module")>>)>>) >>),
         When(Is({"Unsafes"}), <<Advance, OneOf(Items)>>),
         When(Is({"Consts"}),
              << Advance, OneOf(<< Begin("Functions", "functions"), Begin("Locals", "globle"),
                                   Begin("Identifier", "const") >>) >>)>>
         \o Items \o
       << Begin("Imports", "import"), Begin("Froms", "from_import"), Begin("Modules", "module"),
          Begin("Classes", "class"), Begin("Ifs", "if"), Begin("Returns", "return"),
          Begin("Locals", "globle"), Begin("Vars", "vars"), Begin("Lets", "lets"),
          Begin("Matchs", "match"), Begin("Fors", "for"), Begin("Ats", "operation"),
          Begin("Whiles", "while"), Begin("Externs", "extern"),
          When(Is({"EOFs"}), <<Error, Emit("Invalid")>>) >>,
       <<Expr(0), Emit("ExprStmt")>>) >>

\* The code by name.
Code ==
  [ arguments |-> parse_call_arguments, argument |-> Argument, array |-> parser_array,
    element |-> Element, literal |-> parser_literal, literal_field |-> LiteralField,
    function_call |-> parser_function_call, generic_args |-> parse_generic_args,
    generic_arg |-> GenericArg, primary |-> parser_expr_primary, parenthesis |-> Parenthesis,
    tuple_element |-> TupleElement, identifier |-> IdentifierExpr, skip |-> <<Advance>>,
    type |-> parser_type, type_base |-> parser_type_base, type_arg |-> TypeArg,
    dimension |-> Dimension, type_element |-> TypeElement, pointer |-> Pointer,
    function_type |-> FunctionType, generic_params |-> parse_generic_params,
    generic_param |-> GenericParam(TypeTokens), bracket_param |-> GenericParam({"Identifier"}),
    params |-> parse_function_params, param |-> FunctionParam,
    functions |-> parser_functions, trait_functions |-> parser_trait_functions,
    class |-> parser_class, member |-> ClassMember, structer |-> parser_structer,
    struct_field |-> StructField, enums |-> parser_enums, variant |-> EnumVariant,
    enum_field |-> EnumField, traits |-> parser_traits, trait_member |-> TraitMember,
    extern |-> parser_extern, extern_func |-> ExternFunc, extern_param |-> ExternParam,
    module |-> parser_module, vars |-> parser_vars, lets |-> parser_lets,
    const |-> parser_const, globle |-> parser_globle, return |-> parser_return,
    match |-> parser_match, arm |-> Arm, while |-> parser_while, for |-> parser_for,
    for_body |-> <<Call("stmt")>>, if_pat |-> parser_if_pat, if |-> parser_if,
    elif |-> parser_elif, else |-> parser_else, import |-> parser_import,
    from_import |-> parser_from_import, operation_op |-> operation_op,
    operation_atom |-> operation_atom, ffi |-> parser_ffi, operation |-> parser_operation,
    stmt |-> parser_stmt, body |-> Stmt ]

-----------------------------------------------------------------------------
(* The machine.                                                            *)

\* Bug for the mutation runs: the synchronisation does not know the items.
SyncTagsFew == {"Semicolons", "Returns", "EOFs"}
SyncTags == {"Ends", "Semicolons", "Functions", "Classes", "Structs", "Enums", "Traits",
             "Returns", "EOFs"}

Holds(test) ==
    CASE test.kind = "tag"     -> TagAt(pos) \in test.set
      [] test.kind = "word"    -> TokenAt(pos) \in test.set
      [] test.kind = "named"   -> TagAt(pos) \in test.set /\ TagAt(pos + 1) = "Colons"
      [] test.kind = "generic" -> parser_is_generic_invocation
      [] test.kind = "built"   -> out[Len(out)].tag \in test.set

\* What is left from the first instruction with one of the names in ops.
From(ops) ==
    LET found == {i \in DOMAIN todo : todo[i].op \in ops}
    IN  SubSeq(todo, CHOOSE i \in found : \A j \in found : i <= j, Len(todo))

\* The first token of the function that is executing.
Entry == From({"ret"})[1].from

Init ==
    /\ src \in Sources
    /\ pos = 1
    /\ todo = <<Guarded({}, "body")>>
    /\ errs = {}
    /\ out = <<>>

At(op) == todo # <<>> /\ todo[1].op = op
Then(code) == todo' = code \o Tail(todo)
\* Bug for the mutation runs: the end of the file is a token like another.
FollowingAny(p) == p + 1
Following(p) == IF p <= Len(src.toks) THEN p + 1 ELSE p

\* lexer_advance: at the end of the file it stays.
AdvanceToken ==
    /\ At("advance")
    /\ pos' = Following(pos)
    /\ Then(<<>>)
    /\ UNCHANGED <<src, errs, out>>

parse_error ==
    /\ At("error")
    /\ errs' = errs \cup {pos}
    /\ Then(<<>>)
    /\ UNCHANGED <<src, pos, out>>

\* The token synchronised on is not consumed.
parser_sync ==
    /\ At("sync")
    /\ pos' = CHOOSE p \in pos .. Len(src.toks) + 1 :
                  TagAt(p) \in SyncTags /\ \A q \in pos .. p - 1 : TagAt(q) \notin SyncTags
    /\ Then(<<>>)
    /\ UNCHANGED <<src, errs, out>>

Choose ==
    /\ At("switch")
    /\ LET cases == todo[1].cases
           taken == {i \in DOMAIN cases : Holds(cases[i].test)}
       IN  Then(IF taken = {} THEN todo[1].default
                ELSE cases[CHOOSE i \in taken : \A j \in taken : i <= j].code)
    /\ UNCHANGED <<src, pos, errs, out>>

TestLoop ==
    /\ At("loop")
    /\ LET loop == todo[1]
       IN  Then(IF (TagAt(pos) \in loop.tags) = loop.when
                THEN Append(Code[loop.body], [loop EXCEPT !.op = "again", !.from = pos])
                ELSE <<>>)
    /\ UNCHANGED <<src, pos, errs, out>>

EndIteration ==
    /\ At("again")
    /\ pos' = IF todo[1].guard /\ pos = todo[1].from THEN Following(pos) ELSE pos
    /\ Then(<<[todo[1] EXCEPT !.op = "loop", !.from = 0]>>)
    /\ UNCHANGED <<src, errs, out>>

Enter(code) == Then(Append(code, [op |-> "ret", from |-> pos]))

CallFunction ==
    /\ \/ At("call") /\ Enter(Code[todo[1].to])
       \/ At("tail") /\ todo' = Code[todo[1].to] \o From({"ret"})
    /\ UNCHANGED <<src, pos, errs, out>>

parser_expr_bp ==
    /\ \/ At("expr") /\ Enter(<<Call("primary"), Infix(todo[1].min)>>)
       \/ /\ At("infix")
          /\ LET level == parser_precedence(TagAt(pos))
             IN  Then(IF level = 0 \/ level < todo[1].min THEN Cast
                      ELSE Operator(TagAt(pos), todo[1].min))
    /\ UNCHANGED <<src, pos, errs, out>>

ReturnFrom ==
    /\ \/ At("ret") /\ Then(<<>>)
       \/ At("leave") /\ todo' = Tail(From({"ret"}))
       \/ At("break") /\ todo' = Tail(From({"again"}))
    /\ UNCHANGED <<src, pos, errs, out>>

BuildNode ==
    /\ \/ /\ At("emit")
          /\ out' = Append(out, [tag |-> todo[1].tag, from |-> Entry, to |-> pos - 1])
       \/ /\ At("extend")
          /\ out' = [out EXCEPT ![Len(out)].to = pos - 1]
       \/ /\ At("keep")
          /\ out' = IF out[Len(out)].tag = "Invalid" THEN SubSeq(out, 1, Len(out) - 1) ELSE out
    /\ Then(<<>>)
    /\ UNCHANGED <<src, pos, errs>>

Done == todo = <<>> /\ UNCHANGED vars

Next == \/ AdvanceToken \/ parse_error \/ parser_sync \/ Choose \/ TestLoop \/ EndIteration
        \/ CallFunction \/ parser_expr_bp \/ ReturnFrom \/ BuildNode \/ Done

\* The parser is a loop of one thread: it keeps running.
Spec == Init /\ [][Next]_vars /\ WF_vars(Next)

-----------------------------------------------------------------------------
(* Properties.                                                             *)

Ended == todo = <<>>

\* The parser stays within the file, and so does what it reports and builds.
TypeOK ==
    /\ pos \in 1 .. Len(src.toks) + 1
    /\ errs \subseteq 1 .. pos
    /\ \A i \in DOMAIN out : out[i].from \in 1 .. Len(src.toks) + 1 /\ out[i].to \in 0 .. pos - 1

\* Whatever the tokens, the parse ends: no loop waits for a token it does not
\* consume.  Most bodies rely on parser_stmt to consume one.
ParseEnds == <>Ended

\* A file printed by the parser's own grouping parses without an error into the
\* nodes it was printed from: precedence, associativity and nesting survive.
\* That grouping has a prefix take the primary behind it and no postfix, a cast
\* take all of its operand before it and end it, and a `<' behind a field open
\* generic arguments: what is to group otherwise is printed in parentheses.
RoundTrip == Ended /\ src.valid => errs = {} /\ out = src.nodes

\* Statements that end with a token of their own.
ClosedTags == {"Functions", "Classes", "Structs", "Enums", "Traits", "Externs", "Modules",
               "Matchs", "Whiles", "Fors"}

\* A file that parses without an error has an `end' for every block, its own: a
\* missing one never goes unreported by taking the `end' of the next block.
ClosedIfSilent ==
    Ended /\ errs = {} =>
        LET blocks == {i \in DOMAIN out : out[i].tag \in ClosedTags}
        IN  \A i \in blocks : /\ TagAt(out[i].to) = "Ends"
                              /\ \A j \in blocks \ {i} : out[j].to # out[i].to

\* Outside of a class two annotations are read, with one token after the name,
\* and dropped: @operation x ( op ) and @atom x ( bits = 8 , signed = true ).
Annotated(p) ==
    \E q \in 1 .. p : /\ TagAt(q) = "Ats"
                      /\ \/ TokenAt(q + 1) = "operation" /\ p <= q + 5
                         \/ TokenAt(q + 1) = "atom" /\ p <= q + 11

\* What else the parser drops it reports: without an error every token is in a
\* node.
NothingSkipped ==
    Ended /\ errs = {} =>
        \A p \in DOMAIN src.toks :
            (\E i \in DOMAIN out : p \in out[i].from .. out[i].to) \/ Annotated(p)

\* The recovery after an error stops early enough: a function that follows a
\* broken function, or a statement broken in its head or in its body, is still
\* parsed, whole.
NextSurvives ==
    Ended /\ src.next # 0 =>
        \E i \in DOMAIN out : /\ out[i].tag = "Functions"
                              /\ out[i].from = src.next
                              /\ out[i].to = Len(src.toks)
=============================================================================
