------------------------------ MODULE MCParser ------------------------------
(* Instances of Parser for TLC: files printed from syntax trees, and the   *)
(* same files with one token deleted, inserted or replaced.                *)
EXTENDS Parser, TLC, SequencesExt

\* A tree is a node over trees: its text, where each "_" stands for the next of
\* its parts.  A node with tag "" leaves none.
N(tag, text, parts) == [tag |-> tag, text |-> text, parts |-> parts]
Block(trees) == N("", [i \in DOMAIN trees |-> "_"], trees)

RECURSIVE Printed(_, _)
\* What a tree yields when it is printed after `at' tokens.
Printed(tree, at) ==
    LET Nth(i) == Cardinality({j \in 1 .. i : tree.text[j] = "_"})
        upto[i \in 0 .. Len(tree.text)] ==
            IF i = 0 THEN [toks |-> <<>>, nodes |-> <<>>]
            ELSE LET done == upto[i - 1]
                     item == IF tree.text[i] = "_"
                             THEN Printed(tree.parts[Nth(i)], at + Len(done.toks))
                             ELSE [toks |-> <<tree.text[i]>>, nodes |-> <<>>]
                 IN  [toks |-> done.toks \o item.toks, nodes |-> done.nodes \o item.nodes]
        all == upto[Len(tree.text)]
    IN  IF tree.tag = "" THEN all
        ELSE [all EXCEPT !.nodes = Append(@, [tag |-> tree.tag, from |-> at + 1,
                                              to |-> at + Len(all.toks)])]
Valid(trees) == LET p == Printed(Block(trees), 0)
                IN  File(p.toks, TRUE, p.nodes, 0)

-----------------------------------------------------------------------------
IntType    == N("Type", <<"Ints">>, <<>>)
Custom == N("Type_Custom", <<"x">>, <<>>)
Types  == { IntType, Custom, N("Type_Custom", <<"x", "LeftBrackets", "Ints", "Commas", "x", "RightBrackets">>, <<>>),
            N("", <<"_", "RightBrackets">>, <<N("Type", <<"LeftBrackets", "_", "Commas", "8">>, <<Custom>>)>>),
            N("Type", <<"Stars", "Consts", "_">>, <<Custom>>),
            N("Type", <<"_">>, <<N("Type", <<"Stars", "Stars", "_">>, <<IntType>>)>>),
            N("Type", <<"LeftParens", "_", "Commas", "_", "RightParens">>, <<IntType, Custom>>),
            N("Type", <<"Functions", "LeftParens", "_", "Commas", "_", "RightParens", "Colons", "_">>, <<IntType, Custom, IntType>>) }

Id  == N("Identifiers", <<"x">>, <<>>)
Lit == N("Literals", <<"8">>, <<>>)
Paren(e) == N("", <<"LeftParens", "_", "RightParens">>, <<e>>)
Postfix(e) == { N("Field", <<"_", "Dots", "x">>, <<e>>),
                N("Class_Calls", <<"_", "Dots", "x", "LeftParens", "_", "RightParens">>, <<e, Id>>),
                N("Class_Calls", <<"_", "Dots", "x", "Lesses", "Ints", "Greaters", "LeftParens", "RightParens">>, <<e>>),
                N("Idx", <<"_", "LeftBrackets", "_", "RightBrackets">>, <<e, Lit>>) }
Primary == { Id, Lit, N("Function", <<"x", "LeftParens", "RightParens">>, <<>>),
             N("Function", <<"x", "LeftParens", "x", "Colons", "_", "Commas", "_", "RightParens">>, <<Lit, Id>>),
             N("Function", <<"x", "Lesses", "Ints", "Commas", "x", "Greaters", "LeftParens", "_", "RightParens">>, <<Id>>),
             N("Struct_Calls", <<"x", "LeftBraces", "x", "Equalss", "_", "RightBraces">>, <<Lit>>),
             N("Struct_Calls", <<"x", "Lesses", "x", "Greaters", "LeftBraces", "RightBraces">>, <<>>),
             N("Array", <<"LeftBrackets", "_", "Commas", "_", "RightBrackets">>, <<Lit, Id>>),
             N("Tuple", <<"LeftParens", "RightParens">>, <<>>),
             N("Tuple", <<"LeftParens", "_", "Commas", "_", "RightParens">>, <<Id, Lit>>), Paren(Id) }
PrefixOps == {"Minuss", "Nots", "Bangs", "Tildes"}
Unary(e) == {N("Unary", <<p, "_">>, <<e>>) : p \in PrefixOps} \cup {N("AddrOf", <<"Ampersands", "_">>, <<e>>)}
Cast1(e) == N("Cast", <<"_", "Ass", "_">>, <<e, Custom>>)

\* The binary operators, the loosest first.  The first level groups to the
\* right, the others to the left.
Binary == << {"Equalss", "PlusEqualss", "MinusEqualss", "StarEqualss", "SlashEqualss", "PercentEqualss",
              "PipeEqualss", "AmpersandEqualss", "CaretEqualss", "LeftShiftEqualss", "RightShiftEqualss"},
             {"Ors"}, {"Ands"}, {"Pipes"}, {"Carets"}, {"Ampersands"}, {"DoubleEqualss", "NotEqualss"},
             {"Lesses", "Greaters", "LessEqualss", "GreaterEqualss"}, {"LeftShifts", "RightShifts"},
             {"Plus", "Minuss"}, {"Stars", "Slashs", "Percents"} >>
BinOps == UNION Range(Binary)
Power(op) == CHOOSE i \in DOMAIN Binary : op \in Binary[i]
Bin(l, op, r) == N("BinaryOps", <<"_", op, "_">>, <<l, r>>)
\* (x i x) j x and x i (x j x), with the parentheses they need and no others.
LeftTree(i, j) ==
    LET left == Bin(Id, i, Id)
        bare == Power(i) > Power(j) \/ (Power(i) = Power(j) /\ Power(i) > 1)
    IN  Bin(IF bare THEN left ELSE Paren(left), j, Id)
RightTree(i, j) ==
    LET right == Bin(Id, j, Id)
        bare == Power(j) > Power(i) \/ (Power(i) = Power(j) /\ Power(i) = 1)
    IN  Bin(Id, i, IF bare THEN right ELSE Paren(right))

\* What binds how: a prefix takes the primary behind it and nothing more, so that
\* a postfix is of the prefix; a cast takes everything before it, up to the operand
\* it is in, and ends the operand; a `<' behind a field opens generic arguments.
\* Against these rules there are parentheses.
Field1 == N("Field", <<"_", "Dots", "x">>, <<Id>>)
Operand(e, op) == IF e = Field1 /\ op = "Lesses" THEN Paren(e) ELSE e
Mixed(op) ==
    {Bin(Operand(e, op), op, Id) : e \in Postfix(Id) \cup Unary(Id)}
    \cup {Bin(Id, op, e) : e \in Postfix(Id) \cup Unary(Id) \cup {Cast1(Id)}}
    \cup {Bin(Paren(Cast1(Id)), op, Id), Cast1(Paren(Bin(Id, op, Id)))}
    \cup Unary(Paren(Bin(Id, op, Id))) \cup Postfix(Paren(Bin(Id, op, Id)))
Nested ==
    UNION {Postfix(e) \cup {Cast1(e)} : e \in Primary \cup Unary(Id) \cup Postfix(Id) \cup {Paren(Cast1(Id))}}
    \cup UNION {Unary(e) : e \in Primary \cup Unary(Id) \cup {Paren(Cast1(Id))} \cup {Paren(p) : p \in Postfix(Id)}}
\* Where an expression stands between tokens of its own.
Within(e) == { N("Function", <<"x", "LeftParens", "_", "Commas", "x", "Colons", "_", "RightParens">>, <<e, e>>),
               N("Struct_Calls", <<"x", "LeftBraces", "x", "Equalss", "_", "Commas", "x", "Equalss", "_", "RightBraces">>, <<e, e>>),
               N("Array", <<"LeftBrackets", "_", "Commas", "_", "RightBrackets">>, <<e, e>>),
               N("Tuple", <<"LeftParens", "_", "Commas", "_", "RightParens">>, <<e, e>>),
               N("Idx", <<"_", "LeftBrackets", "_", "RightBrackets">>, <<Id, e>>), Paren(e) }
Forms == Primary \cup Postfix(Id) \cup Unary(Id) \cup {Cast1(Id)} \cup {Bin(Id, op, Id) : op \in BinOps}

Exprs ==
    Forms \cup Nested \cup UNION {Within(e) : e \in Forms} \cup UNION {Mixed(op) : op \in BinOps}
    \cup {LeftTree(i, j) : i, j \in BinOps} \cup {RightTree(i, j) : i, j \in BinOps}

-----------------------------------------------------------------------------
Do(e)     == N("ExprStmt", <<"_">>, <<e>>)
Ret       == N("Returns", <<"Returns", "_">>, <<Id>>)
Var       == N("Vars", <<"Vars", "x", "Colons", "_", "Equalss", "_">>, <<IntType, Lit>>)
Params    == N("", <<"LeftParens", "self", "Commas", "x", "Colons", "_", "RightParens">>, <<Custom>>)
Fn(body)  == N("Functions", <<"Functions", "x", "_", "Colons", "_", "_", "Ends">>, <<Params, IntType, Block(body)>>)
Else(body) == N("Elses", <<"Elses", "_">>, <<Block(body)>>)
Elif(body, rest) == N("Elifs", <<"Elifs", "_", "Thens", "_", "_">>, <<Id, Block(body), Block(rest)>>)
If1(pat, body, rest) ==
    N("Ifs", <<"Ifs">> \o pat \o <<"_", "Thens", "_", "_", "Ends">>, <<Id, Block(body), Block(rest)>>)
While1(body) == N("Whiles", <<"Whiles", "_", "Dos", "_", "Ends">>, <<Id, Block(body)>>)
For1(body)   == N("Fors", <<"Fors", "x", "Ins", "_", "Dos", "_", "Ends">>, <<Id, Block(body)>>)
Case1(body)  == N("", <<"Cases", "_", "Dos", "_">>, <<Lit, Block(body)>>)

Simple == { Var, Ret, Do(Id), Do(Bin(Id, "PlusEqualss", Lit)), N("Lets", <<"Lets", "x", "Equalss", "_">>, <<Id>>),
            N("Consts", <<"Consts", "x", "Equalss", "_">>, <<Id>>), N("Consts", <<"Locals", "x", "Equalss", "_">>, <<Lit>>) }
Blocks == { If1(<<>>, <<Ret>>, <<>>), If1(<<>>, <<Var>>, <<Else(<<Var, Ret>>)>>),
            If1(<<>>, <<>>, <<Elif(<<Ret>>, <<Elif(<<>>, <<Else(<<Ret>>)>>)>>)>>),
            If1(<<"Lets", "x", "Equalss">>, <<Ret>>, <<Else(<<If1(<<>>, <<>>, <<>>)>>)>>),
            If1(<<"X", "LeftParens", "x", "RightParens", "Equalss">>, <<Ret>>, <<>>),
            While1(<<Var, While1(<<>>)>>), For1(<<Var, Ret>>),
            N("Matchs", <<"Matchs", "_", "Colons", "_", "_", "Ends">>, <<Id, Case1(<<Var, Ret>>), Case1(<<While1(<<Ret>>)>>)>>) }
Items1 ==
    { Fn(<<>>), N("Functions", <<"Publics", "Unsafes", "Functions", "x", "Lesses", "x", "Colons", "x", "Commas", "x", "Greaters", "LeftParens", "RightParens", "_", "Ends">>, <<Ret>>),
      N("Functions", <<"Consts", "Functions", "x", "LeftParens", "RightParens", "Ends">>, <<>>),
      N("Classes", <<"Classes", "x", "Fors", "x", "Lesses", "x", "Greaters", "_", "Greaters", "x", "Vars", "x", "Colons", "_", "_", "Publics", "_", "Ats", "operation", "LeftParens", "Plus", "RightParens", "_", "Ends">>, <<Params, IntType, Fn(<<Ret>>), Fn(<<>>), Fn(<<Ret>>)>>),
      N("Structs", <<"Structs", "x", "LeftBrackets", "x", "RightBrackets", "Colons", "Vars", "x", "Equalss", "_", "x", "Colons", "_", "Ends">>, <<IntType, Custom>>),
      N("Enums", <<"Enums", "x", "LeftBrackets", "x", "Colons", "x", "RightBrackets", "Colons", "x", "x", "LeftParens", "x", "Colons", "_", "Commas", "_", "RightParens", "Ends">>, <<IntType, Custom>>),
      N("Traits", <<"Traits", "x", "Colons", "Types", "x", "_", "_", "Ends">>, <<N("TraitMethod", <<"Functions", "x", "_", "Colons", "_">>, <<Params, IntType>>), N("TraitMethod", <<"Functions", "x", "_">>, <<Params>>)>>),
      N("Externs", <<"Externs", "Strings", "Functions", "x", "LeftParens", "x", "Colons", "_", "RightParens", "Colons", "_", "Functions", "x", "LeftParens", "RightParens", "Ends">>, <<IntType, IntType>>),
      N("Externs", <<"Ats", "ffi", "LeftParens", "Strings", "RightParens", "Externs", "Functions", "x", "LeftParens", "RightParens", "Ends">>, <<>>),
      N("Modules", <<"Publics", "Modules", "x", "_", "_", "Ends">>, <<Fn(<<Ret>>), Var>>),
      N("Imports", <<"Imports", "Stars", "Froms", "Strings">>, <<>>), N("Imports", <<"Imports", "Strings">>, <<>>),
      N("Imports", <<"Imports", "x", "Froms", "Strings">>, <<>>), N("Imports", <<"Froms", "Strings", "Imports", "x">>, <<>>) }

Programs ==
    {<<Do(e)>> : e \in Exprs}
    \cup {<<N("Vars", <<"Vars", "x", "Colons", "_", "Equalss", "_">>, <<t, Id>>)>> : t \in Types}
    \cup {<<Fn(<<s, t>>)>> : s, t \in Simple \cup Blocks}
    \cup {<<s, t>> : s, t \in Items1 \cup Blocks}
ValidSources == {Valid(p) : p \in Programs}

\* One token too few, one too many, or another one.
Edits == {"x", "Ends", "RightParens"}
Broken(toks) ==
    {RemoveAt(toks, i) : i \in DOMAIN toks}
    \cup {InsertAt(toks, i, t) : i \in 1 .. Len(toks) + 1, t \in Edits}
    \cup {ReplaceAt(toks, i, t) : i \in DOMAIN toks, t \in Edits}
BrokenItems == UNION {Broken(Valid(<<s>>).toks) : s \in Items1 \cup Primary}
BrokenBodies == UNION {Broken(Valid(<<s>>).toks) : s \in Blocks \cup {Fn(<<>>), Fn(<<Var, Ret>>)}}
BrokenSources ==
    {File(t, FALSE, <<>>, 0) : t \in BrokenItems}
    \cup {File(t \o Valid(<<Fn(<<>>)>>).toks, FALSE, <<>>, Len(t) + 1) : t \in BrokenBodies}

\* Every keyword that opens something, and what may come after it.
Openers == {"Functions", "Publics", "Unsafes", "Consts", "Classes", "Structs", "Enums", "Traits", "Externs",
            "Modules", "Ifs", "Matchs", "Whiles", "Fors", "Returns", "Vars", "Ats", "Imports", "Froms", "Elses",
            "Atomics", "LeftBraces", "Defaults"}
Loose == {"x", "LeftParens", "LeftBrackets", "Lesses", "Colons", "Ends", "Functions", "Commas"}
ShortSources == {File(<<a, b, c>>, FALSE, <<>>, 0) : a \in Openers, b, c \in Loose}

\* An annotation outside of a class, with the token that the parser takes for
\* its name or without it, before a statement that is kept.
AnnotationSources ==
    {File(<<"Ats">> \o a \o b \o <<"Returns", "x">>, FALSE, <<>>, 0) :
        a \in {<<"operation">>, <<"operation", "x">>, <<"atom">>, <<"atom", "x">>, <<"x">>},
        b \in {<<"LeftParens", "Plus", "RightParens">>,
               <<"LeftParens", "bits", "Equalss", "8", "Commas", "signed", "Equalss", "Trues", "RightParens">>}}

\* Expressions without the parentheses that the grouping rules ask for.
UngroupedSources ==
    {File(t \o <<op>> \o u, FALSE, <<>>, 0) :
        t \in {<<"x", "Dots", "x">>, <<"x", "Ass", "x">>, <<"Minuss", "x", "Dots", "x">>},
        op \in BinOps, u \in {<<"x">>, <<"x", "Greaters", "LeftParens", "x", "RightParens">>}}

AllSources == ValidSources \cup BrokenSources \cup ShortSources \cup AnnotationSources
              \cup UngroupedSources
=============================================================================
