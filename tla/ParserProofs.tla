---------------------------- MODULE ParserProofs ----------------------------
(***************************************************************************)
(* The parser, for every list of files and every list of tokens.           *)
(*                                                                         *)
(* The parser is an interpreter of Code, and so the proof has two halves.  *)
(* The first is about the code, which is a finite object: of which         *)
(* instructions a function is made, which of them leave it, and what it    *)
(* does last.  The second is about the stack, todo: what a step does to it *)
(* is to put a sequence in the place of the first few instructions         *)
(* (Splice), and an invariant of the form "every instruction k of todo ... *)
(* what stands before it, or behind it" is kept if the sequence has it and *)
(* the rest does not lose it.                                              *)
(***************************************************************************)
EXTENDS Parser, TLAPS, SequenceTheorems, WellFoundedInduction

-----------------------------------------------------------------------------
(* The shape of the code.                                                  *)

Names == DOMAIN Code
\* The bodies of the loops of items and statements, and of the other loops:
\* nothing calls them.
CalmBodies == {"body", "for_body", "arm", "member", "struct_field", "enum_field", "variant",
               "trait_member", "extern_func", "extern_param", "type_arg", "bracket_param"}
LoopBodies == CalmBodies \cup {"argument", "element", "literal_field", "generic_arg", "skip",
                               "tuple_element", "dimension", "type_element", "generic_param",
                               "param"}
Callees == Names \ LoopBodies
Kinds == {"tag", "word", "named", "generic", "built"}
\* The tags of tokens, and the words and node tags that a test may name.
Tags == Words \cup Numbers \cup TypeTokens \cup Literals \cup Operations \cup Assignments
        \cup {"Ends", "RightParens", "Colons", "Commas", "LeftParens", "Functions", "EOFs",
              "RightBrackets", "LeftBrackets", "LeftBraces", "RightBraces", "Vars", "Consts",
              "Classes", "Traits", "Structs", "Returns", "Modules", "Lets", "Imports", "Fors",
              "Enums", "Whiles", "Unsafes", "Semicolons", "Matchs", "Froms", "Externs", "Elses",
              "Elifs", "Ifs", "Dos", "Thens", "Publics", "Locals", "Dots", "Cases", "Ats",
              "Types", "Ins", "Atomics", "Ass", "Type_Custom"}
\* The nodes an instruction builds, those of ClosedTags apart.
OpenTags == {"Idx", "Class_Calls", "Field", "BinaryOps", "Cast", "Struct_Calls", "Array",
             "Function", "AddrOf", "Unary", "Literals", "Tuple", "Identifiers", "Type",
             "Type_Custom", "TraitMethod", "Vars", "Lets", "Consts", "Returns", "Ifs", "Elifs",
             "Elses", "Imports", "Invalid", "ExprStmt"}
NodeTags == OpenTags \cup ClosedTags

Tests == [kind : Kinds, set : SUBSET Tags]
Cases(C) == [test : Tests, code : C]
\* A switch whose code is in C.
Switches(C) == [op : {"switch"}, cases : Seq(Cases(C)), default : C]
\* The instructions of I, and the switches between sequences of them.
Nested(I) == I \cup Switches(Seq(I))

\* No loop is entered at the end of the file.
LoopsWith(op, from) ==
    {l \in [op : {op}, tags : SUBSET Tags, when : BOOLEAN, body : Names, guard : BOOLEAN,
            from : from] : ("EOFs" \in l.tags) # l.when}
Loops  == LoopsWith("loop", {0})
Agains == LoopsWith("again", Nat \ {0})
Rets   == [op : {"ret"}, from : Nat \ {0}]

Calls  == [op : {"call"}, to : Callees]
Tails  == [op : {"tail"}, to : Callees]
Exprs1 == [op : {"expr"}, min : Nat]
Infixes == [op : {"infix"}, min : Nat]
Emits(tags) == [op : {"emit"}, tag : tags]

Basic == {Advance, Error, Sync, Leave} \cup Calls \cup Tails \cup Exprs1 \cup Infixes
         \cup Emits(OpenTags) \cup Loops
Depth1 == Nested(Basic)
Depth2 == Nested(Depth1)
Plain  == Nested(Depth2)

\* The code that neither leaves its function nor replaces it and has no loops
\* but those of the items and of the statements.
KeptTags == OpenTags \ {"Invalid"}
Calm == {Advance, Error, Sync} \cup Calls \cup Exprs1 \cup Emits(KeptTags)
        \cup {l \in Loops : l.body \in CalmBodies}
Calm1 == Nested(Calm)
Calm2 == Nested(Calm1)
Calm3 == Nested(Calm2)

\* The tests of a loop body that may leave the loop.
Breakers == { LiteralField[1], Element[2], TupleElement[2], Dimension[2], FunctionParam[1],
              ExternParam[1] }
\* The arguments of a named type.
TypeArgs == parser_type[2]
TypeBrackets == TypeArgs.cases[1].code[1]

CalmItem == Calm3 \cup {Keep, ExternParam[1]}
Open == Plain \cup Breakers \cup {TypeArgs, Keep}
Text == Open \cup Emits(ClosedTags)
\* What a switch may bring to the front, those of the arguments of a type apart.
Quick == Open \cup {Break}
\* What need not be in a loop.
Steady == Plain \cup {TypeArgs, TypeBrackets, Keep, Extend} \cup Emits(ClosedTags) \cup Rets \cup Agains
\* What a switch may bring to the front, and the marks of the running loops and
\* functions.
Still == Text \cup {Break, Extend, TypeBrackets}
Item == Still \cup Rets \cup Agains

\* The code of an item or a statement: it builds a node last, one with an `end'
\* only behind the `end'.
ItemCode(s) ==
    /\ s \in Seq(CalmItem \cup Emits(ClosedTags)) /\ Len(s) \in Nat /\ Len(s) > 1
    /\ \A k \in 1 .. Len(s) - 1 : s[k] \in Calm3
    /\ \/ s[Len(s)] \in Emits(KeptTags)
       \/ s[Len(s)] \in Emits(ClosedTags) /\ s[Len(s) - 1] = Expect("Ends")

\* The code that parser_stmt chooses from; parser_const comes only after `const'.
ItemNames == {"functions", "structer", "enums", "traits", "class", "module", "import",
              "from_import", "if", "return", "globle", "const", "vars", "lets", "match", "for",
              "while", "extern"}
ItemTails  == {<<TailCall(f)>> : f \in ItemNames}
StmtTails  == {<<TailCall(f)>> : f \in ItemNames \ {"const"}}
OneOfCodes == ItemTails \cup {<<Error, Sync, Emit("Invalid")>>}
OneOfs     == Switches(OneOfCodes)
Unsafes    == Switches({<<Advance, i>> : i \in OneOfs} \cup {<<i>> : i \in OneOfs})
StmtCodes  == StmtTails \cup {<<Advance, i>> : i \in OneOfs \cup Unsafes}
StmtCases  == Cases(StmtCodes) \cup { When(Is({"EOFs"}), <<Error, Emit("Invalid")>>),
                                     When(Is({"Ats"}), <<TailCall("operation")>>) }
StmtSwitches == [op : {"switch"}, cases : Seq(StmtCases),
                 default : {<<Expr(0), Emit("ExprStmt")>>}]

\* What Then, CallFunction and ReturnFrom make of the instructions t: the
\* first m are replaced by the sequence c.
Splice(t, m, c) == c \o SubSeq(t, m + 1, Len(t))

\* The first instruction with the name op.
First(op, r) ==
    r \in 1 .. Len(todo) /\ todo[r].op = op /\ \A l \in 1 .. r - 1 : todo[l].op # op

\* Instruction k of t is in a loop of its function.
InLoop(t, k) ==
    \E j \in k + 1 .. Len(t) : t[j].op = "again" /\ \A l \in k .. j : t[l].op # "ret"
\* What may leave a loop is in one.
Looped(t) == \A k \in 1 .. Len(t) : t[k] \in Steady \/ InLoop(t, k)

LastPos == Len(src.toks) + 1
Nodes == [tag : NodeTags, from : Nat \ {0}, to : Nat]

\* An instruction that no function frame need follow.
Free(i) == \/ i.op \in {"call", "keep", "ret"}
           \/ i.op \in {"loop", "again"} /\ i.body = "body"

\* The functions that t still has to leave were entered, and its loops tested,
\* at p or before.
Timely(t, p) == \A k \in 1 .. Len(t) : t[k].op \in {"ret", "again"} => t[k].from <= p
\* What belongs to a function comes before the end of one.
Framed(t) == \A k \in 1 .. Len(t) : ~Free(t[k]) => \E j \in k + 1 .. Len(t) : t[j].op = "ret"
\* The same of c, when t follows without its first m instructions.
Followed(c, t, m) ==
    \A k \in 1 .. Len(c) :
       ~Free(c[k]) => \/ \E j \in k + 1 .. Len(c) : c[j].op = "ret"
                      \/ \E j \in m + 1 .. Len(t) : t[j].op = "ret"

\* What lies under the statement that main is parsing: its loop, and the Keep
\* that waits for the statement.
Bottom(i) == /\ i.op \in {"loop", "again"}
             /\ i.tags = {"EOFs"} /\ ~i.when /\ i.body = "body" /\ i.guard
Shape(t) ==
    LET n == Len(t) IN
    \/ n = 0
    \/ n = 1 /\ Bottom(t[1])
    \/ /\ n > 1
       /\ t[n].op = "again" /\ Bottom(t[n]) /\ t[n - 1] = Keep
       /\ \/ n = 2
          \/ n = 3 /\ t[1] = Call("stmt")
          \/ n > 2 /\ t[n - 2].op = "ret"

\* What is left to do at p.
Running(t, p) == t \in Seq(Item) /\ Timely(t, p) /\ Framed(t) /\ Shape(t)

\* What has been built before p.
Placed(nodes, p) ==
    /\ nodes \in Seq(Nodes)
    /\ \A i \in 1 .. Len(nodes) : nodes[i].from <= LastPos /\ nodes[i].to < p

TypeInv ==
    /\ src \in Sources
    /\ pos \in 1 .. LastPos
    /\ errs \in SUBSET (1 .. pos)
    /\ Placed(out, pos)
    /\ Running(todo, pos)

-----------------------------------------------------------------------------
(* Sequences.                                                              *)

\* Every nonempty set of numbers has a least one.
LEMMA OneOrMore ==
    ASSUME NEW n \in Nat \ {0}
    PROVE  n = 1 \/ n > 1
OBVIOUS

LEMMA OneBefore ==
    ASSUME NEW n \in Nat, NEW r \in 1 .. n, r # 1
    PROVE  r - 1 \in 1 .. n /\ (r - 1) + 1 = r
OBVIOUS

LEMMA Least ==
    ASSUME NEW S \in SUBSET Nat, S # {}
    PROVE  \E n \in S : \A m \in S : n <= m
<1>1. IsWellFoundedOn(OpToRel(<, Nat), Nat)
  BY NatLessThanWellFounded
<1>2. PICK n \in S : \A m \in S : <<m, n>> \notin OpToRel(<, Nat)
  BY <1>1, WFMin
<1>3. ASSUME NEW m \in S PROVE n <= m
  <2>1. <<m, n>> \notin OpToRel(<, Nat)
    BY <1>2
  <2>2. ~(m < n)
    BY <2>1 DEF OpToRel
  <2> QED
    BY <2>2
<1> QED
  BY <1>3

LEMMA SequenceOf ==
    ASSUME NEW S, NEW T, NEW s \in Seq(S), \A k \in 1 .. Len(s) : s[k] \in T
    PROVE  s \in Seq(T)
<1>1. Len(s) \in Nat /\ s \in [1 .. Len(s) -> S]
  BY LenProperties
<1>2. s \in [1 .. Len(s) -> T]
  BY <1>1
<1> QED
  BY <1>1, <1>2, SeqDef

LEMMA SpliceIs ==
    ASSUME NEW S, NEW t \in Seq(S), NEW m \in 0 .. Len(t), NEW c \in Seq(S)
    PROVE  LET r == Splice(t, m, c) IN
           /\ r \in Seq(S) /\ Len(r) \in Nat
           /\ Len(r) = Len(c) + Len(t) - m /\ Len(c) \in Nat /\ Len(t) \in Nat
           /\ \A k \in 1 .. Len(c) : r[k] = c[k]
           /\ \A k \in Len(c) + 1 .. Len(r) : r[k] = t[k - Len(c) + m] /\ k - Len(c) + m \in 1 .. Len(t)
           /\ \A k \in m + 1 .. Len(t) : r[k - m + Len(c)] = t[k] /\ k - m + Len(c) \in 1 .. Len(r)
<1>1. Len(t) \in Nat /\ Len(c) \in Nat /\ \A i \in m + 1 .. Len(t) : t[i] \in S
  BY ElementOfSeq, LenProperties
<1>2. /\ SubSeq(t, m + 1, Len(t)) \in Seq(S)
      /\ Len(SubSeq(t, m + 1, Len(t))) = Len(t) - m
      /\ \A i \in 1 .. Len(t) - m : SubSeq(t, m + 1, Len(t))[i] = t[m + i]
  <2> DEFINE u == SubSeq(t, m + 1, Len(t))
  <2>1. /\ u \in Seq(S)
        /\ Len(u) = IF m + 1 <= Len(t) THEN Len(t) - (m + 1) + 1 ELSE 0
        /\ \A i \in 1 .. Len(t) - (m + 1) + 1 : u[i] = t[(m + 1) + i - 1]
    BY <1>1, SubSeqProperties
  <2> QED
    BY <1>1, <2>1
<1>3. /\ Splice(t, m, c) \in Seq(S)
      /\ Len(Splice(t, m, c)) = Len(c) + (Len(t) - m)
      /\ \A i \in 1 .. Len(c) + (Len(t) - m) :
            Splice(t, m, c)[i] = IF i <= Len(c) THEN c[i] ELSE SubSeq(t, m + 1, Len(t))[i - Len(c)]
  <2> DEFINE u == SubSeq(t, m + 1, Len(t))
  <2>1. u \in Seq(S) /\ Len(u) = Len(t) - m
    BY <1>2
  <2>2. Splice(t, m, c) = c \o u
    BY DEF Splice
  <2> HIDE DEF u
  <2>3. /\ c \o u \in Seq(S) /\ Len(c \o u) = Len(c) + Len(u)
        /\ \A i \in 1 .. Len(c) + Len(u) : (c \o u)[i] = IF i <= Len(c) THEN c[i] ELSE u[i - Len(c)]
    BY <2>1, ConcatProperties
  <2>4. Len(c) + Len(u) = Len(c) + (Len(t) - m)
    BY <2>1
  <2> QED
    BY <2>1, <2>2, <2>3, <2>4, Zenon DEF u
<1>5. \A k \in Len(c) + 1 .. Len(c) + (Len(t) - m) :
         Splice(t, m, c)[k] = t[k - Len(c) + m] /\ k - Len(c) + m \in 1 .. Len(t)
  BY <1>1, <1>2, <1>3
<1>6. \A k \in m + 1 .. Len(t) :
         Splice(t, m, c)[k - m + Len(c)] = t[k] /\ k - m + Len(c) \in 1 .. Len(c) + (Len(t) - m)
  <2> SUFFICES ASSUME NEW k \in m + 1 .. Len(t)
               PROVE  /\ Splice(t, m, c)[k - m + Len(c)] = t[k]
                      /\ k - m + Len(c) \in 1 .. Len(c) + (Len(t) - m)
    OBVIOUS
  <2>1. /\ k - m + Len(c) \in Len(c) + 1 .. Len(c) + (Len(t) - m)
        /\ (k - m + Len(c)) - Len(c) + m = k
    BY <1>1
  <2>2. k - m + Len(c) \in 1 .. Len(c) + (Len(t) - m)
    BY <1>1
  <2> QED
    BY <1>5, <2>1, <2>2
<1>7. \A k \in 1 .. Len(c) : Splice(t, m, c)[k] = c[k]
  BY <1>1, <1>3
<1> HIDE DEF Splice
<1> DEFINE r == Splice(t, m, c)
<1>8. Len(r) = Len(c) + Len(t) - m /\ Len(r) \in Nat
  BY <1>1, <1>3
<1>9. Len(c) + (Len(t) - m) = Len(r)
  BY <1>1, <1>8
<1> HIDE DEF r
<1> QED
  BY <1>1, <1>3, <1>5, <1>6, <1>7, <1>8, <1>9 DEF r

LEMMA CutIs ==
    ASSUME NEW S, NEW t \in Seq(S), NEW m \in 0 .. Len(t)
    PROVE  LET r == Splice(t, m, <<>>) IN
           /\ r \in Seq(S) /\ Len(r) \in Nat
           /\ Len(r) = Len(t) - m /\ Len(t) \in Nat
           /\ \A k \in 1 .. Len(r) : r[k] = t[k + m] /\ k + m \in 1 .. Len(t)
           /\ \A k \in m + 1 .. Len(t) : r[k - m] = t[k] /\ k - m \in 1 .. Len(r)
<1>1. <<>> \in Seq(S) /\ Len(<<>>) = 0 /\ Len(t) \in Nat
  BY LenProperties
<1>2. ASSUME NEW e \in Seq(S), Len(e) = 0
      PROVE  LET r == Splice(t, m, e) IN
             /\ r \in Seq(S) /\ Len(r) \in Nat /\ Len(r) = Len(t) - m
             /\ \A k \in 1 .. Len(r) : r[k] = t[k + m] /\ k + m \in 1 .. Len(t)
             /\ \A k \in m + 1 .. Len(t) : r[k - m] = t[k] /\ k - m \in 1 .. Len(r)
  <2> DEFINE r == Splice(t, m, e)
  <2>1. r \in Seq(S) /\ Len(r) = Len(e) + Len(t) - m /\ Len(r) \in Nat
    BY SpliceIs
  <2>2. \A k \in Len(e) + 1 .. Len(r) : r[k] = t[k - Len(e) + m] /\ k - Len(e) + m \in 1 .. Len(t)
    BY SpliceIs
  <2>3. \A k \in m + 1 .. Len(t) : r[k - m + Len(e)] = t[k] /\ k - m + Len(e) \in 1 .. Len(r)
    BY SpliceIs
  <2> HIDE DEF r
  <2>4. Len(r) = Len(t) - m
    BY <1>1, <1>2, <2>1
  <2>5. ASSUME NEW k \in 1 .. Len(r) PROVE r[k] = t[k + m] /\ k + m \in 1 .. Len(t)
    <3>1. k - Len(e) + m = k + m /\ k \in Len(e) + 1 .. Len(r)
      BY <1>1, <1>2, <2>1
    <3> QED
      BY <2>2, <3>1
  <2>6. ASSUME NEW k \in m + 1 .. Len(t) PROVE r[k - m] = t[k] /\ k - m \in 1 .. Len(r)
    <3>1. k - m + Len(e) = k - m
      BY <1>1, <1>2
    <3> QED
      BY <2>3, <3>1
  <2> QED
    BY <2>1, <2>4, <2>5, <2>6 DEF r
<1> QED
  BY <1>1, <1>2

LEMMA TailSplice ==
    ASSUME NEW S, NEW t \in Seq(S), t # <<>>, NEW c
    PROVE  c \o Tail(t) = Splice(t, 1, c)
BY TailIsSubSeq DEF Splice

\* From cuts at the first instruction of ops.
LEMMA FromIs ==
    ASSUME NEW S, todo \in Seq(S), NEW ops, NEW j \in 1 .. Len(todo), todo[j].op \in ops
    PROVE  \E r \in 1 .. j :
              /\ todo[r].op \in ops
              /\ \A l \in 1 .. r - 1 : todo[l].op \notin ops
              /\ From(ops) = SubSeq(todo, r, Len(todo))
              /\ From(ops)[1] = todo[r]
              /\ \A c : c \o From(ops) = Splice(todo, r - 1, c)
              /\ Tail(From(ops)) = Splice(todo, r, <<>>)
<1> DEFINE found == {i \in DOMAIN todo : todo[i].op \in ops}
<1>1. DOMAIN todo = 1 .. Len(todo) /\ Len(todo) \in Nat
  BY LenProperties
<1>2. PICK r \in found : \A i \in found : r <= i
  <2>1. found \in SUBSET Nat /\ j \in found
    BY <1>1
  <2> HIDE DEF found
  <2> QED
    BY <2>1, Least
<1>3. (CHOOSE i \in found : \A k \in found : i <= k) = r
  BY <1>1, <1>2
<1>4. From(ops) = SubSeq(todo, r, Len(todo))
  BY <1>3 DEF From
<1>5. r \in 1 .. j /\ todo[r].op \in ops /\ \A l \in 1 .. r - 1 : todo[l].op \notin ops
  BY <1>1, <1>2
<1>6. Head(From(ops)) = todo[r] /\ Tail(From(ops)) = SubSeq(todo, r + 1, Len(todo))
  BY <1>1, <1>4, <1>5, HeadTailOfSubSeq
<1>7. From(ops)[1] = todo[r]
  <2>1. /\ Len(SubSeq(todo, r, Len(todo))) = Len(todo) - r + 1
        /\ SubSeq(todo, r, Len(todo)) \in Seq(S)
    BY <1>1, <1>5, SubSeqProperties, ElementOfSeq
  <2> QED
    BY <1>4, <1>6, <2>1
<1>8. SubSeq(todo, r + 1, Len(todo)) \in Seq(S)
  BY <1>1, <1>5, SubSeqProperties, ElementOfSeq
<1>9. \A c : c \o From(ops) = Splice(todo, r - 1, c)
  <2>1. (r - 1) + 1 = r
    BY <1>5
  <2> QED
    BY <1>4, <2>1, Zenon DEF Splice
<1>10. Tail(From(ops)) = Splice(todo, r, <<>>)
  BY <1>6, <1>8, ConcatEmptySeq DEF Splice
<1> QED
  BY <1>4, <1>5, <1>7, <1>9, <1>10

LEMMA FirstIs ==
    ASSUME todo \in Seq(Item), NEW op, NEW j \in 1 .. Len(todo), todo[j].op = op
    PROVE  \E r \in 1 .. j : First(op, r)
<1>1. todo[j].op \in {op}
  OBVIOUS
<1>2. PICK r \in 1 .. j : /\ todo[r].op \in {op}
                          /\ \A l \in 1 .. r - 1 : todo[l].op \notin {op}
  BY <1>1, FromIs
<1>3. Len(todo) \in Nat
  BY LenProperties
<1>4. r \in 1 .. Len(todo)
  BY <1>3
<1> QED
  BY <1>2, <1>4 DEF First

LEMMA FromFirst ==
    ASSUME todo \in Seq(Item), NEW op, NEW r, First(op, r)
    PROVE  /\ From({op})[1] = todo[r]
           /\ \A c : c \o From({op}) = Splice(todo, r - 1, c)
           /\ Tail(From({op})) = Splice(todo, r, <<>>)
<1>1. r \in 1 .. Len(todo) /\ todo[r].op \in {op} /\ \A l \in 1 .. r - 1 : todo[l].op \notin {op}
  BY DEF First
<1>2. PICK q \in 1 .. r :
              /\ todo[q].op \in {op}
              /\ \A l \in 1 .. q - 1 : todo[l].op \notin {op}
              /\ From({op}) = SubSeq(todo, q, Len(todo))
              /\ From({op})[1] = todo[q]
              /\ \A c : c \o From({op}) = Splice(todo, q - 1, c)
              /\ Tail(From({op})) = Splice(todo, q, <<>>)
  BY <1>1, FromIs
<1>3. q = r
  <2>1. r \in Nat /\ q \in 1 .. r
    BY <1>1
  <2>2. q \notin 1 .. r - 1
    BY <1>1, <1>2
  <2> QED
    BY <2>1, <2>2
<1> QED
  BY <1>2, <1>3

-----------------------------------------------------------------------------
(* The code is made of the instructions of Text.                           *)

LEMMA NamesAre ==
    Names = {"arguments", "argument", "array", "element", "literal", "literal_field",
           "function_call", "generic_args", "generic_arg", "primary", "parenthesis",
           "tuple_element", "identifier", "skip", "type", "type_base", "type_arg",
           "dimension", "type_element", "pointer", "function_type", "generic_params",
           "generic_param", "bracket_param", "params", "param", "functions",
           "trait_functions", "class", "member", "structer", "struct_field", "enums",
           "variant", "enum_field", "traits", "trait_member", "extern", "extern_func",
           "extern_param", "module", "vars", "lets", "const", "globle", "return", "match",
           "arm", "while", "for", "for_body", "if_pat", "if", "elif", "else", "import",
           "from_import", "operation_op", "operation_atom", "ffi", "operation", "stmt",
           "body"}
BY SMT DEF Names, Code

LEMMA CodeIs ==
    /\ Code["arguments"] = parse_call_arguments
    /\ Code["argument"] = Argument
    /\ Code["array"] = parser_array
    /\ Code["element"] = Element
    /\ Code["literal"] = parser_literal
    /\ Code["literal_field"] = LiteralField
    /\ Code["function_call"] = parser_function_call
    /\ Code["generic_args"] = parse_generic_args
    /\ Code["generic_arg"] = GenericArg
    /\ Code["primary"] = parser_expr_primary
    /\ Code["parenthesis"] = Parenthesis
    /\ Code["tuple_element"] = TupleElement
    /\ Code["identifier"] = IdentifierExpr
    /\ Code["skip"] = <<Advance>>
    /\ Code["type"] = parser_type
    /\ Code["type_base"] = parser_type_base
    /\ Code["type_arg"] = TypeArg
    /\ Code["dimension"] = Dimension
    /\ Code["type_element"] = TypeElement
    /\ Code["pointer"] = Pointer
    /\ Code["function_type"] = FunctionType
    /\ Code["generic_params"] = parse_generic_params
    /\ Code["generic_param"] = GenericParam(TypeTokens)
    /\ Code["bracket_param"] = GenericParam({"Identifier"})
    /\ Code["params"] = parse_function_params
    /\ Code["param"] = FunctionParam
    /\ Code["functions"] = parser_functions
    /\ Code["trait_functions"] = parser_trait_functions
    /\ Code["class"] = parser_class
    /\ Code["member"] = ClassMember
    /\ Code["structer"] = parser_structer
    /\ Code["struct_field"] = StructField
    /\ Code["enums"] = parser_enums
    /\ Code["variant"] = EnumVariant
    /\ Code["enum_field"] = EnumField
    /\ Code["traits"] = parser_traits
    /\ Code["trait_member"] = TraitMember
    /\ Code["extern"] = parser_extern
    /\ Code["extern_func"] = ExternFunc
    /\ Code["extern_param"] = ExternParam
    /\ Code["module"] = parser_module
    /\ Code["vars"] = parser_vars
    /\ Code["lets"] = parser_lets
    /\ Code["const"] = parser_const
    /\ Code["globle"] = parser_globle
    /\ Code["return"] = parser_return
    /\ Code["match"] = parser_match
    /\ Code["arm"] = Arm
    /\ Code["while"] = parser_while
    /\ Code["for"] = parser_for
    /\ Code["for_body"] = <<Call("stmt")>>
    /\ Code["if_pat"] = parser_if_pat
    /\ Code["if"] = parser_if
    /\ Code["elif"] = parser_elif
    /\ Code["else"] = parser_else
    /\ Code["import"] = parser_import
    /\ Code["from_import"] = parser_from_import
    /\ Code["operation_op"] = operation_op
    /\ Code["operation_atom"] = operation_atom
    /\ Code["ffi"] = parser_ffi
    /\ Code["operation"] = parser_operation
    /\ Code["stmt"] = parser_stmt
    /\ Code["body"] = Stmt
BY SMT DEF Code

LEMMA TagsIn ==
    /\ "3" \in Tags /\ "8" \in Tags /\ "Ampersands" \in Tags /\
       "Ass" \in Tags /\ "Atomics" \in Tags /\ "Ats" \in Tags /\ "Bangs" \in Tags /\
       "Bools" \in Tags /\ "Cases" \in Tags /\ "Chars" \in Tags /\ "Classes" \in Tags /\
       "Colons" \in Tags /\ "Commas" \in Tags /\ "Consts" \in Tags /\ "Dos" \in Tags /\
       "Dots" \in Tags /\ "EOFs" \in Tags /\ "Elifs" \in Tags /\ "Elses" \in Tags /\
       "Ends" \in Tags /\ "Enums" \in Tags /\ "Equalss" \in Tags /\ "Externs" \in Tags /\
       "Falses" \in Tags /\ "Floats" \in Tags /\ "Fors" \in Tags /\ "Froms" \in Tags /\
       "Functions" \in Tags /\ "Greaters" \in Tags /\ "Identifier" \in Tags /\
       "Ifs" \in Tags /\ "Imports" \in Tags /\ "Ins" \in Tags /\ "Ints" \in Tags /\
       "LeftBraces" \in Tags /\ "LeftBrackets" \in Tags /\ "LeftParens" \in Tags /\
       "Lesses" \in Tags /\ "Lets" \in Tags /\ "Locals" \in Tags /\ "Matchs" \in Tags /\
       "Minuss" \in Tags /\ "Modules" \in Tags /\ "Nots" \in Tags /\ "Nulls" \in Tags /\
       "Plus" \in Tags /\ "Publics" \in Tags /\ "Returns" \in Tags /\
       "RightBraces" \in Tags /\ "RightBrackets" \in Tags /\ "RightParens" \in Tags /\
       "Semicolons" \in Tags /\ "Stars" \in Tags /\ "Strings" \in Tags /\
       "Structs" \in Tags /\ "Thens" \in Tags /\ "Tildes" \in Tags /\ "Traits" \in Tags /\
       "Trues" \in Tags /\ "Type_Custom" \in Tags /\ "Types" \in Tags /\
       "Unsafes" \in Tags /\ "Vars" \in Tags /\ "Voids" \in Tags /\ "Whiles" \in Tags /\
       "X" \in Tags /\ "atom" \in Tags /\ "bits" \in Tags /\ "ffi" \in Tags /\
       "operation" \in Tags /\ "self" \in Tags /\ "signed" \in Tags /\ "x" \in Tags
    /\ TypeTokens \in SUBSET Tags /\ Literals \in SUBSET Tags /\ Operations \in SUBSET Tags
BY SMT DEF Tags, Words, Numbers, TypeTokens, Literals, Operations, Assignments

LEMMA NamesIn ==
    /\ "arguments" \in Names /\ "argument" \in Names /\
       "array" \in Names /\ "element" \in Names /\ "literal" \in Names /\
       "literal_field" \in Names /\ "function_call" \in Names /\ "generic_args" \in Names /\
       "generic_arg" \in Names /\ "primary" \in Names /\ "parenthesis" \in Names /\
       "tuple_element" \in Names /\ "identifier" \in Names /\ "skip" \in Names /\
       "type" \in Names /\ "type_base" \in Names /\ "type_arg" \in Names /\
       "dimension" \in Names /\ "type_element" \in Names /\ "pointer" \in Names /\
       "function_type" \in Names /\ "generic_params" \in Names /\
       "generic_param" \in Names /\ "bracket_param" \in Names /\ "params" \in Names /\
       "param" \in Names /\ "functions" \in Names /\ "trait_functions" \in Names /\
       "class" \in Names /\ "member" \in Names /\ "structer" \in Names /\
       "struct_field" \in Names /\ "enums" \in Names /\ "variant" \in Names /\
       "enum_field" \in Names /\ "traits" \in Names /\ "trait_member" \in Names /\
       "extern" \in Names /\ "extern_func" \in Names /\ "extern_param" \in Names /\
       "module" \in Names /\ "vars" \in Names /\ "lets" \in Names /\ "const" \in Names /\
       "globle" \in Names /\ "return" \in Names /\ "match" \in Names /\ "arm" \in Names /\
       "while" \in Names /\ "for" \in Names /\ "for_body" \in Names /\ "if_pat" \in Names /\
       "if" \in Names /\ "elif" \in Names /\ "else" \in Names /\ "import" \in Names /\
       "from_import" \in Names /\ "operation_op" \in Names /\ "operation_atom" \in Names /\
       "ffi" \in Names /\ "operation" \in Names /\ "stmt" \in Names /\ "body" \in Names
    /\ "arguments" \in Callees /\ "array" \in Callees /\ "literal" \in Callees /\
       "function_call" \in Callees /\ "generic_args" \in Callees /\
       "primary" \in Callees /\ "parenthesis" \in Callees /\ "identifier" \in Callees /\
       "type" \in Callees /\ "type_base" \in Callees /\ "pointer" \in Callees /\
       "function_type" \in Callees /\ "generic_params" \in Callees /\
       "params" \in Callees /\ "functions" \in Callees /\ "trait_functions" \in Callees /\
       "class" \in Callees /\ "structer" \in Callees /\ "enums" \in Callees /\
       "traits" \in Callees /\ "extern" \in Callees /\ "module" \in Callees /\
       "vars" \in Callees /\ "lets" \in Callees /\ "const" \in Callees /\
       "globle" \in Callees /\ "return" \in Callees /\ "match" \in Callees /\
       "while" \in Callees /\ "for" \in Callees /\ "if_pat" \in Callees /\
       "if" \in Callees /\ "elif" \in Callees /\ "else" \in Callees /\
       "import" \in Callees /\ "from_import" \in Callees /\ "operation_op" \in Callees /\
       "operation_atom" \in Callees /\ "ffi" \in Callees /\ "operation" \in Callees /\
       "stmt" \in Callees
    /\ Callees \subseteq Names /\ ItemNames \subseteq Callees
BY NamesAre DEF Callees, LoopBodies, CalmBodies, ItemNames

LEMMA TestsAre ==
    /\ \A s \in SUBSET Tags : Is(s) \in Tests /\ Reads(s) \in Tests /\ Named(s) \in Tests
    /\ Generic \in Tests /\ Built("Type_Custom") \in Tests
BY TagsIn DEF Is, Reads, Named, Generic, Built, Tests, Kinds

LEMMA NestedIs ==
    ASSUME NEW I
    PROVE  /\ \A i \in I : i \in Nested(I)
           /\ \A s \in Seq(I) : s \in Seq(Nested(I))
BY SMT DEF Nested

LEMMA LoopsAre ==
    ASSUME NEW s \in SUBSET Tags, NEW f \in Names
    PROVE  /\ "EOFs" \notin s => While(s, f) \in Loops
           /\ Until(s, f) \in Loops /\ Guarded(s, f) \in Loops
           /\ While(s, f).body = f /\ Until(s, f).body = f /\ Guarded(s, f).body = f
BY TagsIn DEF Loops, LoopsWith, While, Until, Guarded, Loop

LEMMA CalmIs ==
    /\ Advance \in Calm /\ Error \in Calm /\ Sync \in Calm /\ Type \in Calm
    /\ \A f \in Callees : Call(f) \in Calm
    /\ \A m \in Nat : Expr(m) \in Calm
    /\ \A t \in KeptTags : Emit(t) \in Calm
    /\ \A s, f : s \in SUBSET Tags /\ f \in CalmBodies =>
          /\ "EOFs" \notin s => While(s, f) \in Calm
          /\ Until(s, f) \in Calm /\ Guarded(s, f) \in Calm
<1>1. CalmBodies \subseteq Names
  BY NamesIn DEF CalmBodies
<1>2. /\ Advance \in Calm /\ Error \in Calm /\ Sync \in Calm /\ Type \in Calm
      /\ \A f \in Callees : Call(f) \in Calm
      /\ \A m \in Nat : Expr(m) \in Calm
      /\ \A t \in KeptTags : Emit(t) \in Calm
  BY NamesIn DEF Calm, Calls, Exprs1, Emits, Call, Expr, Emit, Type
<1>3. ASSUME NEW s \in SUBSET Tags, NEW f \in CalmBodies
      PROVE  /\ "EOFs" \notin s => While(s, f) \in Calm
             /\ Until(s, f) \in Calm /\ Guarded(s, f) \in Calm
  BY <1>1, LoopsAre DEF Calm
<1> QED
  BY <1>2, <1>3

LEMMA Calm1Is ==
    /\ Advance \in Calm1 /\ Error \in Calm1 /\ Sync \in Calm1 /\ Type \in Calm1
    /\ \A f \in Callees : Call(f) \in Calm1
    /\ \A m \in Nat : Expr(m) \in Calm1
    /\ \A t \in KeptTags : Emit(t) \in Calm1
    /\ \A s, f : s \in SUBSET Tags /\ f \in CalmBodies =>
          /\ "EOFs" \notin s => While(s, f) \in Calm1
          /\ Until(s, f) \in Calm1 /\ Guarded(s, f) \in Calm1
    /\ \A tag \in Tags : Opt(tag) \in Calm1 /\ Need(tag) \in Calm1 /\ Expect(tag) \in Calm1
<1>1. ASSUME NEW tag \in Tags
      PROVE  Opt(tag) \in Calm1 /\ Need(tag) \in Calm1 /\ Expect(tag) \in Calm1
  <2>1. Is({tag}) \in Tests
    BY TestsAre
  <2> QED
    BY <2>1, CalmIs DEF Opt, Need, Expect, If, When, Switch, Switches, Cases, Nested, Calm1
<1> QED
  BY <1>1, CalmIs, NestedIs DEF Calm1

LEMMA Calm2Is ==
    /\ Advance \in Calm2 /\ Error \in Calm2 /\ Sync \in Calm2 /\ Type \in Calm2
    /\ \A f \in Callees : Call(f) \in Calm2
    /\ \A m \in Nat : Expr(m) \in Calm2
    /\ \A t \in KeptTags : Emit(t) \in Calm2
    /\ \A s, f : s \in SUBSET Tags /\ f \in CalmBodies =>
          /\ "EOFs" \notin s => While(s, f) \in Calm2
          /\ Until(s, f) \in Calm2 /\ Guarded(s, f) \in Calm2
    /\ \A tag \in Tags : Opt(tag) \in Calm2 /\ Need(tag) \in Calm2 /\ Expect(tag) \in Calm2
    /\ Bound \in Calm2 /\ Brackets \in Calm2 /\ Traits \in Calm2
<1>1. Bound \in Calm2
  BY Calm1Is, TagsIn, TestsAre DEF Bound, If, When, Switch, Switches, Cases, Nested, Calm2
<1>2. Brackets \in Calm2
  BY Calm1Is, TagsIn, NamesIn, TestsAre DEF Brackets, If, When, Switch, Switches, Cases, Nested, Calm2, CalmBodies
<1>3. Traits \in Calm2
  <2>1. If(Is({"Identifier"}), <<>>, <<Error>>) \in Calm1
    BY CalmIs, TagsIn, TestsAre DEF If, When, Switch, Switches, Cases, Nested, Calm1
  <2> QED
    BY <2>1, Calm1Is, TagsIn, NamesIn, TestsAre
       DEF Traits, If, When, Switch, Switches, Cases, Nested, Calm2, CalmBodies
<1> QED
  BY <1>1, <1>2, <1>3, Calm1Is, NestedIs DEF Calm2

LEMMA Calm3Is ==
    /\ Advance \in Calm3 /\ Error \in Calm3 /\ Sync \in Calm3 /\ Type \in Calm3
    /\ \A f \in Callees : Call(f) \in Calm3
    /\ \A m \in Nat : Expr(m) \in Calm3
    /\ \A t \in KeptTags : Emit(t) \in Calm3
    /\ \A s, f : s \in SUBSET Tags /\ f \in CalmBodies =>
          /\ "EOFs" \notin s => While(s, f) \in Calm3
          /\ Until(s, f) \in Calm3 /\ Guarded(s, f) \in Calm3
    /\ \A tag \in Tags : Opt(tag) \in Calm3 /\ Need(tag) \in Calm3 /\ Expect(tag) \in Calm3
    /\ Bound \in Calm3 /\ Brackets \in Calm3 /\ Traits \in Calm3
BY Calm2Is, NestedIs DEF Calm3

LEMMA BasicIs ==
    /\ Advance \in Basic /\ Error \in Basic /\ Sync \in Basic /\ Type \in Basic
    /\ \A f \in Callees : Call(f) \in Basic
    /\ \A m \in Nat : Expr(m) \in Basic
    /\ Leave \in Basic
    /\ \A f \in Callees : TailCall(f) \in Basic
    /\ \A m \in Nat : Infix(m) \in Basic
    /\ \A t \in OpenTags : Emit(t) \in Basic
    /\ \A s, f : s \in SUBSET Tags /\ f \in Names =>
          /\ "EOFs" \notin s => While(s, f) \in Basic
          /\ Until(s, f) \in Basic /\ Guarded(s, f) \in Basic
BY LoopsAre, NamesIn
   DEF Basic, Calls, Tails, Exprs1, Infixes, Emits, Call, TailCall, Expr, Infix, Emit, Type

LEMMA NestedMonotone ==
    ASSUME NEW I, NEW J, I \subseteq J
    PROVE  Nested(I) \subseteq Nested(J)
<1>1. Seq(I) \subseteq Seq(J)
  BY SeqMonotonic
<1>2. Cases(Seq(I)) \subseteq Cases(Seq(J))
  BY <1>1 DEF Cases
<1>3. Seq(Cases(Seq(I))) \subseteq Seq(Cases(Seq(J)))
  BY <1>2, SeqMonotonic
<1> QED
  BY <1>1, <1>3 DEF Nested, Switches

LEMMA CalmBelow ==
    Calm \subseteq Basic /\ Calm1 \subseteq Depth1 /\ Calm2 \subseteq Depth2 /\ Calm3 \subseteq Plain
<1>1. Calm \subseteq Basic
  BY DEF Calm, Basic, KeptTags, Emits
<1> QED
  BY <1>1, NestedMonotone DEF Calm1, Calm2, Calm3, Depth1, Depth2, Plain

LEMMA Depth1Is ==
    /\ Advance \in Depth1 /\ Error \in Depth1 /\ Sync \in Depth1 /\ Type \in Depth1
    /\ \A f \in Callees : Call(f) \in Depth1
    /\ \A m \in Nat : Expr(m) \in Depth1
    /\ Leave \in Depth1
    /\ \A f \in Callees : TailCall(f) \in Depth1
    /\ \A m \in Nat : Infix(m) \in Depth1
    /\ \A t \in OpenTags : Emit(t) \in Depth1
    /\ \A s, f : s \in SUBSET Tags /\ f \in Names =>
          /\ "EOFs" \notin s => While(s, f) \in Depth1
          /\ Until(s, f) \in Depth1 /\ Guarded(s, f) \in Depth1
    /\ \A tag \in Tags : Opt(tag) \in Depth1 /\ Need(tag) \in Depth1 /\ Expect(tag) \in Depth1
    /\ \A tag \in Tags : Must(tag) \in Depth1
    /\ \A words \in SUBSET Tags : Says(words) \in Depth1
<1>1. ASSUME NEW tag \in Tags
      PROVE  Opt(tag) \in Depth1 /\ Need(tag) \in Depth1 /\ Expect(tag) \in Depth1 /\ Must(tag) \in Depth1
  <2>1. Is({tag}) \in Tests
    BY TestsAre
  <2> QED
    BY <2>1, BasicIs DEF Opt, Need, Must, Expect, If, When, Switch, Switches, Cases, Nested, Depth1
<1>2. ASSUME NEW words \in SUBSET Tags PROVE Says(words) \in Depth1
  <2>1. Reads(words) \in Tests
    BY TestsAre
  <2> QED
    BY <2>1, BasicIs DEF Says, If, When, Switch, Switches, Cases, Nested, Depth1
<1> QED
  BY <1>1, <1>2, BasicIs, NestedIs DEF Depth1

LEMMA Depth2Is ==
    /\ Advance \in Depth2 /\ Error \in Depth2 /\ Sync \in Depth2 /\ Type \in Depth2
    /\ \A f \in Callees : Call(f) \in Depth2
    /\ \A m \in Nat : Expr(m) \in Depth2
    /\ Leave \in Depth2
    /\ \A f \in Callees : TailCall(f) \in Depth2
    /\ \A m \in Nat : Infix(m) \in Depth2
    /\ \A t \in OpenTags : Emit(t) \in Depth2
    /\ \A s, f : s \in SUBSET Tags /\ f \in Names =>
          /\ "EOFs" \notin s => While(s, f) \in Depth2
          /\ Until(s, f) \in Depth2 /\ Guarded(s, f) \in Depth2
    /\ \A tag \in Tags : Opt(tag) \in Depth2 /\ Need(tag) \in Depth2 /\ Expect(tag) \in Depth2
    /\ \A tag \in Tags : Must(tag) \in Depth2
    /\ \A words \in SUBSET Tags : Says(words) \in Depth2
    /\ Bound \in Depth2 /\ Brackets \in Depth2 /\ Traits \in Depth2
BY CalmBelow, Calm2Is, Depth1Is, NestedIs DEF Depth2

LEMMA PlainIs ==
    /\ Advance \in Plain /\ Error \in Plain /\ Sync \in Plain /\ Type \in Plain
    /\ \A f \in Callees : Call(f) \in Plain
    /\ \A m \in Nat : Expr(m) \in Plain
    /\ Leave \in Plain
    /\ \A f \in Callees : TailCall(f) \in Plain
    /\ \A m \in Nat : Infix(m) \in Plain
    /\ \A t \in OpenTags : Emit(t) \in Plain
    /\ \A s, f : s \in SUBSET Tags /\ f \in Names =>
          /\ "EOFs" \notin s => While(s, f) \in Plain
          /\ Until(s, f) \in Plain /\ Guarded(s, f) \in Plain
    /\ \A tag \in Tags : Opt(tag) \in Plain /\ Need(tag) \in Plain /\ Expect(tag) \in Plain
    /\ \A tag \in Tags : Must(tag) \in Plain
    /\ \A words \in SUBSET Tags : Says(words) \in Plain
    /\ Bound \in Plain /\ Brackets \in Plain /\ Traits \in Plain
BY Depth2Is, NestedIs DEF Plain
-----------------------------------------------------------------------------
(* The code of each function.                                              *)

LEMMA ArgumentsCode == parse_call_arguments \in Seq(Plain)
BY Depth2Is, TagsIn, NamesIn, TestsAre
   DEF parse_call_arguments, If, When, Switch, Switches, Cases, Nested, Plain

LEMMA ArgumentCode == Argument \in Seq(Plain)
BY Depth2Is, TagsIn, TestsAre DEF Argument, If, When, Switch, Switches, Cases, Nested, Plain

LEMMA ArrayCode == parser_array \in Seq(Plain)
BY PlainIs, TagsIn, NamesIn DEF parser_array, OpenTags

LEMMA LiteralCode == parser_literal \in Seq(Plain)
BY PlainIs, TagsIn, NamesIn DEF parser_literal, OpenTags

LEMMA FunctionCallCode == parser_function_call \in Seq(Plain)
BY PlainIs, TagsIn, NamesIn DEF parser_function_call, OpenTags

LEMMA GenericArgsCode == parse_generic_args \in Seq(Plain)
BY Depth2Is, TagsIn, NamesIn, TestsAre
   DEF parse_generic_args, If, When, Switch, Switches, Cases, Nested, Plain

LEMMA GenericArgCode == GenericArg \in Seq(Plain)
BY Depth2Is, TagsIn, TestsAre
   DEF GenericArg, If, When, Switch, Switches, Cases, Nested, Plain

LEMMA PrimaryCode == parser_expr_primary \in Seq(Plain)
BY Depth2Is, TagsIn, NamesIn, TestsAre
   DEF parser_expr_primary, If, When, Switch, Switches, Cases, Nested, Plain, OpenTags

LEMMA ParenthesisCode == Parenthesis \in Seq(Plain)
BY Depth2Is, TagsIn, NamesIn, TestsAre
   DEF Parenthesis, If, When, Switch, Switches, Cases, Nested, Plain, OpenTags

LEMMA IdentifierCode == IdentifierExpr \in Seq(Plain)
<1>1. Switch(<<When(Is({"LeftParens"}), <<Call("arguments"), Emit("Function"), Leave>>),
               When(Is({"LeftBraces"}), <<TailCall("literal")>>)>>,
             <<>>) \in Depth2
  BY Depth1Is, TagsIn, NamesIn, TestsAre
     DEF If, When, Switch, Switches, Cases, Nested, Depth2, OpenTags
<1>2. If(Generic,
         <<Advance,
           Until({"Greaters"}, "skip"),
           Opt("Greaters"),
           Switch(<<When(Is({"LeftParens"}), <<Call("arguments"), Emit("Function"), Leave>>),
                    When(Is({"LeftBraces"}), <<TailCall("literal")>>)>>,
                  <<>>)>>,
         <<>>) \in Plain
  BY <1>1, Depth2Is, TagsIn, NamesIn, TestsAre
     DEF If, When, Switch, Switches, Cases, Nested, Plain, OpenTags
<1>3. Switch(<<When(Is({"LeftParens"}), <<TailCall("function_call")>>),
               When(Is({"LeftBraces"}), <<TailCall("literal")>>)>>,
             <<Emit("Identifiers")>>) \in Plain
  BY Depth2Is, TagsIn, NamesIn, TestsAre
     DEF If, When, Switch, Switches, Cases, Nested, Plain, OpenTags
<1> QED
  BY <1>2, <1>3, PlainIs, TagsIn, NamesIn DEF IdentifierExpr, OpenTags

LEMMA TypeBaseCode == parser_type_base \in Seq(Plain)
BY Depth2Is, TagsIn, NamesIn, TestsAre
   DEF parser_type_base, If, When, Switch, Switches, Cases, Nested, Plain, OpenTags

LEMMA TypeArgCode == TypeArg \in Seq(Calm3)
BY Calm3Is, TagsIn DEF TypeArg

LEMMA TypeElementCode == TypeElement \in Seq(Plain)
BY PlainIs, TagsIn DEF TypeElement

LEMMA PointerCode == Pointer \in Seq(Plain)
BY Depth2Is, TagsIn, TestsAre
   DEF Pointer, If, When, Switch, Switches, Cases, Nested, Plain, OpenTags

LEMMA FunctionTypeCode == FunctionType \in Seq(Plain)
BY Depth2Is, TagsIn, NamesIn, TestsAre
   DEF FunctionType, If, When, Switch, Switches, Cases, Nested, Plain, OpenTags

LEMMA GenericParamsCode == parse_generic_params \in Seq(Plain)
BY Depth2Is, TagsIn, NamesIn, TestsAre
   DEF parse_generic_params, If, When, Switch, Switches, Cases, Nested, Plain

LEMMA ParamsCode == parse_function_params \in Seq(Plain)
BY PlainIs, TagsIn, NamesIn DEF parse_function_params

LEMMA FunctionsCode == ItemCode(parser_functions)
<1>1. If(Is({"Colons"}), <<Advance, Type>>, <<>>) \in Calm3
  BY Calm2Is, TagsIn, TestsAre DEF If, When, Switch, Switches, Cases, Nested, Calm3
<1> QED
  BY <1>1, Calm3Is, TagsIn, NamesIn
     DEF parser_functions, Signature, CalmBodies, ItemCode, Emits, Emit, KeptTags,
         OpenTags, ClosedTags, CalmItem

LEMMA TraitFunctionsCode == parser_trait_functions \in Seq(Plain)
BY Depth2Is, TagsIn, NamesIn, TestsAre
   DEF parser_trait_functions, Signature, If, When, Switch, Switches, Cases, Nested,
       Plain, OpenTags

LEMMA ClassCode == ItemCode(parser_class)
<1>1. If(Is({"LeftParens"}), <<Call("params")>>, <<>>) \in Calm3
  BY Calm2Is, TagsIn, NamesIn, TestsAre DEF If, When, Switch, Switches, Cases, Nested, Calm3
<1>2. If(Is({"Greaters"}), <<Advance, Need("Identifier")>>, <<>>) \in Calm3
  BY Calm2Is, TagsIn, TestsAre DEF If, When, Switch, Switches, Cases, Nested, Calm3
<1> QED
  BY <1>1, <1>2, Calm3Is, TagsIn, NamesIn
     DEF parser_class, CalmBodies, ItemCode, Emits, Emit, KeptTags, OpenTags, ClosedTags,
         CalmItem

LEMMA MemberCode == ClassMember \in Seq(Calm3)
<1>1. If(Is({"Functions"}), <<Call("functions")>>, <<Error, Advance>>) \in Calm2
  BY Calm1Is, TagsIn, NamesIn, TestsAre DEF If, When, Switch, Switches, Cases, Nested, Calm2
<1>2. If(Is({"Functions"}), <<Call("functions")>>, <<Error>>) \in Calm1
  BY CalmIs, TagsIn, NamesIn, TestsAre DEF If, When, Switch, Switches, Cases, Nested, Calm1
<1>3. If(Reads({"operation"}),
         <<Call("operation_op"), If(Is({"Functions"}), <<Call("functions")>>, <<Error>>)>>,
         <<Error, Advance>>) \in Calm2
  BY <1>2, Calm1Is, TagsIn, NamesIn, TestsAre
     DEF If, When, Switch, Switches, Cases, Nested, Calm2
<1> QED
  BY <1>1, <1>3, Calm2Is, TagsIn, NamesIn, TestsAre, SMTT(30)
     DEF ClassMember, If, When, Switch, Switches, Cases, Nested, Calm3

LEMMA StructerCode == ItemCode(parser_structer)
BY Calm3Is, TagsIn, NamesIn
   DEF parser_structer, CalmBodies, ItemCode, Emits, Emit, KeptTags, OpenTags, ClosedTags,
       CalmItem

LEMMA StructFieldCode == StructField \in Seq(Calm3)
BY Calm2Is, TagsIn, TestsAre
   DEF StructField, If, When, Switch, Switches, Cases, Nested, Calm3

LEMMA EnumsCode == ItemCode(parser_enums)
BY Calm3Is, TagsIn, NamesIn
   DEF parser_enums, CalmBodies, ItemCode, Emits, Emit, KeptTags, OpenTags, ClosedTags,
       CalmItem

LEMMA VariantCode == EnumVariant \in Seq(Calm3)
<1>1. If(Is({"LeftParens"}),
         <<Advance, Until({"RightParens"}, "enum_field"), Expect("RightParens")>>,
         <<>>) \in Calm2
  BY Calm1Is, TagsIn, NamesIn, TestsAre
     DEF If, When, Switch, Switches, Cases, Nested, Calm2, CalmBodies
<1> QED
  BY <1>1, Calm2Is, TagsIn, NamesIn, TestsAre
     DEF EnumVariant, If, When, Switch, Switches, Cases, Nested, Calm3, CalmBodies

LEMMA EnumFieldCode == EnumField \in Seq(Calm3)
BY Calm2Is, TagsIn, TestsAre DEF EnumField, If, When, Switch, Switches, Cases, Nested, Calm3

LEMMA TraitsCode == ItemCode(parser_traits)
BY Calm3Is, TagsIn, NamesIn
   DEF parser_traits, CalmBodies, ItemCode, Emits, Emit, KeptTags, OpenTags, ClosedTags,
       CalmItem

LEMMA TraitMemberCode == TraitMember \in Seq(Calm3)
BY Calm2Is, TagsIn, NamesIn, TestsAre
   DEF TraitMember, If, When, Switch, Switches, Cases, Nested, Calm3

LEMMA ExternCode == ItemCode(parser_extern)
BY Calm3Is, TagsIn, NamesIn
   DEF parser_extern, CalmBodies, ItemCode, Emits, Emit, KeptTags, OpenTags, ClosedTags,
       CalmItem

LEMMA ExternFuncCode == ExternFunc \in Seq(Calm3)
<1>1. If(Is({"LeftParens"}),
         <<Advance, Until({"RightParens"}, "extern_param"), Expect("RightParens")>>,
         <<Error>>) \in Calm2
  BY Calm1Is, TagsIn, NamesIn, TestsAre
     DEF If, When, Switch, Switches, Cases, Nested, Calm2, CalmBodies
<1>2. If(Is({"Colons"}), <<Advance, Type>>, <<>>) \in Calm2
  BY Calm1Is, TagsIn, TestsAre DEF If, When, Switch, Switches, Cases, Nested, Calm2
<1> QED
  BY <1>1, <1>2, Calm2Is, TagsIn, NamesIn, TestsAre
     DEF ExternFunc, If, When, Switch, Switches, Cases, Nested, Calm3, CalmBodies

LEMMA ModuleCode == ItemCode(parser_module)
BY Calm3Is, TagsIn, NamesIn
   DEF parser_module, CalmBodies, ItemCode, Emits, Emit, KeptTags, OpenTags, ClosedTags,
       CalmItem

LEMMA VarsCode == ItemCode(parser_vars)
<1>1. If(Is({"Colons"}), <<Advance, Type>>, <<>>) \in Calm3
  BY Calm2Is, TagsIn, TestsAre DEF If, When, Switch, Switches, Cases, Nested, Calm3
<1>2. If(Is({"Equalss"}), <<Advance, Expr(0)>>, <<Error>>) \in Calm3
  BY Calm2Is, TagsIn, TestsAre DEF If, When, Switch, Switches, Cases, Nested, Calm3
<1> QED
  BY <1>1, <1>2, Calm3Is, TagsIn
     DEF parser_vars, Declared, ItemCode, Emits, Emit, KeptTags, OpenTags, ClosedTags,
         CalmItem

LEMMA LetsCode == ItemCode(parser_lets)
<1>1. If(Is({"Colons"}), <<Advance, Type>>, <<>>) \in Calm3
  BY Calm2Is, TagsIn, TestsAre DEF If, When, Switch, Switches, Cases, Nested, Calm3
<1>2. If(Is({"Equalss"}), <<Advance, Expr(0)>>, <<Error>>) \in Calm3
  BY Calm2Is, TagsIn, TestsAre DEF If, When, Switch, Switches, Cases, Nested, Calm3
<1> QED
  BY <1>1, <1>2, Calm3Is, TagsIn
     DEF parser_lets, Declared, ItemCode, Emits, Emit, KeptTags, OpenTags, ClosedTags,
         CalmItem

LEMMA ConstCode == ItemCode(parser_const)
<1>1. If(Is({"Colons"}), <<Advance, Type>>, <<>>) \in Calm3
  BY Calm2Is, TagsIn, TestsAre DEF If, When, Switch, Switches, Cases, Nested, Calm3
<1>2. If(Is({"Equalss"}), <<Advance, Expr(0)>>, <<Error>>) \in Calm3
  BY Calm2Is, TagsIn, TestsAre DEF If, When, Switch, Switches, Cases, Nested, Calm3
<1> QED
  BY <1>1, <1>2, Calm3Is, TagsIn
     DEF parser_const, Declared, ItemCode, Emits, Emit, KeptTags, OpenTags, ClosedTags,
         CalmItem

LEMMA GlobleCode == ItemCode(parser_globle)
<1>1. If(Is({"Colons"}), <<Advance, Type>>, <<>>) \in Calm3
  BY Calm2Is, TagsIn, TestsAre DEF If, When, Switch, Switches, Cases, Nested, Calm3
<1>2. If(Is({"Equalss"}), <<Advance, Expr(0)>>, <<Error>>) \in Calm3
  BY Calm2Is, TagsIn, TestsAre DEF If, When, Switch, Switches, Cases, Nested, Calm3
<1> QED
  BY <1>1, <1>2, Calm3Is, TagsIn
     DEF parser_globle, Declared, ItemCode, Emits, Emit, KeptTags, OpenTags, ClosedTags,
         CalmItem

LEMMA ReturnCode == ItemCode(parser_return)
<1>1. If(Is({"Ends", "Semicolons", "EOFs"}), <<>>, <<Expr(0)>>) \in Calm3
  BY Calm2Is, TagsIn, TestsAre DEF If, When, Switch, Switches, Cases, Nested, Calm3
<1> QED
  BY <1>1, Calm3Is, TagsIn
     DEF parser_return, ItemCode, Emits, Emit, KeptTags, OpenTags, ClosedTags, CalmItem

LEMMA MatchCode == ItemCode(parser_match)
BY Calm3Is, TagsIn, NamesIn
   DEF parser_match, CalmBodies, ItemCode, Emits, Emit, KeptTags, OpenTags, ClosedTags,
       CalmItem

LEMMA ArmCode == Arm \in Seq(Calm3)
BY Calm3Is, TagsIn, NamesIn DEF Arm, CalmBodies

LEMMA WhileCode == ItemCode(parser_while)
BY Calm3Is, TagsIn, NamesIn
   DEF parser_while, CalmBodies, ItemCode, Emits, Emit, KeptTags, OpenTags, ClosedTags,
       CalmItem

LEMMA ForCode == ItemCode(parser_for)
BY Calm3Is, TagsIn, NamesIn
   DEF parser_for, CalmBodies, ItemCode, Emits, Emit, KeptTags, OpenTags, ClosedTags,
       CalmItem

LEMMA IfPatCode == parser_if_pat \in Seq(Plain)
BY Depth2Is, TagsIn, TestsAre
   DEF parser_if_pat, If, When, Switch, Switches, Cases, Nested, Plain

LEMMA IfCode == ItemCode(parser_if)
<1>1. Switch(<<When(Is({"Elifs"}), <<Call("elif")>>),
               When(Is({"Elses"}), <<Call("else")>>)>>,
             <<>>) \in Calm3
  BY Calm2Is, TagsIn, NamesIn, TestsAre DEF If, When, Switch, Switches, Cases, Nested, Calm3
<1> QED
  BY <1>1, Calm3Is, TagsIn, NamesIn
     DEF parser_if, Branch, CalmBodies, ItemCode, Emits, Emit, KeptTags, OpenTags,
         ClosedTags, CalmItem

LEMMA ElifCode == parser_elif \in Seq(Plain)
BY Depth2Is, TagsIn, NamesIn, TestsAre
   DEF parser_elif, Branch, If, When, Switch, Switches, Cases, Nested, Plain, OpenTags

LEMMA ElseCode == parser_else \in Seq(Plain)
BY PlainIs, TagsIn, NamesIn DEF parser_else, OpenTags

LEMMA ImportCode == ItemCode(parser_import)
<1>1. If(Is({"Froms"}), <<>>, <<Error>>) \in Calm2
  BY Calm1Is, TagsIn, TestsAre DEF If, When, Switch, Switches, Cases, Nested, Calm2
<1>2. If(Is({"Froms"}), <<Advance, Need("Strings")>>, <<>>) \in Calm2
  BY Calm1Is, TagsIn, TestsAre DEF If, When, Switch, Switches, Cases, Nested, Calm2
<1>3. Switch(<<When(Is({"Stars"}), <<Advance, If(Is({"Froms"}), <<>>, <<Error>>), Advance, Need("Strings")>>),
               When(Is({"Strings"}), <<Advance>>)>>,
             <<Need("Identifier"), If(Is({"Froms"}), <<Advance, Need("Strings")>>, <<>>)>>) \in Calm3
  BY <1>1, <1>2, Calm2Is, TagsIn, TestsAre
     DEF If, When, Switch, Switches, Cases, Nested, Calm3
<1> QED
  BY <1>3, Calm3Is, TagsIn
     DEF parser_import, ItemCode, Emits, Emit, KeptTags, OpenTags, ClosedTags, CalmItem

LEMMA FromImportCode == ItemCode(parser_from_import)
<1>1. If(Is({"Imports"}), <<>>, <<Error>>) \in Calm3
  BY Calm2Is, TagsIn, TestsAre DEF If, When, Switch, Switches, Cases, Nested, Calm3
<1>2. If(Is({"Stars", "Identifier"}), <<Advance>>, <<Error>>) \in Calm3
  BY Calm2Is, TagsIn, TestsAre DEF If, When, Switch, Switches, Cases, Nested, Calm3
<1> QED
  BY <1>1, <1>2, Calm3Is, TagsIn
     DEF parser_from_import, ItemCode, Emits, Emit, KeptTags, OpenTags, ClosedTags,
         CalmItem

LEMMA OperationOpCode == operation_op \in Seq(Plain)
BY Depth2Is, TagsIn, TestsAre
   DEF operation_op, If, When, Switch, Switches, Cases, Nested, Plain

LEMMA OperationAtomCode == operation_atom \in Seq(Plain)
BY Depth2Is, TagsIn, TestsAre
   DEF operation_atom, If, When, Switch, Switches, Cases, Nested, Plain

LEMMA SkipCode == <<Advance>> \in Seq(Plain)
BY PlainIs

LEMMA ForBodyCode == <<Call("stmt")>> \in Seq(Calm3)
BY Calm3Is, NamesIn

LEMMA BracketParamCode == GenericParam({"Identifier"}) \in Seq(Calm3)
BY Calm2Is, TagsIn, TestsAre
   DEF GenericParam, If, When, Switch, Switches, Cases, Nested, Calm3

LEMMA GenericParamCode == GenericParam(TypeTokens) \in Seq(Plain)
BY Depth2Is, TagsIn, TestsAre
   DEF GenericParam, If, When, Switch, Switches, Cases, Nested, Plain

LEMMA BodyCode == Stmt \in Seq(CalmItem)
BY Calm3Is, NamesIn DEF Stmt, CalmItem

LEMMA ExternParamCode == ExternParam \in Seq(CalmItem)
<1>1. ExternParam[1] \in CalmItem
  BY DEF CalmItem
<1>2. Need("Colons") \in CalmItem /\ Type \in CalmItem /\ Opt("Commas") \in CalmItem
  BY Calm3Is, TagsIn DEF CalmItem
<1> QED
  BY <1>1, <1>2 DEF ExternParam

LEMMA BreakersCode ==
    /\ LiteralField \in Seq(Open) /\ Element \in Seq(Open) /\ TupleElement \in Seq(Open)
    /\ Dimension \in Seq(Open) /\ FunctionParam \in Seq(Open)
<1>1. /\ LiteralField[1] \in Open /\ Element[2] \in Open /\ TupleElement[2] \in Open
      /\ Dimension[2] \in Open /\ FunctionParam[1] \in Open
  BY DEF Open, Breakers
<1>2. /\ Advance \in Open /\ Expr(0) \in Open /\ Need("Equalss") \in Open /\ Opt("Commas") \in Open
  BY PlainIs, TagsIn DEF Open
<1>3. LiteralField \in Seq(Open)
  BY <1>1, <1>2 DEF LiteralField
<1>4. Element \in Seq(Open)
  BY <1>1, <1>2 DEF Element
<1>5. TupleElement \in Seq(Open)
  BY <1>1, <1>2 DEF TupleElement
<1>6. Dimension \in Seq(Open)
  BY <1>1, <1>2 DEF Dimension
<1>7. FunctionParam \in Seq(Open)
  BY <1>1, <1>2 DEF FunctionParam
<1> QED
  BY <1>3, <1>4, <1>5, <1>6, <1>7

LEMMA TypeCode == parser_type \in Seq(Open)
<1>1. parser_type[2] \in Open
  BY DEF Open, TypeArgs
<1>2. Call("type_base") \in Open
  BY PlainIs, NamesIn DEF Open
<1> QED
  BY <1>1, <1>2 DEF parser_type

LEMMA LevelsUp == Basic \subseteq Depth1 /\ Depth1 \subseteq Depth2 /\ Depth2 \subseteq Plain
BY NestedIs DEF Depth1, Depth2, Plain

LEMMA SwitchesUp ==
    ASSUME NEW C, NEW D, C \subseteq D
    PROVE  Switches(C) \subseteq Switches(D)
<1>1. Cases(C) \subseteq Cases(D)
  BY DEF Cases
<1>2. Seq(Cases(C)) \subseteq Seq(Cases(D))
  BY <1>1, SeqMonotonic
<1> QED
  BY <1>2 DEF Switches

LEMMA BeginIs ==
    ASSUME NEW tag \in Tags, NEW f \in ItemNames \ {"const"}, NEW C, StmtTails \subseteq C
    PROVE  Begin(tag, f) \in Cases(C)
<1>1. Is({tag}) \in Tests
  BY TestsAre
<1> QED
  BY <1>1 DEF Begin, When, Cases, StmtTails

LEMMA OneOfIs ==
    ASSUME NEW heads \in Seq(Cases(OneOfCodes))
    PROVE  OneOf(heads) \in OneOfs
BY DEF OneOf, Switch, Switches, OneOfs, OneOfCodes

LEMMA StmtCode == parser_stmt = <<parser_stmt[1]>> /\ parser_stmt[1] \in StmtSwitches
<1>1. StmtTails \subseteq OneOfCodes /\ StmtTails \subseteq StmtCodes
  BY DEF OneOfCodes, StmtCodes, StmtTails, ItemTails
<1>2. Items \in Seq(Cases(OneOfCodes)) /\ Items \in Seq(Cases(StmtCodes))
  <2>1. ASSUME NEW C, StmtTails \subseteq C PROVE Items \in Seq(Cases(C))
    BY <2>1, BeginIs, TagsIn DEF Items, ItemNames
  <2> QED
    BY <1>1, <2>1
<1>3. Items \o <<Begin("Classes", "class"), Begin("Modules", "module")>> \in Seq(Cases(OneOfCodes))
  <2>1. <<Begin("Classes", "class"), Begin("Modules", "module")>> \in Seq(Cases(OneOfCodes))
    BY <1>1, BeginIs, TagsIn DEF ItemNames
  <2> QED
    BY <1>2, <2>1, ConcatProperties
<1>4. << Begin("Functions", "functions"), Begin("Locals", "globle"),
         Begin("Identifier", "const") >> \in Seq(Cases(OneOfCodes))
  <2>1. Begin("Identifier", "const") \in Cases(OneOfCodes)
    BY TagsIn, TestsAre DEF Begin, When, Cases, OneOfCodes, ItemTails, ItemNames
  <2>2. /\ Begin("Functions", "functions") \in Cases(OneOfCodes)
        /\ Begin("Locals", "globle") \in Cases(OneOfCodes)
    BY <1>1, BeginIs, TagsIn DEF ItemNames
  <2> QED
    BY <2>1, <2>2
<1> DEFINE unsafe == If(Is({"Unsafes"}), <<Advance, OneOf(Items)>>,
                        <<OneOf(Items \o <<Begin("Classes", "class"), Begin("Modules", "module")>>)>>)
           consts == OneOf(<< Begin("Functions", "functions"), Begin("Locals", "globle"),
                              Begin("Identifier", "const") >>)
           first == << When(Is({"Publics"}), <<Advance, unsafe>>),
                       When(Is({"Unsafes"}), <<Advance, OneOf(Items)>>),
                       When(Is({"Consts"}), <<Advance, consts>>) >>
           last == << Begin("Imports", "import"), Begin("Froms", "from_import"),
                      Begin("Modules", "module"), Begin("Classes", "class"), Begin("Ifs", "if"),
                      Begin("Returns", "return"), Begin("Locals", "globle"), Begin("Vars", "vars"),
                      Begin("Lets", "lets"), Begin("Matchs", "match"), Begin("Fors", "for"),
                      Begin("Ats", "operation"), Begin("Whiles", "while"),
                      Begin("Externs", "extern"), When(Is({"EOFs"}), <<Error, Emit("Invalid")>>) >>
<1>5. OneOf(Items) \in OneOfs /\ consts \in OneOfs
  BY <1>2, <1>4, OneOfIs
<1>6. unsafe \in Unsafes
  <2>1. OneOf(Items \o <<Begin("Classes", "class"), Begin("Modules", "module")>>) \in OneOfs
    BY <1>3, OneOfIs
  <2>2. Is({"Unsafes"}) \in Tests
    BY TagsIn, TestsAre
  <2> HIDE DEF consts
  <2> QED
    BY <1>5, <2>1, <2>2 DEF Unsafes, If, When, Switch, Switches, Cases
<1>7. first \in Seq(StmtCases)
  <2>1. Is({"Publics"}) \in Tests /\ Is({"Unsafes"}) \in Tests /\ Is({"Consts"}) \in Tests
    BY TagsIn, TestsAre
  <2>2. ASSUME NEW t \in Tests, NEW i \in OneOfs \cup Unsafes
        PROVE  When(t, <<Advance, i>>) \in StmtCases
    BY DEF When, StmtCases, StmtCodes, Cases
  <2> HIDE DEF unsafe, consts
  <2> QED
    BY <1>5, <1>6, <2>1, <2>2
<1>8. last \in Seq(StmtCases)
  <2>1. ASSUME NEW tag \in Tags, NEW f \in ItemNames \ {"const"} PROVE Begin(tag, f) \in StmtCases
    BY <1>1, BeginIs DEF StmtCases
  <2>2. Begin("Ats", "operation") \in StmtCases
        /\ When(Is({"EOFs"}), <<Error, Emit("Invalid")>>) \in StmtCases
    BY DEF StmtCases, Begin
  <2> QED
    BY <2>1, <2>2, TagsIn DEF ItemNames
<1>9. first \o Items \o last \in Seq(StmtCases)
  <2>1. Items \in Seq(StmtCases)
    <3>1. Cases(StmtCodes) \subseteq StmtCases
      BY DEF StmtCases
    <3> QED
      BY <1>2, <3>1, SeqMonotonic
  <2>2. ASSUME NEW a \in Seq(StmtCases), NEW b \in Seq(StmtCases), NEW c \in Seq(StmtCases)
        PROVE  a \o b \o c \in Seq(StmtCases)
    <3>1. a \o b \in Seq(StmtCases)
      BY ConcatProperties
    <3> QED
      BY <3>1, ConcatProperties
  <2> HIDE DEF first, last
  <2> QED
    BY <1>7, <1>8, <2>1, <2>2
<1>10. parser_stmt = <<Switch(first \o Items \o last, <<Expr(0), Emit("ExprStmt")>>)>>
  BY DEF parser_stmt
<1> HIDE DEF first, last
<1>11. ASSUME NEW s \in Seq(StmtCases)
       PROVE  Switch(s, <<Expr(0), Emit("ExprStmt")>>) \in StmtSwitches
  BY DEF Switch, StmtSwitches
<1> QED
  BY <1>9, <1>10, <1>11

LEMMA StmtPlain == StmtSwitches \subseteq Plain
<1>1. ItemNames \subseteq Callees
  BY NamesIn
<1>2. OneOfCodes \subseteq Seq(Basic)
  <2>1. ASSUME NEW f \in ItemNames PROVE <<TailCall(f)>> \in Seq(Basic)
    BY <1>1, BasicIs
  <2>2. <<Error, Sync, Emit("Invalid")>> \in Seq(Basic)
    BY BasicIs DEF OpenTags
  <2> QED
    BY <2>1, <2>2 DEF OneOfCodes, ItemTails
<1>3. OneOfs \subseteq Depth1
  BY <1>2, SwitchesUp DEF OneOfs, Depth1, Nested
<1>4. Unsafes \subseteq Depth2
  <2>1. ASSUME NEW i \in OneOfs
        PROVE  <<Advance, i>> \in Seq(Depth1) /\ <<i>> \in Seq(Depth1)
    BY <1>3, Depth1Is
  <2>2. {<<Advance, i>> : i \in OneOfs} \cup {<<i>> : i \in OneOfs} \subseteq Seq(Depth1)
    BY <2>1
  <2> QED
    BY <2>2, SwitchesUp DEF Unsafes, Depth2, Nested
<1>5. StmtCodes \subseteq Seq(Depth2)
  <2>1. ASSUME NEW f \in ItemNames PROVE <<TailCall(f)>> \in Seq(Depth2)
    BY <1>1, Depth2Is
  <2>2. ASSUME NEW i \in OneOfs \cup Unsafes PROVE <<Advance, i>> \in Seq(Depth2)
    BY <1>3, <1>4, Depth2Is, LevelsUp
  <2> QED
    BY <2>1, <2>2 DEF StmtCodes, StmtTails
<1>6. StmtCases \subseteq Cases(Seq(Depth2))
  <2>1. Cases(StmtCodes) \subseteq Cases(Seq(Depth2))
    BY <1>5 DEF Cases
  <2>2. Is({"EOFs"}) \in Tests /\ Is({"Ats"}) \in Tests
    BY TagsIn, TestsAre
  <2>3. <<Error, Emit("Invalid")>> \in Seq(Depth2) /\ <<TailCall("operation")>> \in Seq(Depth2)
    BY Depth2Is, NamesIn DEF OpenTags
  <2>4. /\ When(Is({"EOFs"}), <<Error, Emit("Invalid")>>) \in Cases(Seq(Depth2))
        /\ When(Is({"Ats"}), <<TailCall("operation")>>) \in Cases(Seq(Depth2))
    BY <2>2, <2>3 DEF When, Cases
  <2> QED
    BY <2>1, <2>4 DEF StmtCases
<1>7. Seq(StmtCases) \subseteq Seq(Cases(Seq(Depth2)))
  BY <1>6, SeqMonotonic
<1>8. <<Expr(0), Emit("ExprStmt")>> \in Seq(Depth2)
  BY Depth2Is DEF OpenTags
<1> QED
  BY <1>7, <1>8 DEF StmtSwitches, Plain, Nested, Switches

LEMMA FfiCode == parser_ffi \in Seq(Plain)
BY Depth2Is, TagsIn, NamesIn, TestsAre
   DEF parser_ffi, If, When, Switch, Switches, Cases, Nested, Plain, OpenTags

LEMMA OperationCode == parser_operation \in Seq(Plain)
BY Depth2Is, TagsIn, NamesIn, TestsAre
   DEF parser_operation, If, When, Switch, Switches, Cases, Nested, Plain, OpenTags

LEMMA LevelsAre ==
    \A tag : parser_precedence(tag) \in 0 .. 13 /\ RightLevel(tag) \in Nat
<1>1. DOMAIN Levels = 1 .. 13
  BY DEF Levels
<1>2. ASSUME NEW tag PROVE parser_precedence(tag) \in 0 .. 13
  <2>1. CASE \E i \in DOMAIN Levels : tag \in Levels[i]
    <3>1. (CHOOSE i \in DOMAIN Levels : tag \in Levels[i]) \in DOMAIN Levels
      BY <2>1
    <3> QED
      BY <1>1, <2>1, <3>1 DEF parser_precedence
  <2>2. CASE ~\E i \in DOMAIN Levels : tag \in Levels[i]
    BY <2>2 DEF parser_precedence
  <2> QED
    BY <2>1, <2>2
<1> QED
  BY <1>2 DEF RightLevel

LEMMA OperatorCode ==
    ASSUME NEW tag, NEW min \in Nat
    PROVE  Operator(tag, min) \in Seq(Plain) /\ Cast \in Seq(Plain)
<1>1. Cast \in Seq(Plain)
  BY Depth2Is, TagsIn, TestsAre DEF Cast, If, When, Switch, Switches, Cases, Nested, Plain, OpenTags
<1>2. <<Advance, Expr(0), Expect("RightBrackets"), Emit("Idx"), Infix(min)>> \in Seq(Plain)
  BY PlainIs, TagsIn DEF OpenTags
<1>3. <<Advance, Expr(RightLevel(tag)), Emit("BinaryOps"), Infix(min)>> \in Seq(Plain)
  <2>1. RightLevel(tag) \in Nat
    BY LevelsAre
  <2> QED
    BY <2>1, PlainIs DEF OpenTags
<1> DEFINE call == If(Is({"LeftParens"}), <<Call("arguments"), Emit("Class_Calls")>>, <<Emit("Field")>>)
           field == If(Is({"Identifier"}), <<Advance, Call("generic_args"), call>>, <<Error>>)
<1>4. call \in Depth2
  BY Depth1Is, TagsIn, NamesIn, TestsAre DEF If, When, Switch, Switches, Cases, Nested, Depth2, OpenTags
<1>5. field \in Plain
  <2> HIDE DEF call
  <2> QED
    BY <1>4, Depth2Is, TagsIn, NamesIn, TestsAre DEF If, When, Switch, Switches, Cases, Nested, Plain
<1>6. <<Advance, field, Infix(min)>> \in Seq(Plain)
  <2> HIDE DEF field
  <2> QED
    BY <1>5, PlainIs
<1> QED
  BY <1>1, <1>2, <1>3, <1>6 DEF Operator

LEMMA ItemsCode == \A f \in ItemNames : ItemCode(Code[f])
BY CodeIs, FunctionsCode, StructerCode, EnumsCode, TraitsCode, ClassCode, ModuleCode, ImportCode,
   FromImportCode, IfCode, ReturnCode, GlobleCode, ConstCode, VarsCode, LetsCode, MatchCode,
   ForCode, WhileCode, ExternCode
   DEF ItemNames

LEMMA CalmCode == \A f \in CalmBodies : Code[f] \in Seq(CalmItem)
<1>1. \A s \in Seq(Calm3) : s \in Seq(CalmItem)
  <2>1. Calm3 \subseteq CalmItem
    BY DEF CalmItem
  <2> QED
    BY <2>1, SeqMonotonic
<1> QED
  BY <1>1, CodeIs, BodyCode, ForBodyCode, ArmCode, MemberCode, StructFieldCode, EnumFieldCode,
     VariantCode, TraitMemberCode, ExternFuncCode, ExternParamCode, TypeArgCode, BracketParamCode
     DEF CalmBodies

\* The code of every function that is no item, and of every loop body.
LEMMA OpenCode == \A f \in Names \ ItemNames : Code[f] \in Seq(Open)
<1>1. CalmItem \subseteq Open /\ Plain \subseteq Open
  BY CalmBelow DEF CalmItem, Open, Breakers
<1>2. \A s \in Seq(Plain) : s \in Seq(Open)
  BY <1>1, SeqMonotonic
<1>3. \A f \in CalmBodies : Code[f] \in Seq(Open)
  <2>1. \A s \in Seq(CalmItem) : s \in Seq(Open)
    BY <1>1, SeqMonotonic
  <2> QED
    BY <2>1, CalmCode
<1>4. Code["stmt"] \in Seq(Open)
  <2>1. parser_stmt[1] \in Plain
    BY StmtCode, StmtPlain
  <2>2. <<parser_stmt[1]>> \in Seq(Open)
    BY <1>1, <2>1
  <2> QED
    BY <2>2, StmtCode, CodeIs
<1>5. \A f \in {"literal_field", "element", "tuple_element", "dimension", "param", "type"} :
         Code[f] \in Seq(Open)
  BY BreakersCode, TypeCode, CodeIs
<1>6. \A f \in {"arguments", "argument", "array", "literal", "function_call", "generic_args",
                "generic_arg", "primary", "parenthesis", "identifier", "skip", "type_base",
                "type_element", "pointer", "function_type", "generic_params", "generic_param",
                "params", "trait_functions", "if_pat", "elif", "else", "operation_op",
                "operation_atom", "ffi", "operation"} : Code[f] \in Seq(Open)
  BY <1>2, CodeIs, ArgumentsCode, ArgumentCode, ArrayCode, LiteralCode, FunctionCallCode,
     GenericArgsCode, GenericArgCode, PrimaryCode, ParenthesisCode, IdentifierCode, SkipCode,
     TypeBaseCode, TypeElementCode, PointerCode, FunctionTypeCode, GenericParamsCode,
     GenericParamCode, ParamsCode, TraitFunctionsCode, IfPatCode, ElifCode, ElseCode,
     OperationOpCode, OperationAtomCode, FfiCode, OperationCode
<1>7. Names \subseteq ItemNames \cup CalmBodies \cup {"stmt"}
         \cup {"literal_field", "element", "tuple_element", "dimension", "param", "type"}
         \cup {"arguments", "argument", "array", "literal", "function_call", "generic_args",
                "generic_arg", "primary", "parenthesis", "identifier", "skip", "type_base",
                "type_element", "pointer", "function_type", "generic_params", "generic_param",
                "params", "trait_functions", "if_pat", "elif", "else", "operation_op",
                "operation_atom", "ffi", "operation"}
  BY NamesAre DEF ItemNames, CalmBodies
<1> QED
  BY <1>3, <1>4, <1>5, <1>6, <1>7

\* What a call or a tail call enters.
LEMMA SteadyCode == \A f \in Callees : Code[f] \in Seq(Steady)
<1>1. Plain \subseteq Steady /\ Calm3 \subseteq Steady
  BY CalmBelow DEF Steady
<1>2. \A s \in Seq(Plain) : s \in Seq(Steady)
  BY <1>1, SeqMonotonic
<1>3. ASSUME NEW f \in ItemNames PROVE Code[f] \in Seq(Steady)
  <2> DEFINE s == Code[f]
  <2>1. /\ s \in Seq(CalmItem \cup Emits(ClosedTags)) /\ Len(s) \in Nat
        /\ \A k \in 1 .. Len(s) - 1 : s[k] \in Calm3
        /\ s[Len(s)] \in Emits(KeptTags) \cup Emits(ClosedTags)
    BY ItemsCode DEF ItemCode
  <2> HIDE DEF s
  <2>2. Emits(KeptTags) \cup Emits(ClosedTags) \subseteq Steady
    <3>1. Emits(KeptTags) \subseteq Calm3
      BY NestedIs DEF Calm, Calm1, Calm2, Calm3
    <3> QED
      BY <1>1, <3>1 DEF Steady
  <2>3. \A k \in 1 .. Len(s) : s[k] \in Steady
    BY <1>1, <2>1, <2>2
  <2>4. s \in Seq(Steady)
    BY <2>1, <2>3, SequenceOf
  <2> QED
    BY <2>4 DEF s
<1>4. Code["stmt"] \in Seq(Steady)
  <2>1. parser_stmt[1] \in Plain
    BY StmtCode, StmtPlain
  <2>2. <<parser_stmt[1]>> \in Seq(Steady)
    BY <1>1, <2>1
  <2> QED
    BY <2>2, StmtCode, CodeIs
<1>5. Code["type"] \in Seq(Steady)
  <2>1. Call("type_base") \in Steady /\ TypeArgs \in Steady
    BY <1>1, PlainIs, NamesIn DEF Steady
  <2>2. parser_type = <<Call("type_base"), TypeArgs>>
    BY DEF parser_type, TypeArgs
  <2> QED
    BY <2>1, <2>2, CodeIs
<1>6. \A f \in {"arguments", "array", "literal", "function_call", "generic_args", "primary",
                "parenthesis", "identifier", "type_base", "pointer", "function_type",
                "generic_params", "params", "trait_functions", "if_pat", "elif", "else",
                "operation_op", "operation_atom", "ffi", "operation"} : Code[f] \in Seq(Steady)
  BY <1>2, CodeIs, ArgumentsCode, ArrayCode, LiteralCode, FunctionCallCode,
     GenericArgsCode, PrimaryCode, ParenthesisCode, IdentifierCode, TypeBaseCode, PointerCode,
     FunctionTypeCode, GenericParamsCode, ParamsCode, TraitFunctionsCode, IfPatCode, ElifCode,
     ElseCode, OperationOpCode, OperationAtomCode, FfiCode, OperationCode
<1>7. Callees \subseteq ItemNames \cup {"stmt", "type"}
         \cup {"arguments", "array", "literal", "function_call", "generic_args", "primary",
                "parenthesis", "identifier", "type_base", "pointer", "function_type",
                "generic_params", "params", "trait_functions", "if_pat", "elif", "else",
                "operation_op", "operation_atom", "ffi", "operation"}
  BY NamesAre DEF Callees, LoopBodies, ItemNames, CalmBodies
<1> QED
  BY <1>3, <1>4, <1>5, <1>6, <1>7

LEMMA TextCode == \A f \in Names : Code[f] \in Seq(Text)
<1>1. CalmItem \cup Emits(ClosedTags) \subseteq Text /\ Open \subseteq Text
  BY CalmBelow DEF CalmItem, Text, Open, Breakers
<1>2. \A s \in Seq(CalmItem \cup Emits(ClosedTags)) : s \in Seq(Text)
  BY <1>1, SeqMonotonic
<1>3. \A s \in Seq(Open) : s \in Seq(Text)
  BY <1>1, SeqMonotonic
<1> QED
  BY <1>2, <1>3, OpenCode, ItemsCode DEF ItemCode

-----------------------------------------------------------------------------
(* The instructions by their name.                                         *)

\* The switches in full: what their codes are made of.
LEMMA SwitchIs ==
    ASSUME NEW I, NEW i \in Switches(Seq(I))
    PROVE  /\ i.op = "switch" /\ i.default \in Seq(I) /\ DOMAIN i.cases \in SUBSET Nat
           /\ \A c \in DOMAIN i.cases : i.cases[c].test \in Tests /\ i.cases[c].code \in Seq(I)
<1>1. i.cases \in Seq(Cases(Seq(I)))
  BY DEF Switches
<1>2. \A c \in DOMAIN i.cases : i.cases[c] \in Cases(Seq(I))
  BY <1>1, ElementOfSeq, LenProperties
<1>3. DOMAIN i.cases \in SUBSET Nat
  BY <1>1, LenProperties
<1> QED
  BY <1>2, <1>3 DEF Switches, Cases

\* What the switches that are no part of Plain bring to the front.
LEMMA BreakersAre ==
    \A i \in Breakers :
       /\ i.op = "switch" /\ i.default \in Seq(Quick) /\ DOMAIN i.cases \in SUBSET Nat
       /\ \A c \in DOMAIN i.cases : i.cases[c].test \in Tests /\ i.cases[c].code \in Seq(Quick)
<1> DEFINE S == Switches(Seq(Quick))
<1>1. /\ Advance \in Quick /\ Error \in Quick /\ Sync \in Quick /\ Type \in Quick
      /\ Break \in Quick /\ Expr(0) \in Quick /\ Emit("Type") \in Quick
  BY PlainIs, TagsIn, NamesIn DEF Quick, Open, OpenTags
<1>2. ASSUME NEW t \in Tests, NEW yes \in Seq(Quick), NEW no \in Seq(Quick)
      PROVE  If(t, yes, no) \in S
  BY DEF If, When, Switch, Switches, Cases
<1>3. /\ Is({"Identifier"}) \in Tests /\ Is({"Commas"}) \in Tests /\ Is({"RightParens"}) \in Tests
      /\ Is({"Ints"}) \in Tests /\ Is({"Colons"}) \in Tests /\ Reads({"self"}) \in Tests
  BY TagsIn, TestsAre
<1>4. /\ <<Advance>> \in Seq(Quick) /\ <<Error, Sync, Break>> \in Seq(Quick)
      /\ <<Break>> \in Seq(Quick) /\ <<Expr(0)>> \in Seq(Quick)
      /\ <<Error, Break>> \in Seq(Quick) /\ <<Advance, Emit("Type")>> \in Seq(Quick)
  BY <1>1
<1> HIDE DEF S
<1>5. LiteralField[1] \in S /\ ExternParam[1] \in S
  BY <1>2, <1>3, <1>4 DEF LiteralField, ExternParam
<1>6. Element[2] \in S /\ TupleElement[2] \in S /\ Dimension[2] \in S
  BY <1>2, <1>3, <1>4 DEF Element, TupleElement, Dimension
<1>7. FunctionParam[1] \in S
  <2>1. If(Is({"Colons"}), <<Advance, Type>>, <<>>) \in Quick
        /\ If(Is({"Colons"}), <<Advance, Type>>, <<Error>>) \in Quick
    <3>1. If(Is({"Colons"}), <<Advance, Type>>, <<>>) \in Plain
          /\ If(Is({"Colons"}), <<Advance, Type>>, <<Error>>) \in Plain
      BY Depth2Is, TagsIn, TestsAre DEF If, When, Switch, Switches, Cases, Nested, Plain
    <3> QED
      BY <3>1 DEF Quick, Open
  <2>2. FunctionParam[1] = Switch(<<
          When(Reads({"self"}), <<Advance, If(Is({"Colons"}), <<Advance, Type>>, <<>>)>>),
          When(Is({"Identifier"}), <<Advance, If(Is({"Colons"}), <<Advance, Type>>, <<Error>>)>>) >>,
          <<Error, Sync, Break>>)
    BY DEF FunctionParam
  <2> QED
    BY <1>1, <1>3, <2>1, <2>2 DEF S, When, Switch, Switches, Cases
<1>8. \A i \in S : /\ i.op = "switch" /\ i.default \in Seq(Quick) /\ DOMAIN i.cases \in SUBSET Nat
                    /\ \A c \in DOMAIN i.cases :
                          i.cases[c].test \in Tests /\ i.cases[c].code \in Seq(Quick)
  BY SwitchIs DEF S
<1> QED
  BY <1>5, <1>6, <1>7, <1>8 DEF Breakers

LEMMA TypeArgsAre ==
    /\ TypeArgs = If(Built("Type_Custom"), <<TypeBrackets>>, <<>>)
    /\ TypeBrackets = If(Is({"LeftBrackets"}),
                         << Advance, Until({"RightBrackets"}, "type_arg"), Expect("RightBrackets"),
                            Extend >>, <<>>)
    /\ Built("Type_Custom") \in Tests /\ Is({"LeftBrackets"}) \in Tests
    /\ <<TypeBrackets>> \in Seq(Still)
    /\ << Advance, Until({"RightBrackets"}, "type_arg"), Expect("RightBrackets"), Extend >>
         \in Seq(Still)
<1>1. TypeArgs = If(Built("Type_Custom"), <<TypeBrackets>>, <<>>)
  BY DEF TypeArgs, TypeBrackets, parser_type, If, When, Switch
<1>2. TypeBrackets = If(Is({"LeftBrackets"}),
                         << Advance, Until({"RightBrackets"}, "type_arg"), Expect("RightBrackets"),
                            Extend >>, <<>>)
  BY DEF TypeArgs, TypeBrackets, parser_type, If, When, Switch
<1>3. /\ Advance \in Still /\ Extend \in Still /\ TypeBrackets \in Still
      /\ Expect("RightBrackets") \in Still /\ Until({"RightBrackets"}, "type_arg") \in Still
  BY PlainIs, TagsIn, NamesIn DEF Still, Text, Open
<1> HIDE DEF TypeBrackets
<1> QED
  BY <1>1, <1>2, <1>3, TagsIn, TestsAre

\* What any switch brings to the front.
LEMMA SwitchesAre ==
    ASSUME NEW i \in Breakers \cup {TypeArgs, TypeBrackets}
    PROVE  /\ i.op = "switch" /\ i.default \in Seq(Still) /\ DOMAIN i.cases \in SUBSET Nat
           /\ \A c \in DOMAIN i.cases : i.cases[c].test \in Tests /\ i.cases[c].code \in Seq(Still)
<1>1. \A s \in Seq(Quick) : s \in Seq(Still)
  <2>1. Quick \subseteq Still
    BY DEF Quick, Still, Text
  <2> QED
    BY <2>1, SeqMonotonic
<1>2. CASE i \in Breakers
  <2>1. /\ i.op = "switch" /\ i.default \in Seq(Quick) /\ DOMAIN i.cases \in SUBSET Nat
        /\ \A c \in DOMAIN i.cases : i.cases[c].test \in Tests /\ i.cases[c].code \in Seq(Quick)
    BY <1>2, BreakersAre
  <2>2. \A c \in DOMAIN i.cases : i.cases[c].test \in Tests /\ i.cases[c].code \in Seq(Still)
    BY <1>1, <2>1
  <2>3. i.default \in Seq(Still)
    BY <1>1, <2>1
  <2> QED
    BY <2>1, <2>2, <2>3
<1>3. ASSUME NEW t \in Tests, NEW yes \in Seq(Still), NEW no \in Seq(Still)
      PROVE  If(t, yes, no) \in Switches(Seq(Still))
  BY DEF If, When, Switch, Switches, Cases
<1>4. CASE i \in {TypeArgs, TypeBrackets}
  <2>1. <<>> \in Seq(Still)
    OBVIOUS
  <2> DEFINE none == <<>>
             brackets == <<TypeBrackets>>
             code == << Advance, Until({"RightBrackets"}, "type_arg"), Expect("RightBrackets"),
                        Extend >>
  <2>3. /\ TypeArgs = If(Built("Type_Custom"), brackets, none)
        /\ TypeBrackets = If(Is({"LeftBrackets"}), code, none)
        /\ Built("Type_Custom") \in Tests /\ Is({"LeftBrackets"}) \in Tests
        /\ brackets \in Seq(Still) /\ code \in Seq(Still)
    BY TypeArgsAre, Zenon
  <2> HIDE DEF none, brackets, code
  <2>4. none \in Seq(Still)
    BY <2>1 DEF none
  <2>5. TypeArgs \in Switches(Seq(Still)) /\ TypeBrackets \in Switches(Seq(Still))
    BY <1>3, <2>3, <2>4
  <2>2. i \in Switches(Seq(Still))
    BY <1>4, <2>5
  <2> QED
    BY <2>2, SwitchIs
<1> QED
  BY <1>2, <1>4

LEMMA PlainOps ==
    ASSUME NEW i \in Plain
    PROVE  \/ i \in Basic
           \/ /\ i.op = "switch" /\ i.default \in Seq(Plain) /\ DOMAIN i.cases \in SUBSET Nat
              /\ \A c \in DOMAIN i.cases : i.cases[c].test \in Tests /\ i.cases[c].code \in Seq(Plain)
<1>1. \A s \in Seq(Basic) : s \in Seq(Plain)
  BY LevelsUp, SeqMonotonic
<1>2. \A s \in Seq(Depth1) : s \in Seq(Plain)
  BY LevelsUp, SeqMonotonic
<1>3. \A s \in Seq(Depth2) : s \in Seq(Plain)
  BY LevelsUp, SeqMonotonic
<1>4. CASE i \in Switches(Seq(Basic))
  BY <1>1, <1>4, SwitchIs
<1>5. CASE i \in Switches(Seq(Depth1))
  BY <1>2, <1>5, SwitchIs
<1>6. CASE i \in Switches(Seq(Depth2))
  BY <1>3, <1>6, SwitchIs
<1> QED
  BY <1>4, <1>5, <1>6 DEF Plain, Depth2, Depth1, Nested

LEMMA BasicOps ==
    ASSUME NEW i \in Basic
    PROVE  /\ i.op \in {"advance", "error", "sync", "leave", "call", "tail", "expr", "infix",
                        "emit", "loop"}
           /\ i.op = "loop" => i \in Loops
           /\ i.op \in {"call", "tail"} => i.to \in Callees /\ i.to \in Names
           /\ i.op \in {"expr", "infix"} => i.min \in Nat
           /\ i.op = "emit" => i.tag \in OpenTags
BY NamesIn DEF Basic, Advance, Error, Sync, Leave, Calls, Tails, Exprs1, Infixes, Emits, Loops, LoopsWith

LEMMA ItemOps ==
    ASSUME NEW i \in Item
    PROVE  /\ i \in Still => i.op \notin {"ret", "again"}
           /\ i.op = "ret" => i \in Rets
           /\ i.op = "again" => i \in Agains
           /\ i.op = "loop" => i \in Loops
           /\ i.op \in {"call", "tail"} => i.to \in Callees /\ i.to \in Names
           /\ i.op \in {"expr", "infix"} => i.min \in Nat
           /\ i.op = "emit" => i.tag \in NodeTags
           /\ i.op = "switch" =>
                 /\ i.default \in Seq(Still) /\ DOMAIN i.cases \in SUBSET Nat
                 /\ \A c \in DOMAIN i.cases :
                       i.cases[c].test \in Tests /\ i.cases[c].code \in Seq(Still)
<1>1. CASE i \in Rets \cup Agains
  <2>1. i \in Rets => i.op = "ret"
    BY DEF Rets
  <2>2. i \in Agains => i.op = "again"
    BY DEF Agains, LoopsWith
  <2>3. i \in Still => i.op \notin {"ret", "again"}
    <3>1. i \in Plain => i.op \notin {"ret", "again"}
      BY PlainOps, BasicOps
    <3> QED
      BY <3>1, SwitchesAre DEF Still, Text, Open, Emits, Keep, Break, Extend
  <2> QED
    BY <1>1, <2>1, <2>2, <2>3
<1>2. CASE i \in Plain
  <2>1. \A s \in Seq(Plain) : s \in Seq(Still)
    <3>1. Plain \subseteq Still
      BY DEF Still, Text, Open
    <3> QED
      BY <3>1, SeqMonotonic
  <2> QED
    BY <1>2, <2>1, PlainOps, BasicOps DEF NodeTags
<1>3. CASE i \in Breakers \cup {TypeArgs, TypeBrackets}
  BY <1>3, SwitchesAre
<1>4. CASE i \in {Keep, Break, Extend} \cup Emits(ClosedTags)
  BY <1>4 DEF Emits, Keep, Break, Extend, NodeTags
<1> QED
  BY <1>1, <1>2, <1>3, <1>4 DEF Item, Still, Text, Open
-----------------------------------------------------------------------------
(* The tokens, and what a step leaves to do.                               *)

LEMMA FileIs ==
    ASSUME src \in Sources
    PROVE  /\ LastPos \in Nat \ {0} /\ LastPos = Len(src.toks) + 1
           /\ DOMAIN src.toks = 1 .. LastPos - 1
           /\ TagAt(LastPos) = "EOFs"
           /\ \A p \in 1 .. LastPos - 1 : TagAt(p) # "EOFs"
<1>1. src.toks \in Seq(STRING \ {"EOFs"})
  BY SourcesAreFiles DEF IsFile
<1>2. Len(src.toks) \in Nat /\ DOMAIN src.toks = 1 .. Len(src.toks)
  BY <1>1, LenProperties
<1>3. TokenAt(LastPos) = "EOFs"
  BY <1>2 DEF LastPos, TokenAt
<1>4. ASSUME NEW p \in 1 .. LastPos - 1 PROVE TokenAt(p) # "EOFs"
  <2>1. p \in DOMAIN src.toks
    BY <1>2 DEF LastPos
  <2>2. src.toks[p] \in STRING \ {"EOFs"}
    BY <1>1, <1>2, <2>1, ElementOfSeq
  <2> QED
    BY <2>1, <2>2 DEF TokenAt
<1> QED
  BY <1>2, <1>3, <1>4 DEF LastPos, TagAt, Tag, Words, Numbers

LEMMA FollowingIs ==
    ASSUME src \in Sources, NEW p \in 1 .. LastPos
    PROVE  /\ Following(p) \in p .. LastPos
           /\ p < LastPos => Following(p) = p + 1
           /\ p = LastPos => Following(p) = p
BY FileIs DEF Following, LastPos

LEMMA SyncIs ==
    ASSUME src \in Sources, pos \in 1 .. LastPos, parser_sync
    PROVE  pos' \in pos .. LastPos /\ TagAt(pos') \in SyncTags
<1> DEFINE stops == {p \in pos .. LastPos : TagAt(p) \in SyncTags}
<1>1. LastPos \in stops /\ stops \in SUBSET Nat
  BY FileIs DEF SyncTags
<1>2. PICK p \in stops : \A q \in stops : p <= q
  <2> HIDE DEF stops
  <2> QED
    BY <1>1, Least
<1>3. \A q \in pos .. p - 1 : TagAt(q) \notin SyncTags
  BY <1>2, FileIs
<1> QED
  BY <1>2, <1>3, FileIs DEF parser_sync, LastPos

LEMMA ShapeIs ==
    ASSUME NEW t, NEW p, Running(t, p)
    PROVE  /\ t \in Seq(Item) /\ Len(t) \in Nat
           /\ Len(t) = 1 => Bottom(t[1]) /\ t[1].op \in {"loop", "again"}
           /\ Len(t) > 1 => t[Len(t)].op = "again" /\ Bottom(t[Len(t)]) /\ t[Len(t) - 1] = Keep
           /\ Len(t) = 2 => t[1].op = "keep"
           /\ Len(t) = 3 => t[1].op \in {"call", "ret"}
           /\ Len(t) > 3 => t[Len(t) - 2].op = "ret"
<1>1. t \in Seq(Item) /\ Len(t) \in Nat
  BY LenProperties DEF Running
<1>2. Shape(t)
  BY DEF Running
<1>3. Keep.op = "keep" /\ Call("stmt").op = "call"
  BY DEF Keep, Call
<1>4. Len(t) = 1 => Bottom(t[1])
  BY <1>2 DEF Shape
<1>5. Len(t) > 1 => t[Len(t)].op = "again" /\ Bottom(t[Len(t)]) /\ t[Len(t) - 1] = Keep
  BY <1>1, <1>2 DEF Shape
<1>6. Len(t) > 3 => t[Len(t) - 2].op = "ret"
  BY <1>1, <1>2 DEF Shape
<1>7. Len(t) = 3 => t[1].op \in {"call", "ret"}
  <2>1. Len(t) = 3 => t[1] = Call("stmt") \/ t[3 - 2].op = "ret"
    BY <1>2 DEF Shape
  <2> QED
    BY <1>3, <2>1
<1>8. Len(t) = 2 => t[1].op = "keep"
  <2>1. Len(t) = 2 => t[2 - 1] = Keep
    BY <1>5
  <2> QED
    BY <1>3, <2>1
<1> QED
  BY <1>1, <1>4, <1>5, <1>6, <1>7, <1>8 DEF Bottom

\* The first instructions are done.
LEMMA CutRuns ==
    ASSUME NEW t, NEW p \in Nat, NEW q \in Nat, p <= q, Running(t, p), NEW m \in 1 .. Len(t)
    PROVE  Running(Splice(t, m, <<>>), q)
<1> DEFINE r == Splice(t, m, <<>>)
<1>1. t \in Seq(Item) /\ m \in 0 .. Len(t) /\ Len(t) \in Nat
  BY LenProperties DEF Running
<1>2. /\ r \in Seq(Item) /\ Len(r) \in Nat /\ Len(r) = Len(t) - m
  BY <1>1, CutIs
<1>6. \A k \in 1 .. Len(r) : r[k] = t[k + m] /\ k + m \in 1 .. Len(t)
  BY <1>1, CutIs
<1>7. \A k \in m + 1 .. Len(t) : r[k - m] = t[k] /\ k - m \in 1 .. Len(r)
  BY <1>1, CutIs
<1> HIDE DEF r
<1>3. Timely(r, q)
  <2> SUFFICES ASSUME NEW k \in 1 .. Len(r), r[k].op \in {"ret", "again"}
               PROVE  r[k].from <= q
    BY DEF Timely
  <2>1. t[k + m].from <= p /\ t[k + m] \in Item /\ r[k] = t[k + m]
    BY <1>1, <1>2, <1>6, ElementOfSeq DEF Running, Timely
  <2>2. t[k + m].from \in Nat
    BY <2>1, ItemOps DEF Rets, Agains, LoopsWith
  <2> QED
    BY <2>1, <2>2
<1>4. Framed(r)
  <2> SUFFICES ASSUME NEW k \in 1 .. Len(r), ~Free(r[k])
               PROVE  \E j \in k + 1 .. Len(r) : r[j].op = "ret"
    BY DEF Framed
  <2>1. r[k] = t[k + m] /\ k + m \in 1 .. Len(t)
    BY <1>2, <1>6
  <2>2. PICK j \in (k + m) + 1 .. Len(t) : t[j].op = "ret"
    BY <1>1, <2>1 DEF Running, Framed
  <2>3. j - m \in k + 1 .. Len(r) /\ j \in m + 1 .. Len(t)
    <3>1. m \in Nat /\ Len(t) \in Nat /\ Len(r) = Len(t) - m
      BY <1>1, <1>2
    <3> QED
      BY <3>1
  <2> QED
    BY <1>7, <2>2, <2>3
<1>5. Shape(r)
  <2>1. CASE Len(r) = 0
    BY <2>1 DEF Shape
  <2>2. CASE Len(r) # 0
    <3>1. Len(t) > 1 /\ Len(r) \in 1 .. Len(r) /\ Len(r) + m = Len(t)
      BY <1>1, <1>2, <2>2
    <3>2. t[Len(t)].op = "again" /\ Bottom(t[Len(t)]) /\ t[Len(t) - 1] = Keep
      BY <1>1, <3>1 DEF Running, Shape
    <3>3. r[Len(r)] = t[Len(t)]
      BY <1>6, <3>1
    <3>4. CASE Len(r) = 1
      BY <3>2, <3>3, <3>4 DEF Shape
    <3>5. CASE Len(r) > 1
      <4>1. Len(r) - 1 \in 1 .. Len(r) /\ Len(r) - 1 + m = Len(t) - 1
        BY <1>1, <1>2, <3>1, <3>5
      <4>2. r[Len(r) - 1] = t[Len(t) - 1]
        BY <1>6, <4>1
      <4>3. CASE Len(r) = 2
        BY <3>2, <3>3, <4>2, <4>3 DEF Shape
      <4>4. CASE Len(r) > 2
        <5>1. Len(r) - 2 \in 1 .. Len(r) /\ Len(r) - 2 + m = Len(t) - 2 /\ Len(t) > 3
          BY <1>1, <1>2, <3>1, <4>4
        <5>2. r[Len(r) - 2] = t[Len(t) - 2]
          BY <1>6, <5>1
        <5>3. t[Len(t) - 2].op = "ret"
          BY <5>1, ShapeIs
        <5> QED
          BY <3>2, <3>3, <4>2, <4>4, <5>2, <5>3 DEF Shape
      <4> QED
        BY <1>2, <3>5, <4>3, <4>4
    <3> QED
      BY <1>2, <2>2, <3>4, <3>5
  <2> QED
    BY <2>1, <2>2
<1> QED
  BY <1>2, <1>3, <1>4, <1>5 DEF r, Running

\* The first m instructions give way to those of c.
LEMMA PutRuns ==
    ASSUME NEW t, NEW p \in Nat, NEW q \in Nat, p <= q, Running(t, p), NEW m \in 1 .. Len(t),
           NEW c \in Seq(Item), Timely(c, q),
           m <= Len(t) - 3 \/ (m = Len(t) - 2 /\ Len(c) > 0 /\ c[Len(c)].op = "ret"),
           Followed(c, t, m)
    PROVE  Running(Splice(t, m, c), q)
<1> DEFINE r == Splice(t, m, c)
           d == Len(c)
<1>1. t \in Seq(Item) /\ m \in 0 .. Len(t) /\ d \in Nat /\ Len(t) \in Nat
     
  BY LenProperties DEF Running
<1>2. /\ r \in Seq(Item) /\ Len(r) \in Nat /\ Len(r) = d + Len(t) - m
      /\ \A k \in 1 .. d : r[k] = c[k]
  BY <1>1, SpliceIs
<1>6. \A k \in d + 1 .. Len(r) : r[k] = t[k - d + m] /\ k - d + m \in 1 .. Len(t)
  BY <1>1, SpliceIs
<1>7. \A k \in m + 1 .. Len(t) : r[k - m + d] = t[k] /\ k - m + d \in 1 .. Len(r)
  BY <1>1, SpliceIs
<1> HIDE DEF r, d
<1>3. Timely(r, q)
  <2> SUFFICES ASSUME NEW k \in 1 .. Len(r), r[k].op \in {"ret", "again"}
               PROVE  r[k].from <= q
    BY DEF Timely
  <2>1. CASE k <= d
    <3>1. k \in 1 .. d /\ r[k] = c[k]
      BY <1>1, <1>2, <2>1
    <3>2. \A l \in 1 .. d : c[l].op \in {"ret", "again"} => c[l].from <= q
      BY DEF Timely, d
    <3> QED
      BY <3>1, <3>2
  <2>2. CASE k > d
    <3>1. k \in d + 1 .. Len(r)
      BY <1>1, <1>2, <2>2
    <3>2. PICK l \in 1 .. Len(t) : r[k] = t[l]
      BY <1>6, <3>1
    <3>3. t[l].from <= p /\ t[l] \in Item
      BY <1>1, <3>2, ElementOfSeq DEF Running, Timely
    <3>4. t[l].from \in Nat
      BY <3>2, <3>3, ItemOps DEF Rets, Agains, LoopsWith
    <3> QED
      BY <3>2, <3>3, <3>4
  <2>3. k <= d \/ k > d
    BY <1>1
  <2> QED
    BY <2>1, <2>2, <2>3
<1>4. Framed(r)
  <2> SUFFICES ASSUME NEW k \in 1 .. Len(r), ~Free(r[k])
               PROVE  \E j \in k + 1 .. Len(r) : r[j].op = "ret"
    BY DEF Framed
  <2>1. CASE k <= d
    <3>1. k \in 1 .. d /\ r[k] = c[k]
      BY <1>1, <1>2, <2>1
    <3>2. ASSUME NEW j \in k + 1 .. d, c[j].op = "ret" PROVE r[j].op = "ret" /\ j \in k + 1 .. Len(r)
      <4>1. m \in Nat /\ d \in Nat /\ Len(t) \in Nat /\ m <= Len(t) /\ Len(r) = d + Len(t) - m
        BY <1>1, <1>2
      <4>2. j \in 1 .. d
        BY <3>1
      <4>3. j \in k + 1 .. Len(r)
        BY <4>1
      <4> QED
        BY <1>2, <3>2, <4>2, <4>3
    <3>3. ASSUME NEW j \in m + 1 .. Len(t), t[j].op = "ret"
          PROVE  \E l \in k + 1 .. Len(r) : r[l].op = "ret"
      <4>1. r[j - m + d] = t[j] /\ j - m + d \in 1 .. Len(r)
        BY <1>7
      <4>2. j - m + d \in k + 1 .. Len(r)
        BY <1>1, <3>1, <4>1
      <4> QED
        BY <3>3, <4>1, <4>2
    <3> QED
      BY <3>1, <3>2, <3>3 DEF Followed, d
  <2>2. CASE k > d
    <3>1. r[k] = t[k - d + m] /\ k - d + m \in 1 .. Len(t)
      BY <1>1, <1>2, <1>6, <2>2
    <3>2. PICK j \in (k - d + m) + 1 .. Len(t) : t[j].op = "ret"
      BY <1>1, <3>1 DEF Running, Framed
    <3>3. j \in m + 1 .. Len(t)
      <4>1. m \in Nat /\ d \in Nat /\ Len(t) \in Nat
        BY <1>1
      <4> QED
        BY <2>2, <4>1
    <3>4. r[j - m + d] = t[j] /\ j - m + d \in 1 .. Len(r)
      BY <1>7, <3>3
    <3>5. j - m + d \in k + 1 .. Len(r)
      BY <1>1, <2>2, <3>1, <3>2, <3>4
    <3> QED
      BY <3>2, <3>4, <3>5
  <2>3. k <= d \/ k > d
    BY <1>1
  <2> QED
    BY <2>1, <2>2, <2>3
<1>5. Shape(r)
  <2>1. Len(t) > 2 /\ m <= Len(t) - 2
    BY <1>1
  <2>2. t[Len(t)].op = "again" /\ Bottom(t[Len(t)]) /\ t[Len(t) - 1] = Keep
    BY <1>1, <2>1 DEF Running, Shape
  <2>3. /\ Len(t) \in m + 1 .. Len(t) /\ Len(t) - m + d = Len(r)
        /\ Len(t) - 1 \in m + 1 .. Len(t) /\ (Len(t) - 1) - m + d = Len(r) - 1
        /\ Len(r) > 1
    BY <1>1, <1>2, <2>1
  <2>4. r[Len(r)] = t[Len(t)] /\ r[Len(r) - 1] = t[Len(t) - 1]
    BY <1>7, <2>3
  <2>7. ASSUME Len(r) > 2, r[Len(r) - 2].op = "ret" PROVE Shape(r)
    <3>1. r[Len(r)].op = "again" /\ Bottom(r[Len(r)]) /\ r[Len(r) - 1] = Keep /\ Len(r) > 1
      BY <2>2, <2>3, <2>4
    <3> QED
      BY <2>7, <3>1 DEF Shape
  <2>5. CASE m <= Len(t) - 3
    <3>1. Len(t) - 2 \in m + 1 .. Len(t) /\ (Len(t) - 2) - m + d = Len(r) - 2 /\ Len(t) > 3
          /\ Len(r) > 2
      BY <1>1, <1>2, <2>5
    <3>2. r[Len(r) - 2] = t[Len(t) - 2]
      BY <1>7, <3>1
    <3>3. t[Len(t) - 2].op = "ret"
      BY <3>1, ShapeIs
    <3> QED
      BY <2>7, <3>1, <3>2, <3>3
  <2>6. CASE m = Len(t) - 2 /\ d > 0 /\ c[d].op = "ret"
    <3>1. d > 0 /\ d \in 1 .. d
      BY <1>1, <2>6
    <3>2. Len(r) - 2 = d /\ Len(r) > 2
      BY <1>1, <1>2, <2>6, <3>1
    <3>3. r[d] = c[d]
      BY <1>2, <3>1
    <3> QED
      BY <2>6, <2>7, <3>2, <3>3
  <2> QED
    BY <2>5, <2>6 DEF d
<1> QED
  BY <1>2, <1>3, <1>4, <1>5 DEF r, Running
-----------------------------------------------------------------------------
(* The parser stays within the file.                                       *)

LEMMA Init1 == Init => TypeInv
<1> SUFFICES ASSUME Init PROVE TypeInv
  OBVIOUS
<1> DEFINE main == Guarded({}, "body")
<1>1. main \in Basic /\ main.op = "loop" /\ main.from = 0 /\ main.body = "body"
  BY LoopsAre, NamesIn DEF Basic, Guarded, Until, Loop
<1>2. Bottom(main)
  BY DEF Bottom, Guarded, Until, Loop
<1> HIDE DEF main
<1>3. main \in Item /\ Free(main)
  BY <1>1, LevelsUp DEF Item, Still, Text, Open, Free
<1>4. todo = <<main>> /\ todo \in Seq(Item) /\ Len(todo) = 1 /\ todo[1] = main
  BY <1>3 DEF Init, main
<1>5. Running(todo, 1)
  <2>1. \A k \in 1 .. Len(todo) : todo[k] = main
    BY <1>4
  <2>2. Timely(todo, 1) /\ Framed(todo)
    BY <1>1, <1>3, <2>1 DEF Timely, Framed
  <2>3. Shape(todo)
    BY <1>2, <1>4 DEF Shape
  <2> QED
    BY <1>4, <2>2, <2>3 DEF Running
<1>6. 1 \in 1 .. LastPos
  BY FileIs DEF Init
<1>7. Placed(out, 1)
  BY DEF Init, Placed
<1> QED
  BY <1>5, <1>6, <1>7 DEF Init, TypeInv

\* Only the loop of main runs with less to do than this.
LEMMA Deep ==
    ASSUME NEW t, NEW p, Running(t, p), t # <<>>, ~Free(t[1])
    PROVE  Len(t) > 3 /\ \E j \in 2 .. Len(t) - 2 : t[j].op = "ret"
<1>1. t \in Seq(Item) /\ Len(t) \in Nat
  BY LenProperties DEF Running
<1>2. Len(t) > 0
  BY <1>1, EmptySeq
<1>3. PICK j \in 2 .. Len(t) : t[j].op = "ret"
  BY <1>1, <1>2 DEF Running, Framed
<1>4. t[Len(t)].op = "again" /\ t[Len(t) - 1] = Keep
  BY <1>1, <1>2, <1>3 DEF Running, Shape
<1>5. j # Len(t) /\ j # Len(t) - 1
  BY <1>3, <1>4 DEF Keep
<1>6. j \in 2 .. Len(t) - 2
  BY <1>1, <1>3, <1>5
<1> QED
  BY <1>1, <1>3, <1>6

\* The first instruction gives way to instructions of the same function.
LEMMA ThenRuns ==
    ASSUME NEW t, NEW p \in Nat, NEW q \in Nat, p <= q, Running(t, p), t # <<>>, ~Free(t[1]),
           NEW c \in Seq(Item), \A k \in 1 .. Len(c) : c[k].op = "again" => c[k].from <= q,
           \A k \in 1 .. Len(c) : c[k].op # "ret"
    PROVE  Running(Splice(t, 1, c), q)
<1>1. PICK j \in 2 .. Len(t) - 2 : t[j].op = "ret"
  BY Deep
<1>2. Len(t) > 3 /\ Len(t) \in Nat
  BY Deep, LenProperties DEF Running
<1>3. Timely(c, q)
  BY DEF Timely
<1>4. j \in 1 + 1 .. Len(t)
  BY <1>2
<1>5. Followed(c, t, 1)
  BY <1>1, <1>4 DEF Followed
<1>6. 1 \in 1 .. Len(t) /\ 1 <= Len(t) - 3
  BY <1>2
<1> QED
  BY <1>3, <1>5, <1>6, PutRuns

LEMMA ThenIs ==
    ASSUME NEW c, todo \in Seq(Item), todo # <<>>, Then(c)
    PROVE  todo' = Splice(todo, 1, c)
BY TailSplice DEF Then

LEMMA StillIs ==
    ASSUME NEW c \in Seq(Still)
    PROVE  c \in Seq(Item) /\ \A k \in 1 .. Len(c) : c[k].op \notin {"ret", "again"}
<1>1. Still \subseteq Item
  BY DEF Item
<1>2. c \in Seq(Item) /\ \A k \in 1 .. Len(c) : c[k] \in Still
  BY <1>1, SeqMonotonic, ElementOfSeq
<1> QED
  BY <1>1, <1>2, ItemOps

LEMMA CodeStill == \A f \in Names : Code[f] \in Seq(Still)
<1>1. Text \subseteq Still
  BY DEF Still
<1> QED
  BY <1>1, TextCode, SeqMonotonic

\* The step of an instruction that makes way for code.
LEMMA StillRuns ==
    ASSUME TypeInv, todo # <<>>, ~Free(todo[1]), NEW c \in Seq(Still), Then(c),
           pos' \in pos .. LastPos
    PROVE  Running(todo', pos')
<1>1. pos \in Nat /\ pos' \in Nat /\ pos <= pos' /\ Running(todo, pos) /\ todo \in Seq(Item)
  BY FileIs DEF TypeInv, Running
<1>2. c \in Seq(Item) /\ \A k \in 1 .. Len(c) : c[k].op \notin {"ret", "again"}
  BY StillIs
<1>3. Running(Splice(todo, 1, c), pos')
  BY <1>1, <1>2, ThenRuns
<1> QED
  BY <1>1, <1>3, ThenIs

\* Something is first to do, and its name says what it is.
LEMMA HeadIs ==
    ASSUME TypeInv, todo # <<>>
    PROVE  todo[1] \in Item /\ Len(todo) \in Nat \ {0} /\ todo \in Seq(Item)
<1>1. todo \in Seq(Item)
  BY DEF TypeInv, Running
<1>2. Len(todo) \in Nat \ {0}
  BY <1>1, EmptySeq, LenProperties
<1> QED
  BY <1>1, <1>2, ElementOfSeq

\* The first case that holds is taken, or the default.
LEMMA ChooseIs ==
    ASSUME TypeInv, Choose
    PROVE  /\ todo # <<>> /\ todo[1] \in Item /\ todo[1].op = "switch"
           /\ \E c \in Seq(Still) :
                 /\ Then(c)
                 /\ \/ c = todo[1].default /\ \A j \in DOMAIN todo[1].cases : ~Holds(todo[1].cases[j].test)
                    \/ \E i \in DOMAIN todo[1].cases :
                          /\ c = todo[1].cases[i].code /\ Holds(todo[1].cases[i].test)
                          /\ \A j \in DOMAIN todo[1].cases : Holds(todo[1].cases[j].test) => i <= j
<1> DEFINE cases == todo[1].cases
           taken == {i \in DOMAIN cases : Holds(cases[i].test)}
           i == CHOOSE i \in taken : \A j \in taken : i <= j
<1>1. todo # <<>> /\ todo[1].op = "switch" /\ todo[1] \in Item
  BY HeadIs DEF Choose, At
<1>2. /\ todo[1].default \in Seq(Still) /\ DOMAIN cases \in SUBSET Nat
      /\ \A c \in DOMAIN cases : cases[c].code \in Seq(Still)
  <2> HIDE DEF taken, i
  <2>1. /\ todo[1].default \in Seq(Still) /\ DOMAIN todo[1].cases \in SUBSET Nat
        /\ \A c \in DOMAIN todo[1].cases :
              todo[1].cases[c].test \in Tests /\ todo[1].cases[c].code \in Seq(Still)
    BY <1>1, ItemOps, SMTT(30)
  <2> QED
    BY <2>1, Zenon
<1>3. Then(IF taken = {} THEN todo[1].default ELSE cases[i].code)
  BY DEF Choose
<1>4. CASE taken = {}
  <2>1. \A j \in DOMAIN cases : ~Holds(cases[j].test)
    BY <1>4
  <2> QED
    BY <1>1, <1>2, <1>3, <1>4, <2>1
<1>5. CASE taken # {}
  <2>1. taken \in SUBSET Nat /\ taken \subseteq DOMAIN cases
    BY <1>2
  <2>2. i \in taken /\ \A j \in taken : i <= j
    <3> HIDE DEF taken
    <3>1. \E k \in taken : \A j \in taken : k <= j
      BY <1>5, <2>1, Least
    <3> QED
      BY <3>1
  <2>3. cases[i].code \in Seq(Still) /\ i \in DOMAIN cases
    <3> HIDE DEF i, taken
    <3> QED
      BY <1>2, <2>1, <2>2
  <2>4. Holds(cases[i].test) /\ \A j \in DOMAIN cases : Holds(cases[j].test) => i <= j
    <3> HIDE DEF i
    <3> QED
      BY <2>2, ZenonT(30)
  <2>5. Then(cases[i].code)
    BY <1>3, <1>5
  <2> HIDE DEF i
  <2> QED
    BY <1>1, <2>3, <2>4, <2>5, SMTT(30)
<1> QED
  BY <1>4, <1>5

LEMMA IfIs ==
    ASSUME TypeInv, Choose, NEW t, NEW yes, NEW no, todo[1] = If(t, yes, no)
    PROVE  (Holds(t) /\ Then(yes)) \/ (~Holds(t) /\ Then(no))
<1>1. /\ DOMAIN todo[1].cases = {1} /\ todo[1].cases[1].test = t /\ todo[1].cases[1].code = yes
      /\ todo[1].default = no
  BY DEF If, Switch, When
<1>2. PICK c :
          /\ Then(c)
          /\ \/ c = todo[1].default /\ \A j \in DOMAIN todo[1].cases : ~Holds(todo[1].cases[j].test)
             \/ \E i \in DOMAIN todo[1].cases :
                   c = todo[1].cases[i].code /\ Holds(todo[1].cases[i].test)
  BY ChooseIs
<1>3. CASE c = todo[1].default /\ \A j \in DOMAIN todo[1].cases : ~Holds(todo[1].cases[j].test)
  <2>1. ~Holds(todo[1].cases[1].test) /\ c = no
    BY <1>1, <1>3
  <2>2. ~Holds(t) /\ Then(no)
    BY <1>1, <1>2, <2>1, Zenon
  <2> QED
    BY <2>2
<1>4. CASE \E i \in DOMAIN todo[1].cases : c = todo[1].cases[i].code /\ Holds(todo[1].cases[i].test)
  <2>1. Holds(todo[1].cases[1].test) /\ c = todo[1].cases[1].code
    BY <1>1, <1>4
  <2>2. Holds(t) /\ Then(yes)
    BY <1>1, <1>2, <2>1, Zenon
  <2> QED
    BY <2>2
<1> QED
  BY <1>2, <1>3, <1>4

LEMMA NothingRuns ==
    ASSUME TypeInv, todo # <<>>, Then(<<>>), pos' \in pos .. LastPos
    PROVE  Running(todo', pos')
<1>1. pos \in Nat /\ pos' \in Nat /\ pos <= pos' /\ Running(todo, pos) /\ 1 \in 1 .. Len(todo)
  BY HeadIs, FileIs DEF TypeInv
<1>2. Running(Splice(todo, 1, <<>>), pos')
  BY <1>1, CutRuns
<1> QED
  BY <1>2, HeadIs, ThenIs

\* A function is entered.
LEMMA EnterRuns ==
    ASSUME TypeInv, todo # <<>>, todo[1].op \in {"call", "expr"}, NEW c \in Seq(Still), Enter(c),
           pos' = pos
    PROVE  Running(todo', pos')
<1> DEFINE mark == [op |-> "ret", from |-> pos]
           d == Append(c, mark)
<1>1. pos \in Nat \ {0} /\ Running(todo, pos) /\ todo \in Seq(Item) /\ Len(todo) \in Nat \ {0}
  BY HeadIs, FileIs DEF TypeInv
<1>2. mark \in Item /\ mark.op = "ret" /\ mark.from = pos
  BY <1>1 DEF Rets, Item
<1>3. /\ c \in Seq(Item) /\ Len(c) \in Nat
      /\ \A k \in 1 .. Len(c) : c[k].op \notin {"ret", "again"}
  BY StillIs, LenProperties
<1> HIDE DEF mark
<1>4. /\ d \in Seq(Item) /\ Len(d) = Len(c) + 1
      /\ \A k \in 1 .. Len(c) : d[k] = c[k]
      /\ d[Len(c) + 1] = mark
  BY <1>2, <1>3, AppendProperties
<1> HIDE DEF d
<1>5. Timely(d, pos)
  <2> SUFFICES ASSUME NEW k \in 1 .. Len(d), d[k].op \in {"ret", "again"}
               PROVE  d[k].from <= pos
    BY DEF Timely
  <2>1. k = Len(c) + 1
    BY <1>3, <1>4
  <2> QED
    BY <1>1, <1>2, <1>4, <2>1
<1>6. Followed(d, todo, 1)
  <2> SUFFICES ASSUME NEW k \in 1 .. Len(d), ~Free(d[k])
               PROVE  \E j \in k + 1 .. Len(d) : d[j].op = "ret"
    BY DEF Followed
  <2>1. k # Len(c) + 1
    BY <1>2, <1>4 DEF Free
  <2>2. Len(c) + 1 \in k + 1 .. Len(d)
    BY <1>3, <1>4, <2>1
  <2> QED
    BY <1>2, <1>4, <2>2
<1>7. 1 <= Len(todo) - 3 \/ (1 = Len(todo) - 2 /\ Len(d) > 0 /\ d[Len(d)].op = "ret")
  <2>1. Len(todo) # 1
    BY <1>1, ShapeIs
  <2>2. Len(todo) # 2
    BY <1>1, ShapeIs
  <2>3. Len(d) > 0 /\ d[Len(d)].op = "ret"
    BY <1>2, <1>3, <1>4
  <2>4. Len(todo) \in Nat /\ Len(todo) # 0
    BY <1>1
  <2>5. ASSUME NEW n \in Nat, n # 0, n # 1, n # 2 PROVE 1 <= n - 3 \/ 1 = n - 2
    BY <2>5
  <2> QED
    BY <2>1, <2>2, <2>3, <2>4, <2>5
<1>8. 1 \in 1 .. Len(todo)
  BY <1>1
<1>9. Running(Splice(todo, 1, d), pos)
  <2>1. pos \in Nat /\ pos <= pos /\ Running(todo, pos) /\ d \in Seq(Item)
    BY <1>1, <1>4
  <2> QED
    BY <1>5, <1>6, <1>7, <1>8, <2>1, PutRuns
<1>10. Then(d)
  BY DEF Enter, d, mark
<1> QED
  BY <1>1, <1>9, <1>10, ThenIs

\* A loop that is not the one of main has more than main's under it, and so has
\* one of statements within a function.
LEMMA LoopDeep ==
    ASSUME NEW t, NEW p, Running(t, p), Len(t) > 1, t[1].op \in {"loop", "again"}
    PROVE  Len(t) > 3
<1>1. Len(t) \in Nat /\ Len(t) # 2 /\ Len(t) # 3
  BY ShapeIs
<1>2. ASSUME NEW n \in Nat, n > 1, n # 2, n # 3 PROVE n > 3
  BY <1>2
<1> QED
  BY <1>1, <1>2

LEMMA TestLoopRuns ==
    ASSUME TypeInv, TestLoop
    PROVE  Running(todo', pos)
<1> DEFINE loop == todo[1]
           mark == [loop EXCEPT !.op = "again", !.from = pos]
           c == Append(Code[loop.body], mark)
<1>1. /\ pos \in Nat \ {0} /\ Running(todo, pos) /\ todo \in Seq(Item) /\ Len(todo) \in Nat \ {0}
      /\ todo # <<>> /\ loop.op = "loop" /\ loop \in Loops /\ pos <= LastPos /\ pos' = pos
  BY HeadIs, ItemOps, FileIs DEF TypeInv, TestLoop, At
<1>2. CASE Then(<<>>)
  <2>1. pos' \in pos .. LastPos
    BY <1>1, FileIs DEF TypeInv
  <2>2. Running(todo', pos')
    BY <1>1, <1>2, <2>1, NothingRuns
  <2> QED
    BY <1>1, <2>2
<1>3. CASE Then(c)
  <2>1. /\ mark \in Agains /\ mark.op = "again" /\ mark.from = pos /\ mark.body = loop.body
        /\ loop.body \in Names
    BY <1>1 DEF Loops, Agains, LoopsWith
  <2>2. mark \in Item
    BY <2>1 DEF Item
  <2>3. Bottom(loop) => Bottom(mark)
    BY <1>1 DEF Bottom, Loops, LoopsWith
  <2> HIDE DEF mark
  <2>4. /\ Code[loop.body] \in Seq(Item) /\ Len(Code[loop.body]) \in Nat
        /\ \A k \in 1 .. Len(Code[loop.body]) : Code[loop.body][k].op \notin {"ret", "again"}
    BY <2>1, CodeStill, StillIs, LenProperties
  <2>5. /\ c \in Seq(Item) /\ Len(c) = Len(Code[loop.body]) + 1
        /\ \A k \in 1 .. Len(Code[loop.body]) : c[k] = Code[loop.body][k]
        /\ c[Len(Code[loop.body]) + 1] = mark
    BY <2>2, <2>4, AppendProperties
  <2>6. todo' = Splice(todo, 1, c)
    BY <1>1, <1>3, ThenIs
  <2>7. CASE ~Free(loop)
    <3> HIDE DEF c
    <3>1. /\ \A k \in 1 .. Len(c) : c[k].op = "again" => c[k].from <= pos
          /\ \A k \in 1 .. Len(c) : c[k].op # "ret"
      <4> SUFFICES ASSUME NEW k \in 1 .. Len(c)
                   PROVE  (c[k].op = "again" => c[k].from <= pos) /\ c[k].op # "ret"
        OBVIOUS
      <4> DEFINE s == Code[loop.body]
      <4>1. /\ Len(s) \in Nat /\ Len(c) = Len(s) + 1 /\ c[Len(s) + 1] = mark
            /\ \A l \in 1 .. Len(s) : c[l] = s[l] /\ s[l].op \notin {"ret", "again"}
        BY <2>4, <2>5
      <4>2. mark.op = "again" /\ mark.from <= pos
        BY <1>1, <2>1
      <4> HIDE DEF s
      <4>3. k \in 1 .. Len(s) \/ k = Len(s) + 1
        BY <4>1
      <4> QED
        BY <4>1, <4>2, <4>3
    <3>2. Running(Splice(todo, 1, c), pos)
      <4>1. /\ pos \in Nat /\ pos <= pos /\ Running(todo, pos) /\ c \in Seq(Item) /\ todo # <<>>
            /\ ~Free(todo[1])
        BY <1>1, <2>5, <2>7
      <4> QED
        BY <3>1, <4>1, ThenRuns
    <3> QED
      BY <2>6, <3>2
  <2>8. CASE Free(loop)
    <3>1. loop.body = "body"
      BY <1>1, <2>8 DEF Free
    <3>2. Code[loop.body] = <<Call("stmt"), Keep>>
      BY <3>1, CodeIs DEF Stmt
    <3>3. Len(c) = 3 /\ c[1] = Call("stmt") /\ c[2] = Keep /\ c[3] = mark
      <4> HIDE DEF c
      <4>1. Len(Code[loop.body]) = 2 /\ Code[loop.body][1] = Call("stmt") /\ Code[loop.body][2] = Keep
        BY <3>2
      <4> QED
        BY <2>5, <4>1
    <3> HIDE DEF c
    <3>4. \A k \in 1 .. Len(c) : k = 1 \/ k = 2 \/ k = 3
      BY <3>3
    <3>5. Timely(c, pos) /\ Followed(c, todo, 1)
      BY <1>1, <2>1, <3>1, <3>3, <3>4 DEF Timely, Followed, Free, Call, Keep
    <3>6. CASE Len(todo) > 1
      <4>1. Len(todo) > 3
        BY <1>1, <3>6, LoopDeep
      <4>2. 1 <= Len(todo) - 3 /\ 1 \in 1 .. Len(todo)
        BY <1>1, <4>1
      <4>3. pos \in Nat /\ pos <= pos /\ Running(todo, pos) /\ c \in Seq(Item)
        BY <1>1, <2>5
      <4>4. Running(Splice(todo, 1, c), pos)
        BY <3>5, <4>2, <4>3, PutRuns
      <4> QED
        BY <2>6, <4>4
    <3>7. CASE Len(todo) = 1
      <4>1. Bottom(loop)
        BY <1>1, <3>7, ShapeIs
      <4>2. 1 \in 0 .. Len(todo)
        BY <1>1
      <4>3. /\ todo' \in Seq(Item) /\ Len(todo') = Len(c) + Len(todo) - 1
            /\ \A k \in 1 .. Len(c) : todo'[k] = c[k]
        <5>1. todo \in Seq(Item) /\ c \in Seq(Item)
          BY <1>1, <2>5
        <5> QED
          BY <2>6, <4>2, <5>1, SpliceIs
      <4>4. Len(todo') = 3 /\ todo'[1] = c[1] /\ todo'[2] = c[2] /\ todo'[3] = c[3]
        BY <3>3, <3>7, <4>3
      <4>5. Timely(todo', pos) /\ Framed(todo')
        <5>1. \A k \in 1 .. Len(todo') : k = 1 \/ k = 2 \/ k = 3
          BY <4>4
        <5> QED
          BY <1>1, <2>1, <3>1, <3>3, <4>4, <5>1 DEF Timely, Framed, Free, Call, Keep
      <4>6. Shape(todo')
        BY <2>1, <2>3, <3>3, <4>1, <4>4 DEF Shape
      <4> QED
        BY <4>3, <4>5, <4>6 DEF Running
    <3>8. Len(todo) = 1 \/ Len(todo) > 1
      BY <1>1, OneOrMore, Zenon
    <3> QED
      BY <3>6, <3>7, <3>8
  <2> QED
    BY <2>7, <2>8
<1> QED
  BY <1>2, <1>3 DEF TestLoop

LEMMA EndIterationRuns ==
    ASSUME TypeInv, EndIteration
    PROVE  pos' \in pos .. LastPos /\ Running(todo', pos')
<1> DEFINE mark == todo[1]
           loop == [mark EXCEPT !.op = "loop", !.from = 0]
           c == <<loop>>
<1>1. /\ pos \in Nat \ {0} /\ Running(todo, pos) /\ todo \in Seq(Item) /\ Len(todo) \in Nat \ {0}
      /\ todo # <<>> /\ mark.op = "again" /\ mark \in Agains
  BY HeadIs, ItemOps, FileIs DEF TypeInv, EndIteration, At
<1>2. pos' \in pos .. LastPos /\ pos' \in Nat /\ pos <= pos'
  BY <1>1, FollowingIs, FileIs DEF EndIteration, TypeInv
<1>3. loop \in Loops /\ loop.op = "loop" /\ loop.body = mark.body
  BY <1>1 DEF Loops, Agains, LoopsWith
<1>4. Bottom(mark) => Bottom(loop)
  BY <1>1 DEF Bottom, Agains, LoopsWith
<1>5. Then(c)
  BY DEF EndIteration
<1> HIDE DEF loop
<1>6. loop \in Item
  BY <1>3, LevelsUp DEF Basic, Item, Still, Text, Open
<1>7. c \in Seq(Item) /\ Len(c) = 1 /\ c[1] = loop
  BY <1>6
<1>8. todo' = Splice(todo, 1, c)
  BY <1>1, <1>5, ThenIs
<1> HIDE DEF c
<1>9. CASE ~Free(mark)
  <2>1. \A k \in 1 .. Len(c) : c[k].op = "loop"
    BY <1>3, <1>7
  <2> QED
    BY <1>1, <1>2, <1>7, <1>8, <1>9, <2>1, ThenRuns
<1>10. CASE Free(mark)
  <2>1. Free(loop)
    BY <1>1, <1>3, <1>10 DEF Free
  <2>2. \A k \in 1 .. Len(c) : c[k] = loop
    BY <1>7
  <2>3. Timely(c, pos') /\ Followed(c, todo, 1)
    BY <1>3, <2>1, <2>2 DEF Timely, Followed
  <2>4. CASE Len(todo) > 1
    <3>1. Len(todo) > 3
      BY <1>1, <2>4, LoopDeep
    <3>2. 1 <= Len(todo) - 3 /\ 1 \in 1 .. Len(todo)
      BY <1>1, <3>1
    <3>3. pos \in Nat /\ pos' \in Nat /\ pos <= pos' /\ Running(todo, pos) /\ c \in Seq(Item)
      BY <1>1, <1>2, <1>7
    <3>4. Running(Splice(todo, 1, c), pos')
      BY <2>3, <3>2, <3>3, PutRuns
    <3> QED
      BY <1>2, <1>8, <3>4
  <2>5. CASE Len(todo) = 1
    <3>1. Bottom(mark)
      BY <1>1, <2>5, ShapeIs
    <3>2. 1 \in 0 .. Len(todo)
      BY <1>1
    <3>3. /\ todo' \in Seq(Item) /\ Len(todo') = Len(c) + Len(todo) - 1
          /\ \A k \in 1 .. Len(c) : todo'[k] = c[k]
      <4>1. todo \in Seq(Item) /\ c \in Seq(Item)
        BY <1>1, <1>7
      <4> QED
        BY <1>8, <3>2, <4>1, SpliceIs
    <3>4. Len(todo') = 1 /\ todo'[1] = loop /\ \A k \in 1 .. Len(todo') : todo'[k] = loop
      BY <1>7, <2>5, <3>3
    <3>5. Timely(todo', pos') /\ Framed(todo')
      BY <1>3, <2>1, <3>4 DEF Timely, Framed
    <3>6. Shape(todo')
      BY <1>4, <3>1, <3>4 DEF Shape
    <3> QED
      BY <1>2, <3>3, <3>5, <3>6 DEF Running
  <2>6. Len(todo) = 1 \/ Len(todo) > 1
    <3>1. Len(todo) \in Nat /\ Len(todo) # 0
      BY <1>1
    <3>2. ASSUME NEW n \in Nat, n # 0 PROVE n = 1 \/ n > 1
      BY <3>2
    <3> QED
      BY <3>1, <3>2
  <2> QED
    BY <2>4, <2>5, <2>6
<1> QED
  BY <1>2, <1>9, <1>10

\* The rest of the function is left, or its loop.
LEMMA ReturnRuns ==
    ASSUME TypeInv, ReturnFrom
    PROVE  Running(todo', pos)
<1>1. pos \in Nat /\ pos <= pos /\ Running(todo, pos) /\ todo \in Seq(Item) /\ todo # <<>>
  BY FileIs, HeadIs DEF TypeInv, ReturnFrom, At, Running
<1>2. CASE At("ret") /\ Then(<<>>)
  <2>1. pos' = pos /\ pos' \in pos .. LastPos
    BY FileIs DEF TypeInv, ReturnFrom
  <2>2. Running(todo', pos')
    BY <1>1, <1>2, <2>1, NothingRuns
  <2> QED
    BY <2>1, <2>2
<1>3. CASE At("leave") /\ todo' = Tail(From({"ret"}))
  <2>1. ~Free(todo[1])
    BY <1>3 DEF At, Free
  <2>2. PICK j \in 2 .. Len(todo) - 2 : todo[j].op = "ret"
    BY <1>1, <2>1, Deep
  <2>3. j \in 1 .. Len(todo)
    BY <1>1, <2>2, HeadIs
  <2>4. PICK r \in 1 .. j : First("ret", r)
    BY <1>1, <2>2, <2>3, FirstIs
  <2>5. r \in 1 .. Len(todo)
    BY <2>3
  <2>6. Running(Splice(todo, r, <<>>), pos)
    BY <1>1, <2>5, CutRuns
  <2> QED
    BY <1>1, <1>3, <2>4, <2>6, FromFirst
<1>4. CASE At("break") /\ todo' = Tail(From({"again"}))
  <2>1. ~Free(todo[1])
    BY <1>4 DEF At, Free
  <2>2. Len(todo) > 3 /\ Len(todo) \in Nat
    BY <1>1, <2>1, Deep, HeadIs
  <2>3. todo[Len(todo)].op = "again" /\ Len(todo) \in 1 .. Len(todo)
    BY <1>1, <2>2, ShapeIs
  <2>4. PICK r \in 1 .. Len(todo) : First("again", r)
    BY <1>1, <2>3, FirstIs
  <2>5. Running(Splice(todo, r, <<>>), pos)
    <3>1. pos \in Nat /\ pos <= pos /\ Running(todo, pos) /\ r \in 1 .. Len(todo)
      BY <1>1
    <3> QED
      BY <3>1, CutRuns
  <2> QED
    BY <1>1, <1>4, <2>4, <2>5, FromFirst
<1> QED
  BY <1>2, <1>3, <1>4 DEF ReturnFrom

LEMMA CallRuns ==
    ASSUME TypeInv, CallFunction
    PROVE  Running(todo', pos)
<1>1. /\ pos \in Nat /\ pos <= pos /\ Running(todo, pos) /\ todo \in Seq(Item) /\ todo # <<>>
      /\ Len(todo) \in Nat
  BY FileIs, HeadIs DEF TypeInv, CallFunction, At, Running
<1>2. Code[todo[1].to] \in Seq(Still)
  BY <1>1, HeadIs, ItemOps, CodeStill DEF CallFunction, At
<1>3. CASE At("call") /\ Enter(Code[todo[1].to])
  <2>1. pos' = pos /\ todo[1].op = "call"
    BY <1>3 DEF CallFunction, At
  <2> DEFINE c == Code[todo[1].to]
  <2>3. c \in Seq(Still) /\ Enter(c) /\ todo # <<>> /\ todo[1].op \in {"call", "expr"}
    BY <1>1, <1>2, <1>3, <2>1
  <2> HIDE DEF c
  <2>2. Running(todo', pos')
    BY <2>1, <2>3, EnterRuns, SMTT(30)
  <2> QED
    BY <2>1, <2>2
<1>4. CASE At("tail") /\ todo' = Code[todo[1].to] \o From({"ret"})
  <2> DEFINE c == Code[todo[1].to]
  <2>1. ~Free(todo[1]) /\ todo[1].op = "tail"
    BY <1>4 DEF At, Free
  <2>2. PICK j \in 2 .. Len(todo) - 2 : todo[j].op = "ret"
    BY <1>1, <2>1, Deep
  <2>3. j \in 1 .. Len(todo)
    BY <1>1, <2>2
  <2>4. PICK r \in 1 .. j : First("ret", r)
    BY <1>1, <2>2, <2>3, FirstIs
  <2>12. todo[r].op = "ret"
    BY <2>4 DEF First
  <2>5. r # 1
    BY <2>1, <2>12
  <2>6. /\ r - 1 \in 1 .. Len(todo) /\ r - 1 <= Len(todo) - 3
        /\ r \in (r - 1) + 1 .. Len(todo)
    BY <1>1, <2>2, <2>3, <2>4, <2>5
  <2>7. c \in Seq(Item) /\ \A k \in 1 .. Len(c) : c[k].op \notin {"ret", "again"}
    BY <1>2, StillIs
  <2> HIDE DEF c
  <2>8. Timely(c, pos) /\ Followed(c, todo, r - 1)
    BY <2>12, <2>6, <2>7 DEF Timely, Followed
  <2>9. Running(Splice(todo, r - 1, c), pos)
    <3>1. c \in Seq(Item) /\ pos \in Nat /\ pos <= pos /\ Running(todo, pos)
      BY <1>1, <2>7
    <3> QED
      BY <2>6, <2>8, <3>1, PutRuns
  <2> QED
    <3>1. c \o From({"ret"}) = Splice(todo, r - 1, c)
      BY <1>1, <2>4, FromFirst
    <3> QED
      BY <1>4, <2>9, <3>1 DEF c
<1> QED
  BY <1>3, <1>4 DEF CallFunction

LEMMA ExprRuns ==
    ASSUME TypeInv, parser_expr_bp
    PROVE  Running(todo', pos)
<1>1. todo # <<>> /\ todo[1] \in Item /\ pos' = pos /\ pos' \in pos .. LastPos
  BY FileIs, HeadIs DEF TypeInv, parser_expr_bp, At
<1>2. \A s \in Seq(Plain) : s \in Seq(Still)
  <2>1. Plain \subseteq Still
    BY DEF Still, Text, Open
  <2> QED
    BY <2>1, SeqMonotonic
<1>3. CASE At("expr") /\ Enter(<<Call("primary"), Infix(todo[1].min)>>)
  <2>1. todo[1].op = "expr" /\ todo[1].min \in Nat
    BY <1>1, <1>3, ItemOps DEF At
  <2>2. <<Call("primary"), Infix(todo[1].min)>> \in Seq(Plain)
    BY <2>1, PlainIs, NamesIn
  <2>3. Running(todo', pos')
    BY <1>1, <1>2, <1>3, <2>1, <2>2, EnterRuns
  <2> QED
    BY <1>1, <2>3
<1>4. CASE At("infix")
  <2>1. todo[1].op = "infix" /\ todo[1].min \in Nat /\ ~Free(todo[1])
    BY <1>1, <1>4, ItemOps DEF At, Free
  <2>2. \E c \in Seq(Plain) : Then(c)
    <3>1. /\ Cast \in Seq(Plain) /\ Operator(TagAt(pos), todo[1].min) \in Seq(Plain)
      BY <2>1, OperatorCode
    <3>2. LET level == parser_precedence(TagAt(pos))
          IN  Then(IF level = 0 \/ level < todo[1].min THEN Cast
                   ELSE Operator(TagAt(pos), todo[1].min))
      BY <2>1 DEF parser_expr_bp, At
    <3> QED
      BY <3>1, <3>2
  <2>3. Running(todo', pos')
    BY <1>1, <1>2, <2>1, <2>2, StillRuns
  <2> QED
    BY <1>1, <2>3
<1> QED
  BY <1>3, <1>4 DEF parser_expr_bp

LEMMA NodeEnds ==
    ASSUME NEW n \in Nodes, NEW t \in Nat
    PROVE  LET r == [n EXCEPT !.to = t] IN
           r \in Nodes /\ r.from = n.from /\ r.tag = n.tag /\ r.to = t
BY DEF Nodes

\* The nodes that a step leaves.
LEMMA BuildPlaced ==
    ASSUME TypeInv, BuildNode
    PROVE  Placed(out', pos)
<1>1. /\ pos \in Nat \ {0} /\ Running(todo, pos) /\ todo \in Seq(Item) /\ Len(todo) \in Nat
      /\ todo # <<>> /\ todo[1] \in Item /\ pos <= LastPos /\ LastPos \in Nat
      /\ out \in Seq(Nodes) /\ Len(out) \in Nat
  BY FileIs, HeadIs, LenProperties DEF TypeInv, BuildNode, At, Running, Placed
<1>2. \A i \in 1 .. Len(out) : out[i] \in Nodes /\ out[i].from <= LastPos /\ out[i].to < pos
  BY <1>1, ElementOfSeq DEF TypeInv, Placed
<1>3. CASE At("emit") /\ out' = Append(out, [tag |-> todo[1].tag, from |-> Entry, to |-> pos - 1])
  <2> DEFINE node == [tag |-> todo[1].tag, from |-> Entry, to |-> pos - 1]
  <2>1. ~Free(todo[1]) /\ todo[1].op = "emit"
    BY <1>3 DEF At, Free
  <2>2. PICK j \in 2 .. Len(todo) - 2 : todo[j].op = "ret"
    BY <1>1, <2>1, Deep
  <2>3. j \in 1 .. Len(todo)
    BY <1>1, <2>2
  <2>4. PICK r \in 1 .. j : First("ret", r)
    BY <1>1, <2>2, <2>3, FirstIs
  <2>12. todo[r].op = "ret"
    BY <2>4 DEF First
  <2>5. r \in 1 .. Len(todo) /\ todo[r] \in Rets /\ todo[r].from <= pos
    BY <1>1, <2>3, <2>12, ElementOfSeq, ItemOps DEF Running, Timely
  <2>6. Entry \in Nat \ {0} /\ Entry <= LastPos
    <3>1. Entry = todo[r].from
      BY <1>1, <2>4, FromFirst DEF Entry
    <3> QED
      BY <1>1, <2>5, <3>1 DEF Rets
  <2>7. todo[1].tag \in NodeTags
    BY <1>1, <2>1, ItemOps
  <2>8. node \in Nodes /\ node.from <= LastPos /\ node.to < pos
    BY <1>1, <2>6, <2>7 DEF Nodes
  <2> HIDE DEF node
  <2>9. /\ Append(out, node) \in Seq(Nodes) /\ Len(Append(out, node)) = Len(out) + 1
        /\ \A i \in 1 .. Len(out) : Append(out, node)[i] = out[i]
        /\ Append(out, node)[Len(out) + 1] = node
    BY <1>1, <2>8, AppendProperties
  <2>10. out' = Append(out, node)
    BY <1>3 DEF node
  <2>11. ASSUME NEW i \in 1 .. Len(out') PROVE out'[i].from <= LastPos /\ out'[i].to < pos
    <3>1. i \in 1 .. Len(out) \/ i = Len(out) + 1
      BY <1>1, <2>9, <2>10
    <3>2. CASE i \in 1 .. Len(out)
      <4>1. out'[i] = out[i]
        BY <2>9, <2>10, <3>2
      <4> QED
        BY <1>2, <3>2, <4>1
    <3>3. CASE i = Len(out) + 1
      <4>1. out'[i] = node
        BY <2>9, <2>10, <3>3
      <4> QED
        BY <2>8, <4>1
    <3> QED
      BY <3>1, <3>2, <3>3
  <2> QED
    BY <2>9, <2>10, <2>11 DEF Placed
<1>4. CASE At("extend") /\ out' = [out EXCEPT ![Len(out)].to = pos - 1]
  <2>1. CASE Len(out) = 0
    <3>1. out' = out
      BY <1>1, <1>4, <2>1, EmptySeq
    <3> QED
      BY <3>1 DEF TypeInv, Placed
  <2>2. CASE Len(out) > 0
    <3> DEFINE node == [out[Len(out)] EXCEPT !.to = pos - 1]
    <3>1. node \in Nodes /\ node.from <= LastPos /\ node.to < pos
      <4> DEFINE old == out[Len(out)]
      <4>1. old \in Nodes /\ old.from <= LastPos
        BY <1>1, <1>2, <2>2
      <4>2. pos \in Nat /\ pos - 1 \in Nat /\ pos - 1 < pos
        BY <1>1
      <4> HIDE DEF old
      <4>3. node = [old EXCEPT !.to = pos - 1]
        BY DEF old
      <4> HIDE DEF node
      <4>4. node \in Nodes /\ node.from = old.from /\ node.to = pos - 1
        BY <4>1, <4>2, <4>3, NodeEnds, Zenon
      <4> QED
        BY <4>1, <4>2, <4>4
    <3>2. out' = [out EXCEPT ![Len(out)] = node]
      BY <1>4
    <3> HIDE DEF node
    <3>3. /\ out' \in Seq(Nodes) /\ Len(out') = Len(out)
          /\ \A i \in 1 .. Len(out) : out'[i] = IF i = Len(out) THEN node ELSE out[i]
      BY <1>1, <2>2, <3>1, <3>2, ExceptSeq
    <3>4. ASSUME NEW i \in 1 .. Len(out') PROVE out'[i].from <= LastPos /\ out'[i].to < pos
      BY <1>2, <3>1, <3>3
    <3> QED
      BY <3>3, <3>4 DEF Placed
  <2> QED
    BY <1>1, <2>1, <2>2
<1>5. CASE out' = IF out[Len(out)].tag = "Invalid" THEN SubSeq(out, 1, Len(out) - 1) ELSE out
  <2>1. CASE out' = out
    BY <2>1 DEF TypeInv, Placed
  <2>2. CASE out' = SubSeq(out, 1, Len(out) - 1)
    <3> DEFINE n == Len(out) - 1
    <3>1. /\ out' \in Seq(Nodes)
          /\ Len(out') = IF 1 <= n THEN n ELSE 0
          /\ \A i \in 1 .. n : out'[i] = out[i]
      <4>1. \A i \in 1 .. Len(out) - 1 : out[i] \in Nodes
        BY <1>1, <1>2
      <4>2. n \in Int
        BY <1>1
      <4>3. /\ SubSeq(out, 1, n) \in Seq(Nodes)
            /\ Len(SubSeq(out, 1, n)) = IF 1 <= n THEN n - 1 + 1 ELSE 0
            /\ \A i \in 1 .. n - 1 + 1 : SubSeq(out, 1, n)[i] = out[1 + i - 1]
        BY <4>1, <4>2, SubSeqProperties
      <4> HIDE DEF n
      <4>4. n - 1 + 1 = n /\ \A i \in 1 .. n : 1 + i - 1 = i
        BY <4>2
      <4> QED
        BY <2>2, <4>3, <4>4 DEF n
    <3>2. ASSUME NEW i \in 1 .. Len(out') PROVE out'[i].from <= LastPos /\ out'[i].to < pos
      <4>1. i \in 1 .. n /\ i \in 1 .. Len(out)
        BY <1>1, <3>1
      <4> QED
        BY <1>2, <3>1, <4>1
    <3> QED
      BY <3>1, <3>2 DEF Placed
  <2> QED
    BY <1>5, <2>1, <2>2
<1> QED
  BY <1>3, <1>4, <1>5 DEF BuildNode

LEMMA Later ==
    ASSUME NEW nodes, NEW p \in Nat, NEW q \in Nat, p <= q, Placed(nodes, p)
    PROVE  Placed(nodes, q)
<1>1. nodes \in Seq(Nodes)
  BY DEF Placed
<1>2. ASSUME NEW i \in 1 .. Len(nodes) PROVE nodes[i].from <= LastPos /\ nodes[i].to < q
  <2>1. nodes[i] \in Nodes /\ nodes[i].from <= LastPos /\ nodes[i].to < p
    BY <1>1, ElementOfSeq DEF Placed
  <2> QED
    BY <2>1 DEF Nodes
<1> QED
  BY <1>1, <1>2 DEF Placed

\* Every step leaves the parser within the file.
LEMMA TypeStep == TypeInv /\ [Next]_vars => TypeInv'
<1> SUFFICES ASSUME TypeInv, [Next]_vars PROVE TypeInv'
  OBVIOUS
<1>1. /\ pos \in Nat \ {0} /\ LastPos \in Nat \ {0} /\ pos \in 1 .. LastPos
      /\ Placed(out, pos) /\ Running(todo, pos) /\ errs \in SUBSET (1 .. pos)
      /\ src \in Sources
  BY FileIs DEF TypeInv
\* A step that keeps the file, and what it reports and builds within it.
<1>2. ASSUME src' = src, pos' \in pos .. LastPos, errs' \in SUBSET (1 .. pos'),
             Placed(out', pos'), Running(todo', pos')
      PROVE  TypeInv'
  <2>1. LastPos' = LastPos
    BY <1>2 DEF LastPos
  <2>2. Placed(out, pos)'
    BY <1>2, <2>1 DEF Placed
  <2>3. Running(todo, pos)'
    BY <1>2
  <2>4. pos' \in 1 .. LastPos' /\ src' \in Sources /\ errs' \in SUBSET (1 .. pos')
    BY <1>1, <1>2, <2>1
  <2> QED
    BY <2>2, <2>3, <2>4 DEF TypeInv
\* A step that reports and builds nothing.
<1>3. ASSUME src' = src, pos' \in pos .. LastPos, errs' = errs, out' = out, Running(todo', pos')
      PROVE  TypeInv'
  <2>1. pos' \in Nat /\ pos <= pos' /\ errs' \in SUBSET (1 .. pos')
    BY <1>1, <1>3
  <2>2. Placed(out', pos')
    BY <1>1, <1>3, <2>1, Later
  <2> QED
    BY <1>2, <1>3, <2>1, <2>2
<1>4. pos \in pos .. LastPos
  BY <1>1
<1>5. CASE AdvanceToken
  <2>1. /\ src' = src /\ errs' = errs /\ out' = out /\ Then(<<>>) /\ todo # <<>>
        /\ pos' = Following(pos)
    BY <1>5 DEF AdvanceToken, At
  <2>2. pos' \in pos .. LastPos
    BY <1>1, <2>1, FollowingIs
  <2> QED
    BY <1>3, <2>1, <2>2, NothingRuns
<1>6. CASE parse_error
  <2>1. /\ src' = src /\ errs' = errs \cup {pos} /\ out' = out /\ Then(<<>>) /\ todo # <<>>
        /\ pos' = pos
    BY <1>6 DEF parse_error, At
  <2>2. pos' \in pos .. LastPos /\ errs' \in SUBSET (1 .. pos') /\ Placed(out', pos')
    BY <1>1, <2>1
  <2> QED
    BY <1>2, <2>1, <2>2, NothingRuns
<1>7. CASE parser_sync
  <2>1. src' = src /\ errs' = errs /\ out' = out /\ Then(<<>>) /\ todo # <<>>
    BY <1>7 DEF parser_sync, At
  <2>2. pos' \in pos .. LastPos
    BY <1>1, <1>7, SyncIs
  <2> QED
    BY <1>3, <2>1, <2>2, NothingRuns
<1>8. CASE Choose
  <2>1. /\ src' = src /\ errs' = errs /\ out' = out /\ todo # <<>> /\ ~Free(todo[1])
        /\ pos' = pos
    BY <1>8 DEF Choose, At, Free
  <2>2. PICK c \in Seq(Still) : Then(c)
    BY <1>8, ChooseIs
  <2> QED
    BY <1>3, <1>4, <2>1, <2>2, StillRuns
<1>9. CASE TestLoop
  <2>1. src' = src /\ errs' = errs /\ out' = out /\ pos' = pos
    BY <1>9 DEF TestLoop
  <2>2. Running(todo', pos)
    BY <1>9, TestLoopRuns
  <2> QED
    BY <1>3, <1>4, <2>1, <2>2
<1>10. CASE EndIteration
  <2>1. src' = src /\ errs' = errs /\ out' = out
    BY <1>10 DEF EndIteration
  <2> QED
    BY <1>3, <1>10, <2>1, EndIterationRuns
<1>11. CASE CallFunction
  <2>1. src' = src /\ errs' = errs /\ out' = out /\ pos' = pos
    BY <1>11 DEF CallFunction
  <2>2. Running(todo', pos)
    BY <1>11, CallRuns
  <2> QED
    BY <1>3, <1>4, <2>1, <2>2
<1>12. CASE parser_expr_bp
  <2>1. src' = src /\ errs' = errs /\ out' = out /\ pos' = pos
    BY <1>12 DEF parser_expr_bp
  <2>2. Running(todo', pos)
    BY <1>12, ExprRuns
  <2> QED
    BY <1>3, <1>4, <2>1, <2>2
<1>13. CASE ReturnFrom
  <2>1. src' = src /\ errs' = errs /\ out' = out /\ pos' = pos
    BY <1>13 DEF ReturnFrom
  <2>2. Running(todo', pos)
    BY <1>13, ReturnRuns
  <2> QED
    BY <1>3, <1>4, <2>1, <2>2
<1>14. CASE BuildNode
  <2>1. src' = src /\ errs' = errs /\ pos' = pos /\ Then(<<>>) /\ todo # <<>>
    BY <1>14 DEF BuildNode, At
  <2>2. Placed(out', pos) /\ Placed(out', pos')
    BY <1>14, <2>1, BuildPlaced
  <2>3. Running(todo', pos')
    BY <1>4, <2>1, NothingRuns
  <2> QED
    BY <1>1, <1>2, <1>4, <2>1, <2>2, <2>3
<1>15. CASE UNCHANGED vars
  <2>1. src' = src /\ errs' = errs /\ out' = out /\ pos' = pos /\ todo' = todo
    BY <1>15 DEF vars
  <2> QED
    BY <1>1, <1>3, <1>4, <2>1
<1>16. CASE Done
  BY <1>15, <1>16 DEF Done
<1> QED
  BY <1>5, <1>6, <1>7, <1>8, <1>9, <1>10, <1>11, <1>12, <1>13, <1>14, <1>15, <1>16 DEF Next

\* The parser never reads behind the end of the file, and the errors that it
\* reports and the nodes that it builds name tokens it has reached.
THEOREM ParserStays == Spec => []TypeOK
<1>1. TypeInv => TypeOK
  <2> SUFFICES ASSUME TypeInv PROVE TypeOK
    OBVIOUS
  <2>1. /\ pos \in 1 .. LastPos /\ LastPos = Len(src.toks) + 1 /\ LastPos \in Nat
        /\ errs \in SUBSET (1 .. pos) /\ out \in Seq(Nodes)
    BY FileIs DEF TypeInv, Placed
  <2>2. ASSUME NEW i \in 1 .. Len(out)
        PROVE  out[i].from \in 1 .. LastPos /\ out[i].to \in 0 .. pos - 1
    <3>1. out[i] \in Nodes /\ out[i].from <= LastPos /\ out[i].to < pos
      BY <2>1, ElementOfSeq DEF TypeInv, Placed
    <3> QED
      BY <2>1, <3>1 DEF Nodes
  <2>3. DOMAIN out = 1 .. Len(out)
    BY <2>1, LenProperties
  <2> QED
    BY <2>1, <2>2, <2>3, Zenon DEF TypeOK
<1> QED
  BY <1>1, Init1, TypeStep, PTL DEF Spec

-----------------------------------------------------------------------------
(* Every block has an `end' of its own.                                    *)

\* Nothing wrong has been reported, or is about to be.
Silent == errs = {} /\ ~At("error")

Closed(node) == node.tag \in ClosedTags
\* A node with an `end' is built right behind the `end'.
Closing(t) ==
    \A k \in 1 .. Len(t) :
       t[k] \in Emits(ClosedTags) => k > 1 /\ t[k - 1] = Expect("Ends")
\* The same, or the `end' is about to be consumed, or has just been.
Pending ==
    \A k \in 1 .. Len(todo) : todo[k] \in Emits(ClosedTags) =>
       \/ k > 1 /\ todo[k - 1] = Expect("Ends")
       \/ k = 2 /\ todo[1] = Advance /\ TagAt(pos) = "Ends"
       \/ /\ k = 1 /\ TagAt(pos - 1) = "Ends"
          /\ \A i \in 1 .. Len(out) : Closed(out[i]) => out[i].to # pos - 1
OwnEnds ==
    \A i \in 1 .. Len(out) : Closed(out[i]) =>
       /\ TagAt(out[i].to) = "Ends"
       /\ \A j \in 1 .. Len(out) : Closed(out[j]) /\ out[j].to = out[i].to => j = i

\* What stands between the name of a type and the end of its arguments.
Quiet == {Advance, Error, Sync, Opt("Commas"), Expect("RightBrackets")}
         \cup {l \in Loops \cup Agains : l.body = "type_arg"}
Late == {Extend, TypeBrackets}
\* Only a type is completed.
Extending ==
    \A k \in 1 .. Len(todo) : todo[k] \in Late =>
       out[Len(out)].tag = "Type_Custom" /\ \A l \in 1 .. k - 1 : todo[l] \in Quiet

\* Neither builds a node with an `end' at the wrong place, nor completes a node.
Tame(t) == Closing(t) /\ \A k \in 1 .. Len(t) : t[k] \notin Late

ClosedInv == Extending /\ (Silent => Pending /\ OwnEnds)

\* What a step puts in front may leave a loop only where the first instruction
\* could.
Within(m, c) ==
    Looped(c) \/ (m = 1 /\ todo[1] \notin Steady /\ \A k \in 1 .. Len(c) : c[k].op # "ret")
\* A step puts the sequence c in the place of the first m instructions.
Puts(m, c) ==
    /\ todo' = Splice(todo, m, c)
    /\ \/ m = 1 /\ (todo[1].op = "ret" => c = <<>>)
       \/ First("ret", m) /\ c = <<>>
       \/ First("ret", m + 1)
       \/ todo[1].op = "break" /\ First("again", m) /\ c = <<>>
    /\ Closing(c)
    /\ todo[1] \notin Late \cup {TypeArgs} => Tame(c)
    /\ Within(m, c)

LEMMA QuickIs ==
    ASSUME NEW i \in Quick \cup Rets \cup Agains
    PROVE  i \notin Emits(ClosedTags) /\ i \notin Late
<1>1. OpenTags \cap ClosedTags = {}
  BY DEF OpenTags, ClosedTags
<1>2. \A e \in Emits(ClosedTags) : e.op = "emit" /\ e.tag \in ClosedTags
  BY DEF Emits
<1>3. Extend.op = "extend" /\ TypeBrackets.op = "switch"
  BY SwitchesAre DEF Extend
<1>4. ASSUME NEW e \in Quick PROVE e.op # "extend" /\ e \notin Emits(ClosedTags)
  <2>1. CASE e \in Plain
    <3>1. e.op # "extend" /\ (e.op = "emit" => e.tag \in OpenTags)
      BY <2>1, PlainOps, BasicOps
    <3> QED
      BY <1>1, <1>2, <3>1
  <2>2. CASE e \in Breakers \cup {TypeArgs}
    <3>1. e.op = "switch"
      BY <2>2, SwitchesAre
    <3> QED
      BY <1>2, <3>1
  <2>3. CASE e \in {Keep, Break}
    <3>1. e.op \in {"keep", "break"}
      BY <2>3 DEF Keep, Break
    <3> QED
      BY <1>2, <3>1
  <2> QED
    BY <2>1, <2>2, <2>3 DEF Quick, Open
<1>5. /\ DOMAIN TypeBrackets.cases = {1}
      /\ TypeBrackets.cases[1].code = << Advance, Until({"RightBrackets"}, "type_arg"),
                                         Expect("RightBrackets"), Extend >>
      /\ TypeBrackets.cases[1].test.kind = "tag"
  BY TypeArgsAre DEF If, Switch, When, Is
<1>6. TypeBrackets \notin Quick
  <2>1. CASE TypeBrackets \in Plain \cup Breakers
    <3>1. \A s \in Seq(Plain) : s \in Seq(Quick)
      <4>1. Plain \subseteq Quick
        BY DEF Quick, Open
      <4> QED
        BY <4>1, SeqMonotonic
    <3>2. TypeBrackets.cases[1].code \in Seq(Quick)
      <4>1. TypeBrackets \in Breakers => TypeBrackets.cases[1].code \in Seq(Quick)
        BY <1>5, BreakersAre
      <4>2. TypeBrackets \in Plain => TypeBrackets.cases[1].code \in Seq(Quick)
        BY <1>3, <1>5, <3>1, PlainOps, BasicOps
      <4> QED
        BY <2>1, <4>1, <4>2
    <3>3. Extend \in Quick
      <4> DEFINE s == << Advance, Until({"RightBrackets"}, "type_arg"), Expect("RightBrackets"),
                         Extend >>
      <4>1. s \in Seq(Quick) /\ Len(s) = 4 /\ s[4] = Extend
        BY <1>5, <3>2
      <4> HIDE DEF s
      <4>2. 4 \in 1 .. Len(s)
        BY <4>1
      <4>3. s[4] \in Quick
        BY <4>1, <4>2, ElementOfSeq
      <4> QED
        BY <4>1, <4>3
    <3> QED
      BY <1>3, <1>4, <3>3
  <2>2. CASE TypeBrackets = TypeArgs
    <3>1. TypeArgs.cases[1].test.kind = "built"
      BY TypeArgsAre DEF If, Switch, When, Built
    <3> QED
      BY <1>5, <2>2, <3>1
  <2>3. CASE TypeBrackets \in {Keep, Break}
    BY <1>3, <2>3 DEF Keep, Break
  <2> QED
    BY <2>1, <2>2, <2>3 DEF Quick, Open
<1>7. CASE i \in Rets \cup Agains
  <2>1. i.op \in {"ret", "again"}
    BY <1>7 DEF Rets, Agains, LoopsWith
  <2> QED
    BY <1>2, <1>3, <2>1 DEF Late
<1> QED
  BY <1>3, <1>4, <1>6, <1>7 DEF Late

LEMMA TameIs ==
    ASSUME NEW c
    PROVE  /\ c \in Seq(Quick \cup Rets \cup Agains) => Tame(c)
           /\ c \in Seq(Quick \cup Late) => Closing(c)
<1>1. \A e \in Late : e \notin Emits(ClosedTags)
  BY SwitchesAre DEF Late, Emits, Extend
<1>2. ASSUME c \in Seq(Quick \cup Rets \cup Agains), NEW k \in 1 .. Len(c)
      PROVE  c[k] \notin Emits(ClosedTags) /\ c[k] \notin Late
  BY <1>2, ElementOfSeq, QuickIs
<1>3. ASSUME c \in Seq(Quick \cup Late), NEW k \in 1 .. Len(c)
      PROVE  c[k] \notin Emits(ClosedTags)
  BY <1>1, <1>3, ElementOfSeq, QuickIs
<1> QED
  BY <1>2, <1>3 DEF Tame, Closing

LEMMA CodeTame == \A f \in Names : Tame(Code[f])
<1>1. ASSUME NEW f \in Names \ ItemNames PROVE Tame(Code[f])
  <2>1. Open \subseteq Quick \cup Rets \cup Agains
    BY DEF Quick
  <2> QED
    BY <2>1, OpenCode, SeqMonotonic, TameIs
<1>2. ASSUME NEW f \in ItemNames PROVE Tame(Code[f])
  <2> DEFINE s == Code[f]
  <2>1. /\ Len(s) \in Nat /\ Len(s) > 1
        /\ \A k \in 1 .. Len(s) - 1 : s[k] \in Calm3
        /\ \/ s[Len(s)] \in Emits(KeptTags)
           \/ s[Len(s)] \in Emits(ClosedTags) /\ s[Len(s) - 1] = Expect("Ends")
    BY ItemsCode DEF ItemCode
  <2> HIDE DEF s
  <2>2. \A k \in 1 .. Len(s) - 1 : s[k] \notin Emits(ClosedTags) /\ s[k] \notin Late
    BY <2>1, CalmBelow, QuickIs DEF Quick, Open
  <2>3. s[Len(s)] \notin Late
    BY <2>1, SwitchesAre DEF Late, Emits, Extend
  <2>4. s[Len(s)] \in Emits(KeptTags) => s[Len(s)] \notin Emits(ClosedTags)
    BY DEF KeptTags, OpenTags, ClosedTags, Emits
  <2>5. ASSUME NEW k \in 1 .. Len(s)
        PROVE  /\ s[k] \notin Late
               /\ s[k] \in Emits(ClosedTags) => k > 1 /\ s[k - 1] = Expect("Ends")
    <3>1. CASE k \in 1 .. Len(s) - 1
      BY <2>2, <3>1
    <3>2. CASE k = Len(s)
      BY <2>1, <2>3, <2>4, <3>2
    <3> QED
      BY <2>1, <3>1, <3>2
  <2>6. Tame(s)
    BY <2>5 DEF Tame, Closing
  <2> QED
    BY <2>6 DEF s
<1> QED
  BY <1>1, <1>2

LEMMA SwitchTame ==
    ASSUME NEW i \in Item, i.op = "switch", i \notin Late, i # TypeArgs
    PROVE  /\ i.default \in Seq(Quick)
           /\ \A c \in DOMAIN i.cases : i.cases[c].code \in Seq(Quick)
<1>1. \A s \in Seq(Plain) : s \in Seq(Quick)
  <2>1. Plain \subseteq Quick
    BY DEF Quick, Open
  <2> QED
    BY <2>1, SeqMonotonic
<1>2. CASE i \in Plain
  <2>1. /\ i.default \in Seq(Plain)
        /\ \A c \in DOMAIN i.cases : i.cases[c].code \in Seq(Plain)
    BY <1>2, PlainOps, BasicOps
  <2> QED
    BY <1>1, <2>1
<1>3. CASE i \in Breakers
  BY <1>3, BreakersAre
<1>4. \A e \in {Keep, Break, Extend} \cup Emits(ClosedTags) \cup Rets \cup Agains : e.op # "switch"
  BY DEF Keep, Break, Extend, Emits, Rets, Agains, LoopsWith
<1> QED
  BY <1>2, <1>3, <1>4 DEF Item, Still, Text, Open, Late

LEMMA LateCode ==
    ASSUME NEW i \in {TypeArgs, TypeBrackets}
    PROVE  /\ i.default \in Seq(Quick \cup Late)
           /\ \A c \in DOMAIN i.cases : i.cases[c].code \in Seq(Quick \cup Late)
<1>1. /\ Advance \in Quick /\ Expect("RightBrackets") \in Quick
      /\ Until({"RightBrackets"}, "type_arg") \in Quick
  BY PlainIs, TagsIn, NamesIn DEF Quick, Open
<1>2. /\ <<>> \in Seq(Quick \cup Late) /\ <<TypeBrackets>> \in Seq(Quick \cup Late)
      /\ << Advance, Until({"RightBrackets"}, "type_arg"), Expect("RightBrackets"), Extend >>
           \in Seq(Quick \cup Late)
  BY <1>1 DEF Late
<1>3. ASSUME NEW t, NEW yes \in Seq(Quick \cup Late), i = If(t, yes, <<>>)
      PROVE  /\ i.default \in Seq(Quick \cup Late)
             /\ \A c \in DOMAIN i.cases : i.cases[c].code \in Seq(Quick \cup Late)
  BY <1>2, <1>3 DEF If, Switch, When
<1> QED
  BY <1>2, <1>3, TypeArgsAre

LEMMA SwitchSteady ==
    ASSUME NEW i \in Steady, i.op = "switch"
    PROVE  /\ i.default \in Seq(Steady)
           /\ \A c \in DOMAIN i.cases : i.cases[c].code \in Seq(Steady)
<1>1. Plain \subseteq Steady
  BY DEF Steady
<1>2. \A s \in Seq(Plain) : s \in Seq(Steady)
  BY <1>1, SeqMonotonic
<1>3. CASE i \in Plain
  <2>1. /\ i.default \in Seq(Plain)
        /\ \A c \in DOMAIN i.cases : i.cases[c].code \in Seq(Plain)
    BY <1>3, PlainOps, BasicOps
  <2> QED
    BY <1>2, <2>1
<1>4. /\ Advance \in Steady /\ Expect("RightBrackets") \in Steady
      /\ Until({"RightBrackets"}, "type_arg") \in Steady
  BY <1>1, PlainIs, TagsIn, NamesIn
<1>5. /\ <<>> \in Seq(Steady) /\ <<TypeBrackets>> \in Seq(Steady)
      /\ << Advance, Until({"RightBrackets"}, "type_arg"), Expect("RightBrackets"), Extend >>
           \in Seq(Steady)
  BY <1>4 DEF Steady
<1>6. ASSUME NEW t, NEW yes \in Seq(Steady), i = If(t, yes, <<>>)
      PROVE  /\ i.default \in Seq(Steady)
             /\ \A c \in DOMAIN i.cases : i.cases[c].code \in Seq(Steady)
  BY <1>5, <1>6 DEF If, Switch, When
<1>7. CASE i \in {TypeArgs, TypeBrackets}
  BY <1>5, <1>6, <1>7, TypeArgsAre
<1>8. \A e \in {Keep, Extend} \cup Emits(ClosedTags) \cup Rets \cup Agains : e.op # "switch"
  BY DEF Keep, Extend, Emits, Rets, Agains, LoopsWith
<1> QED
  BY <1>3, <1>7, <1>8 DEF Steady

\* What a step takes from the front, and what it puts there.
LEMMA StepTakes ==
    ASSUME TypeInv, Next, todo # <<>>
    PROVE  \E m \in 1 .. Len(todo), c \in Seq(Item) : Puts(m, c)
<1>1. /\ todo \in Seq(Item) /\ Len(todo) \in Nat \ {0} /\ todo[1] \in Item /\ 1 \in 1 .. Len(todo)
      /\ pos \in Nat \ {0} /\ Running(todo, pos)
  BY HeadIs, FileIs DEF TypeInv
<1>2. ASSUME NEW c \in Seq(Item), Tame(c), Within(1, c), Then(c), todo[1].op = "ret" => c = <<>>
      PROVE  \E m \in 1 .. Len(todo), d \in Seq(Item) : Puts(m, d)
  <2>1. todo' = Splice(todo, 1, c) /\ Closing(c)
    BY <1>1, <1>2, ThenIs DEF Tame
  <2>2. Puts(1, c)
    BY <1>2, <2>1 DEF Puts
  <2> QED
    BY <1>1, <2>2
<1>3. <<>> \in Seq(Item) /\ Tame(<<>>) /\ Looped(<<>>) /\ Closing(<<>>)
  <2>1. \A e \in Seq(Item) : Len(e) = 0 => Tame(e) /\ Looped(e) /\ Closing(e)
    BY DEF Tame, Closing, Looped
  <2>2. <<>> \in Seq(Item) /\ Len(<<>>) = 0
    OBVIOUS
  <2> QED
    BY <2>1, <2>2
<1>4. \A s \in Seq(Quick) : s \in Seq(Item) /\ Tame(s)
  <2>1. Quick \subseteq Item /\ Quick \subseteq Quick \cup Rets \cup Agains
    BY DEF Quick, Item, Still, Text
  <2> QED
    BY <2>1, SeqMonotonic, TameIs
<1>5. \A f \in Names : Code[f] \in Seq(Item) /\ Len(Code[f]) \in Nat /\ Tame(Code[f])
  BY CodeStill, StillIs, CodeTame, LenProperties
<1>17. \A s \in Seq(Steady) : Looped(s)
  BY ElementOfSeq DEF Looped
\* The mark that ends a function or an iteration.
<1>6. ASSUME NEW s \in Seq(Item), Tame(s), NEW mark \in Rets \cup Agains
      PROVE  /\ Append(s, mark) \in Seq(Item) /\ Tame(Append(s, mark))
             /\ s \in Seq(Steady) => Looped(Append(s, mark))
  <2>1. mark \in Item /\ mark \notin Emits(ClosedTags) /\ mark \notin Late
    BY QuickIs DEF Item
  <2>2. /\ Append(s, mark) \in Seq(Item) /\ Len(Append(s, mark)) = Len(s) + 1
        /\ \A k \in 1 .. Len(s) : Append(s, mark)[k] = s[k]
        /\ Append(s, mark)[Len(s) + 1] = mark /\ Len(s) \in Nat
    BY <2>1, AppendProperties, LenProperties
  <2> DEFINE a == Append(s, mark)
  <2> HIDE DEF a
  <2>3. ASSUME NEW k \in 1 .. Len(a)
        PROVE  a[k] \notin Late /\ (a[k] \in Emits(ClosedTags) => k > 1 /\ a[k - 1] = Expect("Ends"))
    <3>1. CASE k = Len(s) + 1
      BY <2>1, <2>2, <3>1 DEF a
    <3>2. CASE k \in 1 .. Len(s)
      <4>1. a[k] = s[k] /\ (k > 1 => k - 1 \in 1 .. Len(s) /\ a[k - 1] = s[k - 1])
        BY <2>2, <3>2 DEF a
      <4>2. s[k] \notin Late /\ (s[k] \in Emits(ClosedTags) => k > 1 /\ s[k - 1] = Expect("Ends"))
        BY <1>6, <3>2 DEF Tame, Closing
      <4> QED
        BY <4>1, <4>2
    <3>3. k = Len(s) + 1 \/ k \in 1 .. Len(s)
      BY <2>2 DEF a
    <3> QED
      BY <3>1, <3>2, <3>3
  <2>4. Tame(a)
    BY <2>3 DEF Tame, Closing
  <2>5. ASSUME s \in Seq(Steady) PROVE Looped(a)
    <3>1. mark \in Steady
      BY DEF Steady
    <3>2. a \in Seq(Steady)
      BY <2>5, <3>1, AppendProperties DEF a
    <3> QED
      BY <1>17, <3>2
  <2> QED
    BY <2>2, <2>4, <2>5 DEF a
<1>7. [op |-> "ret", from |-> pos] \in Rets
  BY <1>1 DEF Rets
<1>8. CASE Then(<<>>)
  BY <1>2, <1>3, <1>8 DEF Within
<1>9. CASE Choose
  <2>1. PICK c \in Seq(Still) :
              /\ Then(c)
              /\ \/ c = todo[1].default
                 \/ \E i \in DOMAIN todo[1].cases : c = todo[1].cases[i].code
    BY <1>9, ChooseIs
  <2>4. todo[1].op = "switch"
    BY <1>9 DEF Choose, At
  <2>5. Within(1, c)
    <3>1. CASE todo[1] \in Steady
      <4>1. c \in Seq(Steady)
        BY <2>1, <2>4, <3>1, SwitchSteady
      <4> QED
        BY <1>17, <4>1 DEF Within
    <3>2. CASE todo[1] \notin Steady
      BY <2>1, <3>2, StillIs DEF Within
    <3> QED
      BY <3>1, <3>2
  <2>2. CASE todo[1] \notin Late /\ todo[1] # TypeArgs
    <3>1. c \in Seq(Quick)
      BY <1>9, <2>1, <2>2, ChooseIs, SwitchTame
    <3> QED
      BY <1>2, <1>4, <2>1, <2>4, <2>5, <3>1
  <2>3. CASE todo[1] \in Late \cup {TypeArgs}
    <3>1. c \in Seq(Item) /\ todo' = Splice(todo, 1, c)
      BY <1>1, <2>1, StillIs, ThenIs DEF Choose, At
    <3>2. todo[1] \in {TypeArgs, TypeBrackets}
      BY <1>9, <2>3, ChooseIs DEF Late, Extend
    <3>3. c \in Seq(Quick \cup Late)
      BY <2>1, <3>2, LateCode
    <3>4. Puts(1, c)
      BY <2>3, <2>4, <2>5, <3>1, <3>3, TameIs DEF Puts
    <3> QED
      BY <1>1, <3>1, <3>4
  <2> QED
    BY <2>2, <2>3
<1>10. CASE TestLoop
  <2> DEFINE mark == [todo[1] EXCEPT !.op = "again", !.from = pos]
  <2>1. todo[1].op = "loop" /\ todo[1] \in Loops
    BY <1>1, <1>10, ItemOps DEF TestLoop, At
  <2>2. mark \in Agains /\ todo[1].body \in Names
    BY <1>1, <2>1 DEF Loops, Agains, LoopsWith
  <2>3. Then(Append(Code[todo[1].body], mark)) \/ Then(<<>>)
    BY <1>10 DEF TestLoop
  <2> HIDE DEF mark
  <2>4. Append(Code[todo[1].body], mark) \in Seq(Item) /\ Tame(Append(Code[todo[1].body], mark))
    BY <1>5, <1>6, <2>2
  <2>5. Looped(Append(Code[todo[1].body], mark))
    <3> DEFINE s == Code[todo[1].body]
               a == Append(s, mark)
    <3>1. s \in Seq(Still)
      BY <2>2, CodeStill
    <3>2. s \in Seq(Item) /\ Len(s) \in Nat /\ \A k \in 1 .. Len(s) : s[k].op # "ret"
      BY <3>1, StillIs, LenProperties
    <3>3. mark \in Item /\ mark \in Steady /\ mark.op = "again"
      BY <2>2 DEF Item, Steady, Agains, LoopsWith
    <3> HIDE DEF s
    <3>4. /\ Len(a) = Len(s) + 1 /\ a[Len(s) + 1] = mark
          /\ \A k \in 1 .. Len(s) : a[k] = s[k]
      BY <3>2, <3>3, AppendProperties
    <3> HIDE DEF a
    <3>5. ASSUME NEW k \in 1 .. Len(a) PROVE a[k] \in Steady \/ InLoop(a, k)
      <4>1. CASE k = Len(s) + 1
        BY <3>3, <3>4, <4>1
      <4>2. CASE k \in 1 .. Len(s)
        <5>1. Len(s) + 1 \in k + 1 .. Len(a) /\ a[Len(s) + 1].op = "again"
          BY <3>2, <3>3, <3>4, <4>2
        <5>2. \A l \in k .. Len(s) + 1 : a[l].op # "ret"
          <6>1. \A l \in k .. Len(s) + 1 : l \in 1 .. Len(s) \/ l = Len(s) + 1
            BY <3>2, <4>2
          <6> QED
            BY <3>2, <3>3, <3>4, <6>1
        <5> QED
          BY <5>1, <5>2 DEF InLoop
      <4>3. k = Len(s) + 1 \/ k \in 1 .. Len(s)
        BY <3>2, <3>4
      <4> QED
        BY <4>1, <4>2, <4>3
    <3> QED
      BY <3>5 DEF Looped, a, s
  <2> QED
    BY <1>2, <1>8, <2>1, <2>3, <2>4, <2>5 DEF Within
<1>11. CASE EndIteration
  <2> DEFINE loop == [todo[1] EXCEPT !.op = "loop", !.from = 0]
  <2>1. todo[1].op = "again" /\ todo[1] \in Agains
    BY <1>1, <1>11, ItemOps DEF EndIteration, At
  <2>2. loop \in Loops
    BY <2>1 DEF Loops, Agains, LoopsWith
  <2>3. Then(<<loop>>)
    BY <1>11 DEF EndIteration
  <2> HIDE DEF loop
  <2>4. <<loop>> \in Seq(Quick) /\ <<loop>> \in Seq(Steady)
    BY <2>2, LevelsUp DEF Basic, Quick, Open, Steady
  <2>5. Within(1, <<loop>>)
    BY <1>17, <2>4 DEF Within
  <2> QED
    BY <1>2, <1>4, <2>1, <2>3, <2>4, <2>5
<1>12. ASSUME NEW c \in Seq(Item), Tame(c), c \in Seq(Steady), Enter(c)
       PROVE  \E d \in Seq(Item) : Tame(d) /\ Within(1, d) /\ Then(d)
  BY <1>6, <1>7, <1>12 DEF Enter, Within
<1>13. CASE CallFunction
  <2>1. todo[1].to \in Names
    BY <1>1, <1>13, ItemOps DEF CallFunction, At
  <2>4. Code[todo[1].to] \in Seq(Steady)
    BY <1>1, <1>13, ItemOps, SteadyCode DEF CallFunction, At
  <2>2. CASE At("call") /\ Enter(Code[todo[1].to])
    <3>1. \E d \in Seq(Item) : Tame(d) /\ Within(1, d) /\ Then(d)
      BY <1>5, <1>12, <2>1, <2>2, <2>4
    <3> QED
      BY <1>2, <2>2, <3>1 DEF At
  <2>3. CASE At("tail") /\ todo' = Code[todo[1].to] \o From({"ret"})
    <3>1. ~Free(todo[1]) /\ todo[1].op = "tail"
      BY <2>3 DEF At, Free
    <3>2. PICK j \in 2 .. Len(todo) - 2 : todo[j].op = "ret"
      BY <1>1, <2>3, <3>1, Deep DEF At
    <3>3. j \in 1 .. Len(todo)
      BY <1>1, <3>2
    <3>4. PICK r \in 1 .. j : First("ret", r)
      BY <1>1, <3>2, <3>3, FirstIs
    <3>5. todo[r].op = "ret" /\ r \in 1 .. Len(todo)
      BY <3>4 DEF First
    <3>6. r # 1
      BY <3>1, <3>5
    <3>7. r - 1 \in 1 .. Len(todo) /\ (r - 1) + 1 = r
      <4>1. r \in 1 .. Len(todo) /\ r # 1 /\ Len(todo) \in Nat
        BY <1>1, <3>5, <3>6, Zenon
      <4> QED
        BY <4>1, OneBefore, Zenon
    <3>8. todo' = Splice(todo, r - 1, Code[todo[1].to])
      <4>1. Code[todo[1].to] \o From({"ret"}) = Splice(todo, r - 1, Code[todo[1].to])
        <5> DEFINE d == Code[todo[1].to]
        <5> HIDE DEF d
        <5>1. d \o From({"ret"}) = Splice(todo, r - 1, d)
          BY <1>1, <3>4, FromFirst
        <5> QED
          BY <5>1 DEF d
      <4> QED
        BY <2>3, <4>1
    <3>9. Code[todo[1].to] \in Seq(Item) /\ Tame(Code[todo[1].to]) /\ Closing(Code[todo[1].to])
      BY <1>5, <2>1 DEF Tame
    <3>10. First("ret", (r - 1) + 1)
      BY <3>4, <3>7
    <3>11. Within(r - 1, Code[todo[1].to])
      BY <1>17, <2>4 DEF Within
    <3>12. Puts(r - 1, Code[todo[1].to])
      BY <3>8, <3>9, <3>10, <3>11 DEF Puts
    <3> QED
      BY <3>7, <3>9, <3>12
  <2> QED
    BY <1>13, <2>2, <2>3 DEF CallFunction
<1>14. CASE parser_expr_bp
  <2>1. todo[1].op \in {"expr", "infix"} /\ todo[1].min \in Nat
    BY <1>1, <1>14, ItemOps DEF parser_expr_bp, At
  <2>2. \A s \in Seq(Plain) : s \in Seq(Quick)
    <3>1. Plain \subseteq Quick
      BY DEF Quick, Open
    <3> QED
      BY <3>1, SeqMonotonic
  <2>3. <<Call("primary"), Infix(todo[1].min)>> \in Seq(Plain)
    BY <2>1, PlainIs, NamesIn
  <2>4. Cast \in Seq(Plain) /\ Operator(TagAt(pos), todo[1].min) \in Seq(Plain)
    BY <2>1, OperatorCode
  <2>5. \/ Enter(<<Call("primary"), Infix(todo[1].min)>>)
        \/ Then(Cast) \/ Then(Operator(TagAt(pos), todo[1].min))
    BY <1>14 DEF parser_expr_bp
  <2>8. \A s \in Seq(Plain) : s \in Seq(Steady)
    <3>1. Plain \subseteq Steady
      BY DEF Steady
    <3> QED
      BY <3>1, SeqMonotonic
  <2>6. ASSUME NEW c \in Seq(Plain), Enter(c) \/ Then(c)
        PROVE  \E d \in Seq(Item) : Tame(d) /\ Within(1, d) /\ Then(d)
    <3>1. c \in Seq(Item) /\ Tame(c) /\ c \in Seq(Steady) /\ Within(1, c)
      BY <1>4, <1>17, <2>2, <2>8 DEF Within
    <3> QED
      BY <1>12, <2>6, <3>1
  <2>7. \E d \in Seq(Item) : Tame(d) /\ Within(1, d) /\ Then(d)
    BY <2>3, <2>4, <2>5, <2>6
  <2> QED
    BY <1>2, <2>1, <2>7
<1>15. CASE ReturnFrom
  <2>1. ASSUME NEW op \in {"ret", "again"}, NEW j \in 1 .. Len(todo), todo[j].op = op,
               todo' = Tail(From({op}))
        PROVE  \E m \in 1 .. Len(todo) : todo' = Splice(todo, m, <<>>) /\ First(op, m)
    <3>1. PICK r \in 1 .. j : First(op, r)
      BY <1>1, <2>1, FirstIs
    <3>2. todo[r].op = op /\ r \in 1 .. Len(todo)
      BY <3>1 DEF First
    <3>3. todo' = Splice(todo, r, <<>>)
      BY <1>1, <2>1, <3>1, FromFirst
    <3> QED
      BY <3>1, <3>2, <3>3
  <2>2. ASSUME NEW op \in {"leave", "break"}, At(op)
        PROVE  Len(todo) > 3 /\ todo[Len(todo)].op = "again" /\ Len(todo) \in 1 .. Len(todo)
               /\ \E j \in 1 .. Len(todo) : todo[j].op = "ret"
    <3>1. ~Free(todo[1]) /\ todo # <<>>
      BY <2>2 DEF At, Free
    <3>2. Len(todo) > 3 /\ \E j \in 2 .. Len(todo) - 2 : todo[j].op = "ret"
      BY <1>1, <3>1, Deep
    <3> QED
      BY <1>1, <3>2, ShapeIs
  <2>3. CASE At("leave") /\ todo' = Tail(From({"ret"}))
    <3>1. PICK m \in 1 .. Len(todo) : todo' = Splice(todo, m, <<>>) /\ First("ret", m)
      BY <2>1, <2>2, <2>3
    <3>2. Puts(m, <<>>)
      BY <1>3, <3>1 DEF Puts, Within
    <3> QED
      BY <1>3, <3>2
  <2>4. CASE At("break") /\ todo' = Tail(From({"again"}))
    <3>1. PICK m \in 1 .. Len(todo) : todo' = Splice(todo, m, <<>>) /\ First("again", m)
      BY <2>1, <2>2, <2>4
    <3>2. Puts(m, <<>>)
      BY <1>3, <2>4, <3>1 DEF Puts, Within, At
    <3> QED
      BY <1>3, <3>2
  <2> QED
    BY <1>8, <1>15, <2>3, <2>4 DEF ReturnFrom
<1>16. CASE AdvanceToken \/ parse_error \/ parser_sync \/ BuildNode
  <2>1. Then(<<>>)
    BY <1>16, Zenon DEF AdvanceToken, parse_error, parser_sync, BuildNode
  <2> QED
    BY <1>8, <2>1
<1> QED
  BY <1>9, <1>10, <1>11, <1>13, <1>14, <1>15, <1>16 DEF Next, Done

LEMMA StepIs ==
    ASSUME TypeInv, Next, todo # <<>>
    PROVE  \E m \in 1 .. Len(todo), c \in Seq(Item) :
              /\ todo' = Splice(todo, m, c)
              /\ \/ m = 1
                 \/ todo[m].op \in {"ret", "again"}
                 \/ m + 1 \in 1 .. Len(todo) /\ todo[m + 1].op = "ret"
              /\ Closing(c)
              /\ todo[1] \notin Late \cup {TypeArgs} => Tame(c)
BY StepTakes DEF Puts, First

\* The name of the first instruction tells the action.
LEMMA ActionIs ==
    ASSUME Next, todo # <<>>
    PROVE  /\ todo[1].op = "advance" => AdvanceToken
           /\ todo[1].op = "error" => parse_error
           /\ todo[1].op = "sync" => parser_sync
           /\ todo[1].op = "switch" => Choose
           /\ todo[1].op = "loop" => TestLoop
           /\ todo[1].op = "again" => EndIteration
           /\ todo[1].op \in {"call", "tail"} => CallFunction
           /\ todo[1].op \in {"expr", "infix"} => parser_expr_bp
           /\ todo[1].op \in {"ret", "leave", "break"} => ReturnFrom
           /\ todo[1].op \in {"emit", "extend", "keep"} => BuildNode
BY ZenonT(30) DEF Next, AdvanceToken, parse_error, parser_sync, Choose, TestLoop, EndIteration,
       CallFunction, parser_expr_bp, ReturnFrom, BuildNode, Done, At

\* Only BuildNode changes the nodes, and nothing the file.
LEMMA OutIs ==
    ASSUME Next
    PROVE  src' = src /\ (todo = <<>> \/ todo[1].op \notin {"emit", "extend", "keep"} => out' = out)
BY ZenonT(30) DEF Next, AdvanceToken, parse_error, parser_sync, Choose, TestLoop, EndIteration, CallFunction,
       parser_expr_bp, ReturnFrom, BuildNode, Done, At, vars

\* The arguments of a type bring no node.
LEMMA QuietStep ==
    ASSUME TypeInv, Next, todo # <<>>, todo[1] \in Quiet
    PROVE  out' = out /\ \E c \in Seq(Item) :
              todo' = Splice(todo, 1, c) /\ \A k \in 1 .. Len(c) : c[k] \in Quiet
<1>1. /\ todo \in Seq(Item) /\ todo[1] \in Item /\ pos \in Nat \ {0}
  BY HeadIs, FileIs DEF TypeInv
<1>2. /\ Advance.op = "advance" /\ Error.op = "error" /\ Sync.op = "sync"
      /\ Opt("Commas").op = "switch" /\ Expect("RightBrackets").op = "switch"
      /\ \A l \in Loops \cup Agains : l.op \in {"loop", "again"}
  BY DEF Advance, Error, Sync, Opt, Expect, If, Switch, Loops, Agains, LoopsWith
<1>3. todo[1].op \in {"advance", "error", "sync", "switch", "loop", "again"}
  BY <1>2 DEF Quiet
<1>4. out' = out
  BY <1>3, OutIs
<1>5. /\ Advance \in Item /\ Error \in Item /\ Sync \in Item /\ Opt("Commas") \in Item
  BY PlainIs, TagsIn DEF Item, Still, Text, Open
<1>6. ASSUME NEW c \in Seq(Item), Then(c), \A k \in 1 .. Len(c) : c[k] \in Quiet
      PROVE  \E d \in Seq(Item) :
                todo' = Splice(todo, 1, d) /\ \A k \in 1 .. Len(d) : d[k] \in Quiet
  BY <1>1, <1>6, ThenIs
<1>7. /\ <<>> \in Seq(Item) /\ \A k \in 1 .. Len(<<>>) : <<>>[k] \in Quiet
      /\ <<Advance>> \in Seq(Item) /\ \A k \in 1 .. Len(<<Advance>>) : <<Advance>>[k] \in Quiet
      /\ <<Error, Error, Sync>> \in Seq(Item)
      /\ \A k \in 1 .. Len(<<Error, Error, Sync>>) : <<Error, Error, Sync>>[k] \in Quiet
  <2>1. Advance \in Quiet /\ Error \in Quiet /\ Sync \in Quiet
    BY DEF Quiet
  <2> QED
    BY <1>5, <2>1
<1>8. CASE todo[1].op \in {"advance", "error", "sync"}
  <2>1. Then(<<>>)
    BY <1>8, ActionIs DEF AdvanceToken, parse_error, parser_sync
  <2> QED
    BY <1>4, <1>6, <1>7, <2>1
<1>9. CASE todo[1] = Opt("Commas")
  <2>1. Choose /\ todo[1] = If(Is({"Commas"}), <<Advance>>, <<>>)
    BY <1>2, <1>9, ActionIs DEF Opt
  <2>2. Then(<<Advance>>) \/ Then(<<>>)
    BY <2>1, IfIs
  <2> QED
    BY <1>4, <1>6, <1>7, <2>2
<1>10. CASE todo[1] = Expect("RightBrackets")
  <2>1. Choose /\ todo[1] = If(Is({"RightBrackets"}), <<Advance>>, <<Error, Error, Sync>>)
    BY <1>2, <1>10, ActionIs DEF Expect
  <2>2. Then(<<Advance>>) \/ Then(<<Error, Error, Sync>>)
    BY <2>1, IfIs
  <2> QED
    BY <1>4, <1>6, <1>7, <2>2
<1>11. CASE todo[1] \in Loops /\ todo[1].body = "type_arg"
  <2> DEFINE mark == [todo[1] EXCEPT !.op = "again", !.from = pos]
             body == <<Advance, Opt("Commas")>>
  <2>1. mark \in Agains /\ mark.body = "type_arg" /\ todo[1].op = "loop"
    BY <1>1, <1>11 DEF Loops, Agains, LoopsWith
  <2>2. Code["type_arg"] = body
    BY CodeIs DEF TypeArg
  <2>3. TestLoop
    BY <2>1, ActionIs
  <2>4. Then(Append(Code["type_arg"], mark)) \/ Then(<<>>)
    BY <1>11, <2>3 DEF TestLoop
  <2>5. mark \in Item /\ mark \in Quiet
    BY <2>1 DEF Item, Quiet
  <2> HIDE DEF mark
  <2>6. body \in Seq(Item) /\ \A k \in 1 .. Len(body) : body[k] \in Quiet
    <3>1. Advance \in Quiet /\ Opt("Commas") \in Quiet
      BY DEF Quiet
    <3> QED
      BY <1>5, <3>1
  <2> HIDE DEF body
  <2> DEFINE c == Append(body, mark)
  <2>7. /\ c \in Seq(Item) /\ Len(c) = Len(body) + 1 /\ Len(body) \in Nat
        /\ \A k \in 1 .. Len(body) : c[k] = body[k]
        /\ c[Len(body) + 1] = mark
    BY <2>5, <2>6, AppendProperties, LenProperties
  <2>8. Then(c) \/ Then(<<>>)
    BY <2>2, <2>4
  <2> HIDE DEF c
  <2>9. \A k \in 1 .. Len(c) : c[k] \in Quiet
    <3> SUFFICES ASSUME NEW k \in 1 .. Len(c) PROVE c[k] \in Quiet
      OBVIOUS
    <3>1. k \in 1 .. Len(body) \/ k = Len(body) + 1
      BY <2>7
    <3> QED
      BY <2>5, <2>6, <2>7, <3>1
  <2> QED
    BY <1>4, <1>6, <1>7, <2>7, <2>8, <2>9
<1>12. CASE todo[1] \in Agains /\ todo[1].body = "type_arg"
  <2> DEFINE loop == [todo[1] EXCEPT !.op = "loop", !.from = 0]
  <2>1. loop \in Loops /\ loop.body = "type_arg" /\ todo[1].op = "again"
    BY <1>12 DEF Loops, Agains, LoopsWith
  <2>2. Then(<<loop>>)
    BY <2>1, ActionIs DEF EndIteration
  <2> HIDE DEF loop
  <2>3. loop \in Item /\ loop \in Quiet
    BY <2>1, LevelsUp DEF Quiet, Basic, Item, Still, Text, Open
  <2>4. <<loop>> \in Seq(Item) /\ \A k \in 1 .. Len(<<loop>>) : <<loop>>[k] \in Quiet
    BY <2>3
  <2> QED
    BY <1>4, <1>6, <2>2, <2>4
<1> QED
  BY <1>2, <1>8, <1>9, <1>10, <1>11, <1>12 DEF Quiet

LEMMA QuietIs == \A i \in Quiet : i \notin Late
<1>1. /\ Advance \in Quick /\ Error \in Quick /\ Sync \in Quick /\ Opt("Commas") \in Quick
      /\ Expect("RightBrackets") \in Quick /\ Loops \subseteq Quick
  BY PlainIs, TagsIn, LevelsUp DEF Quick, Open, Basic
<1> QED
  BY <1>1, QuickIs DEF Quiet

\* What comes first is new, and the rest was behind the first m.
LEMMA SplicedIs ==
    ASSUME NEW t \in Seq(Item), NEW m \in 1 .. Len(t), NEW c \in Seq(Item)
    PROVE  LET r == Splice(t, m, c) IN
           /\ r \in Seq(Item) /\ Len(t) \in Nat /\ Len(c) \in Nat /\ Len(r) \in Nat
           /\ Len(r) = Len(c) + Len(t) - m
           /\ \A k \in 1 .. Len(c) : r[k] = c[k]
           /\ \A k \in Len(c) + 1 .. Len(r) : r[k] = t[k - Len(c) + m]
           /\ \A k \in Len(c) + 1 .. Len(r) : k - Len(c) + m \in m + 1 .. Len(t)
<1> DEFINE r == Splice(t, m, c)
<1>1. Len(t) \in Nat /\ m \in 0 .. Len(t) /\ Len(c) \in Nat
  BY LenProperties
<1>2. /\ r \in Seq(Item) /\ Len(r) \in Nat
      /\ Len(r) = Len(c) + Len(t) - m
      /\ \A k \in 1 .. Len(c) : r[k] = c[k]
  BY <1>1, SpliceIs
<1>3. \A k \in Len(c) + 1 .. Len(r) : r[k] = t[k - Len(c) + m] /\ k - Len(c) + m \in 1 .. Len(t)
  BY <1>1, SpliceIs
<1> HIDE DEF r
<1>4. \A k \in Len(c) + 1 .. Len(r) : k - Len(c) + m \in m + 1 .. Len(t)
  BY <1>1, <1>2
<1>5. \A k \in Len(c) + 1 .. Len(r) : r[k] = t[k - Len(c) + m]
  BY <1>3
<1> QED
  BY <1>1, <1>2, <1>4, <1>5 DEF r

LEMMA MovedIs ==
    ASSUME todo \in Seq(Item), NEW m \in 1 .. Len(todo), NEW c \in Seq(Item), todo' = Splice(todo, m, c)
    PROVE  /\ todo' \in Seq(Item) /\ Len(todo) \in Nat /\ Len(c) \in Nat /\ Len(todo') \in Nat
           /\ Len(todo') = Len(c) + Len(todo) - m
           /\ \A k \in 1 .. Len(c) : todo'[k] = c[k]
           /\ \A k \in Len(c) + 1 .. Len(todo') :
                 todo'[k] = todo[k - Len(c) + m] /\ k - Len(c) + m \in m + 1 .. Len(todo)
BY SplicedIs, ZenonT(30)

\* The node completed is the type that the arguments follow.
LEMMA ExtendingStep ==
    ASSUME TypeInv, Extending, Next, todo # <<>>
    PROVE  Extending'
<1>1. todo \in Seq(Item) /\ Len(todo) \in Nat \ {0} /\ todo[1] \in Item /\ 1 \in 1 .. Len(todo)
  BY HeadIs
<1>2. CASE todo[1] \in Quiet
  <2>1. out' = out
    BY <1>1, <1>2, QuietStep
  <2>2. PICK c \in Seq(Item) : todo' = Splice(todo, 1, c) /\ \A k \in 1 .. Len(c) : c[k] \in Quiet
    BY <1>1, <1>2, QuietStep
  <2>3. /\ Len(todo') = Len(c) + Len(todo) - 1 /\ Len(c) \in Nat
        /\ \A k \in 1 .. Len(c) : todo'[k] = c[k]
    BY <1>1, <2>2, MovedIs
  <2>4. \A k \in Len(c) + 1 .. Len(todo') :
           todo'[k] = todo[k - Len(c) + 1] /\ k - Len(c) + 1 \in 1 + 1 .. Len(todo)
    BY <1>1, <2>2, MovedIs
  <2>5. ASSUME NEW k \in 1 .. Len(todo'), todo'[k] \in Late
        PROVE  out'[Len(out')].tag = "Type_Custom" /\ \A l \in 1 .. k - 1 : todo'[l] \in Quiet
    <3>1. k \notin 1 .. Len(c)
      BY <2>2, <2>3, <2>5, QuietIs
    <3>2. k \in Len(c) + 1 .. Len(todo')
      BY <1>1, <2>3, <3>1
    <3>3. todo[k - Len(c) + 1] \in Late /\ k - Len(c) + 1 \in 1 .. Len(todo)
      BY <1>1, <2>4, <2>5, <3>2
    <3>4. /\ out[Len(out)].tag = "Type_Custom"
          /\ \A l \in 1 .. (k - Len(c) + 1) - 1 : todo[l] \in Quiet
      BY <3>3 DEF Extending
    <3>5. ASSUME NEW l \in 1 .. k - 1 PROVE todo'[l] \in Quiet
      <4>1. CASE l \in 1 .. Len(c)
        BY <2>2, <2>3, <4>1
      <4>2. CASE l \in Len(c) + 1 .. Len(todo')
        <5>1. todo'[l] = todo[l - Len(c) + 1]
          BY <2>4, <4>2
        <5>2. l - Len(c) + 1 \in 1 .. (k - Len(c) + 1) - 1
          BY <2>3, <3>2, <4>2
        <5> QED
          BY <3>4, <5>1, <5>2
      <4>3. l \in 1 .. Len(c) \/ l \in Len(c) + 1 .. Len(todo')
        BY <2>3, <3>2
      <4> QED
        BY <4>1, <4>2, <4>3
    <3> QED
      BY <2>1, <3>4, <3>5
  <2> QED
    BY <2>5 DEF Extending
<1>3. CASE todo[1] \notin Quiet
  <2>1. \A j \in 2 .. Len(todo) : todo[j] \notin Late
    <3> SUFFICES ASSUME NEW j \in 2 .. Len(todo), todo[j] \in Late PROVE FALSE
      OBVIOUS
    <3>1. j \in 1 .. Len(todo) /\ 1 \in 1 .. j - 1
      BY <1>1
    <3> QED
      BY <1>3, <3>1 DEF Extending
  \* Only what the step puts in front may be late.
  <2>2. ASSUME NEW m \in 1 .. Len(todo), NEW c \in Seq(Item), todo' = Splice(todo, m, c)
        PROVE  /\ \A k \in 1 .. Len(c) : todo'[k] = c[k]
               /\ \A k \in 1 .. Len(todo') : todo'[k] \in Late => k \in 1 .. Len(c)
    <3>2. Len(todo') \in Nat /\ Len(c) \in Nat /\ \A k \in 1 .. Len(c) : todo'[k] = c[k]
      BY <1>1, <2>2, MovedIs
    <3>3. \A k \in Len(c) + 1 .. Len(todo') :
             todo'[k] = todo[k - Len(c) + m] /\ k - Len(c) + m \in m + 1 .. Len(todo)
      BY <1>1, <2>2, MovedIs
    <3>4. ASSUME NEW k \in Len(c) + 1 .. Len(todo') PROVE todo'[k] \notin Late
      <4>1. k - Len(c) + m \in 2 .. Len(todo)
        BY <1>1, <3>2, <3>3
      <4> QED
        BY <2>1, <3>3, <4>1
    <3>5. \A k \in 1 .. Len(todo') : k \in 1 .. Len(c) \/ k \in Len(c) + 1 .. Len(todo')
      BY <3>2
    <3> QED
      BY <3>2, <3>4, <3>5
  <2>3. ASSUME NEW c \in Seq(Item), Then(c), \A k \in 1 .. Len(c) : c[k] \notin Late
        PROVE  Extending'
    <3>1. todo' = Splice(todo, 1, c)
      <4>1. Then(c) /\ todo \in Seq(Item) /\ todo # <<>>
        BY <1>1, <2>3
      <4> QED
        BY <4>1, ThenIs
    <3>2. \A k \in 1 .. Len(todo') : todo'[k] \notin Late
      BY <1>1, <2>2, <2>3, <3>1
    <3> QED
      BY <3>2 DEF Extending
  <2>4. <<>> \in Seq(Item) /\ \A k \in 1 .. Len(<<>>) : <<>>[k] \notin Late
    OBVIOUS
  <2>5. CASE todo[1] = TypeArgs
    <3>1. Choose /\ todo[1] = If(Built("Type_Custom"), <<TypeBrackets>>, <<>>)
      BY <2>5, ActionIs, TypeArgsAre, SwitchesAre
    <3>2. (Holds(Built("Type_Custom")) /\ Then(<<TypeBrackets>>)) \/ Then(<<>>)
      BY <3>1, IfIs
    <3>3. CASE Holds(Built("Type_Custom")) /\ Then(<<TypeBrackets>>)
      <4>1. out[Len(out)].tag = "Type_Custom" /\ out' = out
        BY <3>1, <3>3, Zenon DEF Holds, Built, Choose
      <4>2. <<TypeBrackets>> \in Seq(Item) /\ Len(<<TypeBrackets>>) = 1
        BY DEF Item, Still
      <4>3. todo' = Splice(todo, 1, <<TypeBrackets>>)
        BY <1>1, <3>3, <4>2, ThenIs
      <4>4. \A k \in 1 .. Len(todo') : todo'[k] \in Late => k = 1
        <5> DEFINE c == <<TypeBrackets>>
        <5>1. todo' = Splice(todo, 1, c) /\ c \in Seq(Item) /\ Len(c) = 1
          BY <4>2, <4>3
        <5> HIDE DEF c
        <5> QED
          BY <1>1, <2>2, <5>1
      <4>5. \A l \in 1 .. 1 - 1 : todo'[l] \in Quiet
        OBVIOUS
      <4> QED
        BY <4>1, <4>4, <4>5 DEF Extending
    <3> QED
      BY <2>3, <2>4, <3>2, <3>3
  <2>6. CASE todo[1] = TypeBrackets
    <3> DEFINE c == << Advance, Until({"RightBrackets"}, "type_arg"), Expect("RightBrackets"), Extend >>
    <3>1. Choose /\ todo[1] = If(Is({"LeftBrackets"}), c, <<>>)
      BY <2>6, ActionIs, TypeArgsAre, SwitchesAre
    <3>2. Then(c) \/ Then(<<>>)
      BY <3>1, IfIs
    <3>3. CASE Then(c)
      <4>1. out[Len(out)].tag = "Type_Custom" /\ out' = out
        BY <1>1, <2>6, <3>1 DEF Extending, Late, Choose
      <4>2. c \in Seq(Item)
        <5>1. Still \subseteq Item
          BY DEF Item
        <5> QED
          BY <5>1, TypeArgsAre, SeqMonotonic
      <4>3. /\ Len(c) = 4 /\ c[1] \in Quiet /\ c[2] \in Quiet /\ c[3] \in Quiet
        <5>1. Until({"RightBrackets"}, "type_arg") \in Quiet
          <6>1. {"RightBrackets"} \in SUBSET Tags /\ "type_arg" \in Names
            BY TagsIn, NamesIn
          <6>2. /\ Until({"RightBrackets"}, "type_arg") \in Loops
                /\ Until({"RightBrackets"}, "type_arg").body = "type_arg"
            BY <6>1, LoopsAre
          <6> QED
            BY <6>2 DEF Quiet
        <5>2. Advance \in Quiet /\ Expect("RightBrackets") \in Quiet
          BY DEF Quiet
        <5> QED
          BY <5>1, <5>2
      <4>4. todo' = Splice(todo, 1, c)
        BY <1>1, <3>3, <4>2, ThenIs
      <4> HIDE DEF c
      <4>5. /\ \A k \in 1 .. Len(c) : todo'[k] = c[k]
            /\ \A k \in 1 .. Len(todo') : todo'[k] \in Late => k \in 1 .. Len(c)
        <5>1. 1 \in 1 .. Len(todo)
          BY <1>1
        <5> QED
          BY <2>2, <4>2, <4>4, <5>1
      <4>6. ASSUME NEW k \in 1 .. Len(todo'), todo'[k] \in Late
            PROVE  \A l \in 1 .. k - 1 : todo'[l] \in Quiet
        BY <4>3, <4>5, <4>6
      <4> QED
        BY <4>1, <4>6 DEF Extending
    <3> QED
      BY <2>3, <2>4, <3>2, <3>3
  <2>7. CASE todo[1] = Extend
    <3>1. Then(<<>>)
      BY <2>7, ActionIs DEF Extend, BuildNode
    <3> QED
      BY <2>3, <2>4, <3>1
  <2>8. CASE todo[1] \notin Late \cup {TypeArgs}
    <3>1. PICK m \in 1 .. Len(todo), c \in Seq(Item) : todo' = Splice(todo, m, c) /\ Tame(c)
      BY <1>1, <2>8, StepIs
    <3> QED
      BY <2>2, <3>1 DEF Tame, Extending
  <2> QED
    BY <2>5, <2>6, <2>7, <2>8 DEF Late
<1> QED
  BY <1>2, <1>3

\* What keeps silent after a step was silent before it.
LEMMA SilentStep ==
    ASSUME Next, Silent'
    PROVE  Silent
<1>1. CASE At("error")
  <2>1. parse_error
    BY <1>1, ActionIs DEF At
  <2>2. errs' = errs \cup {pos}
    BY <2>1, ZenonT(30) DEF parse_error
  <2> QED
    BY <2>2 DEF Silent
<1>2. errs \subseteq errs'
  BY DEF Next, AdvanceToken, parse_error, parser_sync, Choose, TestLoop, EndIteration, CallFunction,
         parser_expr_bp, ReturnFrom, BuildNode, Done, vars
<1> QED
  BY <1>1, <1>2 DEF Silent

\* An `end' is consumed before the node of its block is built.
LEMMA PendingStep ==
    ASSUME TypeInv, Pending, Next, todo # <<>>, Silent'
    PROVE  Pending'
<1>1. /\ todo \in Seq(Item) /\ Len(todo) \in Nat \ {0} /\ todo[1] \in Item /\ 1 \in 1 .. Len(todo)
      /\ pos \in Nat \ {0} /\ pos \in 1 .. LastPos /\ src \in Sources /\ src' = src
  BY HeadIs, FileIs, OutIs DEF TypeInv
<1>2. /\ \A e \in Emits(ClosedTags) : e.op = "emit"
      /\ Expect("Ends").op = "switch" /\ Advance.op = "advance" /\ Error.op = "error"
  BY DEF Emits, Expect, If, Switch, Advance, Error
<1>3. CASE todo[1] = Advance
  <2>1. AdvanceToken /\ Then(<<>>) /\ out' = out /\ pos' = Following(pos)
    BY <1>2, <1>3, ActionIs DEF AdvanceToken
  <2>2. todo' = Splice(todo, 1, <<>>)
    BY <1>1, <2>1, ThenIs
  <2>3. /\ Len(todo') = Len(todo) - 1
        /\ \A k \in 1 .. Len(todo') : todo'[k] = todo[k + 1] /\ k + 1 \in 1 .. Len(todo)
    <3>1. 1 \in 0 .. Len(todo) /\ todo \in Seq(Item)
      BY <1>1
    <3> DEFINE r == Splice(todo, 1, <<>>)
    <3>2. /\ Len(r) = Len(todo) - 1
          /\ \A k \in 1 .. Len(r) : r[k] = todo[k + 1] /\ k + 1 \in 1 .. Len(todo)
      BY <3>1, CutIs
    <3> HIDE DEF r
    <3>3. todo' = r
      BY <2>2 DEF r
    <3> QED
      BY <3>2, <3>3
  <2>4. ASSUME NEW k \in 1 .. Len(todo'), todo'[k] \in Emits(ClosedTags)
        PROVE  \/ k > 1 /\ todo'[k - 1] = Expect("Ends")
               \/ /\ k = 1 /\ TagAt(pos - 1)' = "Ends"
                  /\ \A i \in 1 .. Len(out') : Closed(out'[i]) => out'[i].to # pos' - 1
    <3>1. todo[k + 1] \in Emits(ClosedTags) /\ k + 1 \in 1 .. Len(todo) /\ (k + 1) - 1 = k
      BY <1>1, <2>3, <2>4
    <3>2. \/ todo[k] = Expect("Ends")
          \/ k = 1 /\ TagAt(pos) = "Ends"
      BY <3>1 DEF Pending
    <3>3. CASE k = 1
      <4>1. TagAt(pos) = "Ends"
        BY <1>2, <1>3, <3>2, <3>3
      <4>2. pos' = pos + 1 /\ pos' - 1 = pos
        <5>1. pos # LastPos
          BY <1>1, <4>1, FileIs
        <5>2. pos \in 1 .. LastPos /\ LastPos \in Nat
          BY <1>1, FileIs DEF TypeInv
        <5>3. pos < LastPos
          BY <5>1, <5>2
        <5>4. Following(pos) = pos + 1
          BY <5>2, <5>3, FollowingIs DEF TypeInv
        <5>5. pos' = pos + 1
          BY <2>1, <5>4
        <5> QED
          BY <5>2, <5>5
      <4>3. TagAt(pos - 1)' = "Ends"
        BY <1>1, <4>1, <4>2 DEF TagAt, TokenAt
      <4>4. \A i \in 1 .. Len(out) : out[i].to # pos
        <5>1. out \in Seq(Nodes) /\ \A i \in 1 .. Len(out) : out[i].to < pos
          BY DEF TypeInv, Placed
        <5>2. ASSUME NEW i \in 1 .. Len(out) PROVE out[i].to \in Nat
          <6>1. out[i] \in Nodes
            BY <5>1, ElementOfSeq
          <6> QED
            BY <6>1 DEF Nodes
        <5> QED
          BY <1>1, <5>1, <5>2
      <4> QED
        BY <2>1, <3>3, <4>2, <4>3, <4>4
    <3>4. CASE k > 1
      <4>1. k - 1 \in 1 .. Len(todo') /\ (k - 1) + 1 = k
        BY <1>1, <2>3, <3>4
      <4>2. todo'[k - 1] = todo[k]
        BY <2>3, <4>1
      <4> QED
        BY <3>2, <3>4, <4>2
    <3> QED
      BY <3>3, <3>4
  <2> QED
    BY <2>4 DEF Pending
<1>4. CASE todo[1] = Expect("Ends")
  <2>1. Choose /\ todo[1] = If(Is({"Ends"}), <<Advance>>, <<Error, Error, Sync>>)
    BY <1>2, <1>4, ActionIs DEF Expect
  <2>2. (Holds(Is({"Ends"})) /\ Then(<<Advance>>)) \/ Then(<<Error, Error, Sync>>)
    BY <2>1, IfIs
  <2>3. CASE Then(<<Error, Error, Sync>>)
    <3> DEFINE c == <<Error, Error, Sync>>
    <3>2. c \in Seq(Item) /\ Len(c) = 3 /\ c[1] = Error
      BY PlainIs DEF Item, Still, Text, Open
    <3> HIDE DEF c
    <3>3. todo' = Splice(todo, 1, c)
      <4>1. Then(c) /\ todo \in Seq(Item) /\ todo # <<>>
        BY <1>1, <2>3 DEF c
      <4> QED
        BY <3>2, <4>1, ThenIs
    <3>4. todo'[1] = Error /\ Len(todo') \in Nat \ {0} /\ todo' \in Seq(Item)
      <4>1. /\ todo' \in Seq(Item) /\ Len(todo') = Len(c) + Len(todo) - 1
            /\ \A k \in 1 .. Len(c) : todo'[k] = c[k]
        BY <1>1, <3>2, <3>3, MovedIs
      <4> QED
        BY <1>1, <3>2, <4>1
    <3>5. todo' # <<>>
      BY <3>4, EmptySeq
    <3>6. At("error")'
      BY <1>2, <3>4, <3>5 DEF At
    <3> QED
      BY <3>6 DEF Silent
  <2>4. CASE Holds(Is({"Ends"})) /\ Then(<<Advance>>)
    <3> DEFINE c == <<Advance>>
    <3>1. c \in Seq(Item) /\ Len(c) = 1 /\ c[1] = Advance
      <4>1. Advance \in Item
        BY PlainIs DEF Item, Still, Text, Open
      <4> QED
        BY <4>1
    <3>2. TagAt(pos) = "Ends" /\ pos' = pos /\ out' = out
      BY <2>1, <2>4, Zenon DEF Holds, Is, Choose
    <3>3. TagAt(pos)' = "Ends"
      BY <1>1, <3>2 DEF TagAt, TokenAt
    <3>4. todo' = Splice(todo, 1, c)
      BY <1>1, <2>4, <3>1, ThenIs
    <3> HIDE DEF c
    <3>5. /\ todo'[1] = Advance /\ Len(todo') = Len(todo)
          /\ \A k \in 2 .. Len(todo') : todo'[k] = todo[k]
      <4>1. /\ Len(todo') = Len(c) + Len(todo) - 1
            /\ \A k \in 1 .. Len(c) : todo'[k] = c[k]
            /\ \A k \in Len(c) + 1 .. Len(todo') : todo'[k] = todo[k - Len(c) + 1]
        BY <1>1, <3>1, <3>4, MovedIs, ZenonT(30)
      <4>2. \A k \in 2 .. Len(todo') : k - Len(c) + 1 = k /\ k \in Len(c) + 1 .. Len(todo')
        BY <1>1, <3>1, <4>1
      <4> QED
        BY <1>1, <3>1, <4>1, <4>2
    <3>6. ASSUME NEW k \in 1 .. Len(todo'), todo'[k] \in Emits(ClosedTags)
          PROVE  \/ k > 1 /\ todo'[k - 1] = Expect("Ends")
                 \/ k = 2 /\ todo'[1] = Advance /\ TagAt(pos)' = "Ends"
      <4>1. k # 1
        BY <1>2, <3>5, <3>6
      <4>2. CASE k = 2
        BY <3>3, <3>5, <4>2
      <4>3. CASE k > 2
        <5>1. k \in 2 .. Len(todo') /\ k - 1 \in 2 .. Len(todo') /\ k \in 1 .. Len(todo)
          BY <3>5, <4>3
        <5>2. todo[k] \in Emits(ClosedTags) /\ todo'[k - 1] = todo[k - 1]
          BY <3>5, <3>6, <5>1
        <5>3. todo[k - 1] = Expect("Ends")
          BY <4>3, <5>1, <5>2 DEF Pending
        <5> QED
          BY <4>3, <5>2, <5>3
      <4>4. k = 2 \/ k > 2
        BY <4>1
      <4> QED
        BY <4>2, <4>3, <4>4
    <3> QED
      BY <3>6 DEF Pending
  <2> QED
    BY <2>2, <2>3, <2>4
<1>5. CASE todo[1] # Advance /\ todo[1] # Expect("Ends")
  <2>1. PICK m \in 1 .. Len(todo), c \in Seq(Item) :
              /\ todo' = Splice(todo, m, c)
              /\ \/ m = 1
                 \/ todo[m].op \in {"ret", "again"}
                 \/ m + 1 \in 1 .. Len(todo) /\ todo[m + 1].op = "ret"
              /\ Closing(c)
    BY StepIs
  <2>2. /\ Len(c) \in Nat /\ Len(todo') \in Nat
        /\ \A k \in 1 .. Len(c) : todo'[k] = c[k]
    BY <1>1, <2>1, MovedIs
  <2>3. \A k \in Len(c) + 1 .. Len(todo') :
           todo'[k] = todo[k - Len(c) + m] /\ k - Len(c) + m \in m + 1 .. Len(todo)
    BY <1>1, <2>1, MovedIs
  <2>5. m \in Nat /\ m > 0
    BY <1>1
  <2>4. ASSUME NEW k \in 1 .. Len(todo'), todo'[k] \in Emits(ClosedTags)
        PROVE  k > 1 /\ todo'[k - 1] = Expect("Ends")
    <3>1. CASE k \in 1 .. Len(c)
      <4>1. k > 1 /\ c[k - 1] = Expect("Ends") /\ k - 1 \in 1 .. Len(c)
        BY <2>1, <2>2, <2>4, <3>1 DEF Closing
      <4> QED
        BY <2>2, <4>1
    <3>2. CASE k \in Len(c) + 1 .. Len(todo')
      <4> DEFINE j == k - Len(c) + m
      <4>1. todo[j] \in Emits(ClosedTags) /\ j \in m + 1 .. Len(todo)
        BY <2>3, <2>4, <3>2
      <4>2. j \in 1 .. Len(todo) /\ j > 1 /\ j - 1 \in m .. Len(todo)
        <5>1. Len(todo) \in Nat /\ m \in 1 .. Len(todo) /\ j \in m + 1 .. Len(todo)
          BY <1>1, <4>1
        <5> HIDE DEF j
        <5> QED
          BY <5>1
      <4>3. todo[j - 1] = Expect("Ends")
        <5> HIDE DEF j
        <5> QED
          BY <1>5, <4>1, <4>2 DEF Pending
      <4>4. j - 1 # m
        <5>1. m = 1 \/ todo[m].op \in {"ret", "again"} \/ todo[m + 1].op = "ret"
          BY <2>1
        <5>2. ASSUME j - 1 = m PROVE FALSE
          <6>1. j = m + 1
            BY <4>2, <5>2
          <6> HIDE DEF j
          <6> QED
            BY <1>2, <1>5, <4>1, <4>3, <5>1, <5>2, <6>1
        <5> QED
          BY <5>2
      <4>5. k > Len(c) + 1 /\ k - 1 \in Len(c) + 1 .. Len(todo') /\ (k - 1) - Len(c) + m = j - 1
        <5>1. /\ Len(c) \in Nat /\ Len(todo') \in Nat /\ k \in Len(c) + 1 .. Len(todo') /\ m \in Nat
              /\ j = k - Len(c) + m /\ j - 1 # m
          BY <2>2, <2>5, <3>2, <4>4
        <5> HIDE DEF j
        <5>2. k # Len(c) + 1
          BY <5>1
        <5>3. k \in Nat /\ k >= Len(c) + 1 /\ k <= Len(todo')
          BY <5>1
        <5> QED
          BY <5>1, <5>2, <5>3
      <4>6. todo'[k - 1] = todo[j - 1]
        <5> HIDE DEF j
        <5> QED
          BY <2>3, <4>5
      <4> QED
        BY <2>2, <4>3, <4>5, <4>6
    <3>3. k \in 1 .. Len(c) \/ k \in Len(c) + 1 .. Len(todo')
      BY <2>2
    <3> QED
      BY <3>1, <3>2, <3>3
  <2> QED
    BY <2>4 DEF Pending
<1> QED
  BY <1>3, <1>4, <1>5

LEMMA EmitIs ==
    ASSUME NEW i \in Item, i.op = "emit"
    PROVE  i.tag \in ClosedTags => i \in Emits(ClosedTags)
<1>1. OpenTags \cap ClosedTags = {}
  BY DEF OpenTags, ClosedTags
<1>2. CASE i \in Plain
  <2>1. i.tag \in OpenTags
    BY <1>2, PlainOps, BasicOps
  <2> QED
    BY <1>1, <2>1
<1>3. \A e \in Breakers \cup {TypeArgs, TypeBrackets} : e.op = "switch"
  BY SwitchesAre
<1>4. \A e \in {Keep, Break, Extend} \cup Rets \cup Agains : e.op # "emit"
  BY DEF Keep, Break, Extend, Rets, Agains, LoopsWith
<1> QED
  BY <1>2, <1>3, <1>4 DEF Item, Still, Text, Open

LEMMA ExtendIs ==
    ASSUME NEW i \in Item, i.op = "extend"
    PROVE  i = Extend
<1>1. i \notin Plain
  BY PlainOps, BasicOps
<1>2. \A e \in Breakers \cup {TypeArgs, TypeBrackets} : e.op = "switch"
  BY SwitchesAre
<1>3. \A e \in {Keep, Break} \cup Rets \cup Agains \cup Emits(ClosedTags) : e.op # "extend"
  BY DEF Keep, Break, Rets, Agains, LoopsWith, Emits
<1> QED
  BY <1>1, <1>2, <1>3 DEF Item, Still, Text, Open

\* The node of a block takes the `end' that has just been consumed.
LEMMA OwnEndsStep ==
    ASSUME TypeInv, Extending, Pending, OwnEnds, Next, todo # <<>>
    PROVE  OwnEnds'
<1>1. /\ todo \in Seq(Item) /\ Len(todo) \in Nat \ {0} /\ todo[1] \in Item /\ 1 \in 1 .. Len(todo)
      /\ src' = src /\ out \in Seq(Nodes) /\ Len(out) \in Nat
  BY HeadIs, OutIs, LenProperties DEF TypeInv, Placed
\* No block is new or has another end.
<1>3. ASSUME \A i \in 1 .. Len(out') : Closed(out'[i]) => i \in 1 .. Len(out) /\ out'[i] = out[i]
      PROVE  OwnEnds'
  <2>1. ASSUME NEW i \in 1 .. Len(out'), Closed(out'[i])
        PROVE  /\ TagAt(out'[i].to) = "Ends"
               /\ \A j \in 1 .. Len(out') : Closed(out'[j]) /\ out'[j].to = out'[i].to => j = i
    BY <1>3, <2>1 DEF OwnEnds
  <2> QED
    BY <1>1, <2>1 DEF OwnEnds, TagAt, TokenAt
<1>4. CASE out' = out
  BY <1>3, <1>4
<1>5. CASE todo[1].op = "emit"
  <2> DEFINE node == [tag |-> todo[1].tag, from |-> Entry, to |-> pos - 1]
  <2>1. out' = Append(out, node)
    BY <1>5, ActionIs DEF BuildNode, At
  <2>2. node.tag = todo[1].tag /\ node.to = pos - 1
    OBVIOUS
  <2> HIDE DEF node
  <2>3. /\ Len(out') = Len(out) + 1 /\ out'[Len(out) + 1] = node
        /\ \A i \in 1 .. Len(out) : out'[i] = out[i]
    <3>1. out \in Seq(Nodes \cup {node})
      BY <1>1, SeqMonotonic
    <3> QED
      BY <2>1, <3>1, AppendProperties
  <2>4. CASE ~Closed(node)
    <3>1. ASSUME NEW i \in 1 .. Len(out'), Closed(out'[i]) PROVE i \in 1 .. Len(out)
      BY <1>1, <2>3, <2>4, <3>1
    <3> QED
      BY <1>3, <2>3, <3>1
  <2>5. CASE Closed(node)
    <3>1. todo[1] \in Emits(ClosedTags)
      BY <1>1, <1>5, <2>2, <2>5, EmitIs DEF Closed
    <3>2. /\ TagAt(pos - 1) = "Ends"
          /\ \A i \in 1 .. Len(out) : Closed(out[i]) => out[i].to # pos - 1
      BY <1>1, <3>1 DEF Pending
    <3>3. ASSUME NEW i \in 1 .. Len(out'), Closed(out'[i])
          PROVE  /\ TagAt(out'[i].to) = "Ends"
                 /\ \A j \in 1 .. Len(out') : Closed(out'[j]) /\ out'[j].to = out'[i].to => j = i
      <4>1. \A j \in 1 .. Len(out') : j \in 1 .. Len(out) \/ j = Len(out) + 1
        BY <1>1, <2>3
      <4>2. CASE i = Len(out) + 1
        <5>1. out'[i].to = pos - 1
          BY <2>2, <2>3, <4>2
        <5> QED
          BY <2>3, <3>2, <4>1, <4>2, <5>1
      <4>3. CASE i \in 1 .. Len(out)
        <5>1. Closed(out[i]) /\ out'[i].to = out[i].to /\ out[i].to # pos - 1
          BY <2>3, <3>2, <3>3, <4>3
        <5>2. out'[Len(out) + 1].to = pos - 1
          BY <2>2, <2>3
        <5> QED
          BY <2>3, <4>1, <4>3, <5>1, <5>2 DEF OwnEnds
      <4> QED
        BY <4>1, <4>2, <4>3
    <3> QED
      BY <1>1, <3>3 DEF OwnEnds, TagAt, TokenAt
  <2> QED
    BY <2>4, <2>5
<1>6. CASE todo[1].op = "extend"
  <2>1. out' = [out EXCEPT ![Len(out)].to = pos - 1]
    BY <1>6, ActionIs DEF BuildNode, At
  <2>2. out[Len(out)].tag = "Type_Custom"
    <3>1. todo[1] = Extend
      BY <1>1, <1>6, ExtendIs
    <3> QED
      BY <1>1, <3>1 DEF Extending, Late
  <2>3. CASE Len(out) = 0
    <3>1. out' = out
      BY <1>1, <2>1, <2>3, EmptySeq
    <3> QED
      BY <1>4, <3>1
  <2>4. CASE Len(out) > 0
    <3> DEFINE node == [out[Len(out)] EXCEPT !.to = pos - 1]
    <3>1. out[Len(out)] \in Nodes
      BY <1>1, <2>4, ElementOfSeq
    <3>2. node \in [tag : NodeTags, from : Nat \ {0}, to : Int] /\ node.tag = "Type_Custom"
      <4>1. pos - 1 \in Nat
        BY <1>1, FileIs DEF TypeInv
      <4> DEFINE old == out[Len(out)]
      <4> HIDE DEF old
      <4>2. old \in Nodes /\ old.tag = "Type_Custom"
        BY <2>2, <3>1 DEF old
      <4>3. node = [old EXCEPT !.to = pos - 1]
        BY DEF old
      <4> HIDE DEF node
      <4>4. node \in Nodes /\ node.tag = "Type_Custom"
        BY <4>1, <4>2, <4>3, NodeEnds, Zenon
      <4> QED
        BY <4>4 DEF Nodes
    <3>3. out' = [out EXCEPT ![Len(out)] = node]
      BY <2>1
    <3> HIDE DEF node
    <3>4. /\ Len(out') = Len(out)
          /\ \A i \in 1 .. Len(out) : out'[i] = IF i = Len(out) THEN node ELSE out[i]
      BY <1>1, <2>4, <3>2, <3>3, ExceptSeq
    <3>5. ~Closed(node)
      BY <3>2 DEF Closed, ClosedTags
    <3> QED
      BY <1>3, <3>4, <3>5
  <2> QED
    BY <1>1, <2>3, <2>4
<1>7. CASE todo[1].op = "keep"
  <2>1. out' = out \/ out' = SubSeq(out, 1, Len(out) - 1)
    BY <1>7, ActionIs DEF BuildNode, At
  <2>2. CASE out' = SubSeq(out, 1, Len(out) - 1)
    <3> DEFINE n == Len(out) - 1
    <3>1. \A i \in 1 .. Len(out') : i \in 1 .. n /\ out'[i] = out[i]
      <4>1. \A i \in 1 .. Len(out) - 1 : out[i] \in Nodes
        BY <1>1, ElementOfSeq
      <4>2. n \in Int
        BY <1>1
      <4>3. /\ Len(SubSeq(out, 1, n)) = IF 1 <= n THEN n - 1 + 1 ELSE 0
            /\ \A i \in 1 .. n - 1 + 1 : SubSeq(out, 1, n)[i] = out[1 + i - 1]
        BY <4>1, <4>2, SubSeqProperties
      <4> HIDE DEF n
      <4>4. n - 1 + 1 = n /\ \A i \in 1 .. n : 1 + i - 1 = i
        BY <4>2
      <4>5. out' = SubSeq(out, 1, n)
        BY <2>2 DEF n
      <4> QED
        BY <4>2, <4>3, <4>4, <4>5
    <3>2. \A i \in 1 .. n : i \in 1 .. Len(out)
      BY <1>1
    <3> QED
      BY <1>3, <3>1, <3>2
  <2> QED
    BY <1>4, <2>1, <2>2
<1> QED
  BY <1>4, <1>5, <1>6, <1>7, OutIs

\* The invariant of the blocks, and that it is one.
LEMMA ClosedStep == TypeInv /\ ClosedInv /\ [Next]_vars => ClosedInv'
<1> SUFFICES ASSUME TypeInv, ClosedInv, [Next]_vars PROVE ClosedInv'
  OBVIOUS
<1>1. CASE UNCHANGED vars
  BY <1>1 DEF vars, ClosedInv, Extending, Silent, Pending, OwnEnds, At, TagAt, TokenAt
<1>2. CASE Next /\ todo # <<>>
  <2>1. Extending'
    BY <1>2, ExtendingStep DEF ClosedInv
  <2>2. ASSUME Silent' PROVE Pending' /\ OwnEnds'
    <3>1. Pending /\ OwnEnds /\ Extending
      BY <1>2, <2>2, SilentStep DEF ClosedInv
    <3> QED
      BY <1>2, <2>2, <3>1, PendingStep, OwnEndsStep
  <2> QED
    BY <2>1, <2>2 DEF ClosedInv
<1>3. CASE Next /\ todo = <<>>
  <2>1. UNCHANGED vars
    BY <1>3 DEF Next, AdvanceToken, parse_error, parser_sync, Choose, TestLoop, EndIteration, CallFunction,
           parser_expr_bp, ReturnFrom, BuildNode, Done, At
  <2> QED
    BY <1>1, <2>1
<1> QED
  BY <1>1, <1>2, <1>3

\* A file in which no error is found has an `end' for every block, and no two
\* blocks share one.
THEOREM BlocksClosed == Spec => []ClosedIfSilent
<1>1. Init => ClosedInv
  <2> SUFFICES ASSUME Init PROVE ClosedInv
    OBVIOUS
  <2> DEFINE main == Guarded({}, "body")
  <2>1. main \in Quick
    BY LoopsAre, NamesIn, LevelsUp DEF Quick, Open, Basic
  <2>2. main \notin Late /\ main \notin Emits(ClosedTags)
    BY <2>1, QuickIs
  <2> HIDE DEF main
  <2>3. \A k \in 1 .. Len(todo) : todo[k] = main
    BY DEF Init, main
  <2>4. Len(out) = 0
    BY DEF Init
  <2> QED
    BY <2>2, <2>3, <2>4 DEF ClosedInv, Extending, Pending, OwnEnds
<1>2. TypeInv /\ ClosedInv => ClosedIfSilent
  <2> SUFFICES ASSUME TypeInv, ClosedInv, Ended, errs = {} PROVE ClosedIfSilent
    BY DEF ClosedIfSilent
  <2>1. OwnEnds
    BY DEF Ended, ClosedInv, Silent, At
  <2>2. DOMAIN out = 1 .. Len(out)
    BY LenProperties DEF TypeInv, Placed
  <2> QED
    BY <2>1, <2>2, Zenon DEF ClosedIfSilent, OwnEnds, Closed
<1> QED
  BY <1>1, <1>2, Init1, TypeStep, ClosedStep, PTL DEF Spec
-----------------------------------------------------------------------------
(* What the parser drops it reports.                                       *)

\* The tokens before p are in the nodes, or in an annotation.
Covered(nodes, p) ==
    \A q \in 1 .. p - 1 :
       \/ \E i \in 1 .. Len(nodes) :
             nodes[i].tag # "Invalid" /\ q \in nodes[i].from .. nodes[i].to
       \/ Annotated(q)

\* The first token of the statement that main is parsing, once it has begun.
Base == todo[Len(todo) - 2].from
\* Main is done with the tokens before this one.
Seen == IF Len(todo) > 3 THEN Base ELSE pos

\* What parser_stmt leaves the statement to consumes its first token at once.
Leading == (ItemNames \ {"const"}) \cup {"operation", "array", "parenthesis", "identifier"}
\* What parser_stmt may do before it consumes a token.
Starting ==
    {Call("stmt"), parser_stmt[1], Advance, Expr(0), Call("primary"), parser_expr_primary[1]}
    \cup {TailCall(f) : f \in Leading}
\* The iteration of main consumes a token.
Started ==
    LET n == Len(todo) IN
    n > 0 /\ todo[n].op = "again" =>
       TagAt(todo[n].from) # "EOFs" /\ (todo[n].from < pos \/ todo[1] \in Starting)

\* What stays in the function that executes it, without a word or after an error.
Sure == Calm3 \cup {l \in Agains : l.body \in CalmBodies}
        \cup {Keep, ExternParam[1], parser_ffi[2], parser_ffi[3]}
\* What builds the node of a statement, in the end.
Promises == Emits(KeptTags \cup ClosedTags) \cup {TailCall(f) : f \in ItemNames \cup {"ffi"}}
            \cup OneOfs \cup Unsafes
\* Instruction k of t does not leave the function that instruction j + 1 is of.
Sheltered(t, k, j) == t[k] \in Sure \/ \E r \in k .. j : t[r].op = "ret"
\* The statement that main is parsing ends with its node.
Owed(t) ==
    LET n == Len(t) IN
    n > 3 /\ t[n - 3] \in Promises /\ \A k \in 1 .. n - 4 : Sheltered(t, k, n - 4)

\* Or it has not begun, or is an annotation: then it has come past the head and
\* some of the tokens that the function reads.
Fresh == Len(todo) = 4 /\ todo[1] = parser_stmt[1] /\ pos = Base
Annotations == { [word |-> "operation", to |-> "operation_op", len |-> 6],
                 [word |-> "atom", to |-> "operation_atom", len |-> 12] }
Reading == {Advance} \cup {If(t, <<Advance>>, <<Error, Leave>>) : t \in Tests}
Heading ==
    \/ Len(todo) = 4 /\ todo[1] = TailCall("operation") /\ pos = Base
    \/ Len(todo) = 5 /\ todo[1] = Advance /\ todo[2] = parser_operation[2] /\ pos = Base
    \/ Len(todo) = 4 /\ todo[1] = parser_operation[2] /\ pos = Base + 1
Noting(a) ==
    LET n == Len(todo) IN
    /\ n > 3 /\ todo[n - 3] = Emit("Invalid") /\ TokenAt(Base + 1) = a.word
    /\ \/ n = 6 /\ todo[1] = Advance /\ todo[2] = Call(a.to) /\ pos <= Base + 1
       \/ n = 5 /\ todo[1] = Call(a.to) /\ pos <= Base + 2
       \/ /\ n > 4 /\ todo[n - 4].op = "ret" /\ pos + (n - 5) <= Base + a.len
          /\ \A k \in 1 .. n - 5 : todo[k] \in Reading
       \/ n = 4 /\ pos <= Base + a.len
Annotating == TagAt(Base) = "Ats" /\ (Heading \/ \E a \in Annotations : Noting(a))

\* What main is parsing comes to that.
Underway == Owed(todo) \/ Fresh \/ Annotating

\* Without an error main has kept what it is done with, and the statement in
\* progress will be kept too.
SkipInv ==
    /\ Looped(todo)
    /\ Silent => /\ todo = <<>> => pos = LastPos
                 /\ Started
                 /\ Len(todo) > 3 => Underway
                 /\ Covered(out, Seen)

\* No step leaves a loop that has not begun.
LEMMA LoopedStep ==
    ASSUME TypeInv, Looped(todo), Next, todo # <<>>
    PROVE  Looped(todo')
<1>1. todo \in Seq(Item) /\ Len(todo) \in Nat \ {0} /\ 1 \in 1 .. Len(todo)
  BY HeadIs
<1>2. PICK m \in 1 .. Len(todo), c \in Seq(Item) : Puts(m, c)
  BY StepTakes
<1>3. todo' = Splice(todo, m, c) /\ Within(m, c)
  BY <1>2 DEF Puts
<1>4. /\ Len(c) \in Nat /\ Len(todo') \in Nat /\ Len(todo') = Len(c) + Len(todo) - m
      /\ \A k \in 1 .. Len(c) : todo'[k] = c[k]
      /\ m \in Nat /\ m > 0
  BY <1>1, <1>3, MovedIs
<1>5. \A k \in Len(c) + 1 .. Len(todo') :
         todo'[k] = todo[k - Len(c) + m] /\ k - Len(c) + m \in m + 1 .. Len(todo)
  BY <1>1, <1>3, MovedIs
\* A loop among what stays.
<1>6. ASSUME NEW j \in m + 1 .. Len(todo), todo[j].op = "again",
             NEW i \in m .. j, \A l \in i + 1 .. j : todo[l].op # "ret"
      PROVE  LET e == j - m + Len(c) IN
             /\ e \in Len(c) + 1 .. Len(todo') /\ todo'[e].op = "again"
             /\ \A l \in Len(c) + 1 .. e : l > i - m + Len(c) => todo'[l].op # "ret"
  <2> DEFINE e == j - m + Len(c)
  <2>1. e \in Len(c) + 1 .. Len(todo') /\ e - Len(c) + m = j
    BY <1>1, <1>4
  <2>2. todo'[e].op = "again"
    BY <1>5, <1>6, <2>1
  <2>3. ASSUME NEW l \in Len(c) + 1 .. e, l > i - m + Len(c) PROVE todo'[l].op # "ret"
    <3>1. l \in Len(c) + 1 .. Len(todo') /\ l - Len(c) + m \in i + 1 .. j
      BY <1>1, <1>4, <2>1, <2>3
    <3> QED
      BY <1>5, <1>6, <3>1
  <2> QED
    BY <2>1, <2>2, <2>3
<1>7. ASSUME NEW k \in Len(c) + 1 .. Len(todo') PROVE todo'[k] \in Steady \/ InLoop(todo', k)
  <2> DEFINE i == k - Len(c) + m
  <2>1. todo'[k] = todo[i] /\ i \in m + 1 .. Len(todo)
    BY <1>5
  <2>2. i \in 1 .. Len(todo) /\ i - m + Len(c) = k
    BY <1>1, <1>4, <2>1
  <2> HIDE DEF i
  <2>3. CASE InLoop(todo, i)
    <3>1. PICK j \in i + 1 .. Len(todo) : todo[j].op = "again" /\ \A l \in i .. j : todo[l].op # "ret"
      BY <2>3 DEF InLoop
    <3>2. j \in m + 1 .. Len(todo) /\ i - 1 \in m .. j /\ \A l \in (i - 1) + 1 .. j : l \in i .. j
      BY <1>1, <1>4, <2>1, <3>1
    <3> DEFINE e == j - m + Len(c)
    <3>3. /\ e \in Len(c) + 1 .. Len(todo') /\ todo'[e].op = "again"
          /\ \A l \in Len(c) + 1 .. e : l > (i - 1) - m + Len(c) => todo'[l].op # "ret"
      BY <1>6, <3>1, <3>2
    <3>4. e > k /\ \A l \in k .. e : l \in Len(c) + 1 .. e /\ l > (i - 1) - m + Len(c)
      <4>1. /\ Len(c) \in Nat /\ i \in Nat /\ m \in Nat /\ j \in Nat /\ j > i /\ i - m + Len(c) = k
            /\ k > Len(c)
        BY <1>1, <1>4, <2>1, <2>2, <3>1, SMTT(30)
      <4>2. e \in Int /\ k \in Int /\ e > k /\ (i - 1) - m + Len(c) = k - 1
        BY <4>1
      <4> HIDE DEF e
      <4> QED
        BY <4>1, <4>2
    <3> HIDE DEF e
    <3>5. e \in k + 1 .. Len(todo')
      BY <1>4, <3>3, <3>4
    <3> QED
      BY <3>3, <3>4, <3>5 DEF InLoop
  <2> QED
    BY <2>1, <2>2, <2>3 DEF Looped
<1>8. ASSUME NEW k \in 1 .. Len(c) PROVE todo'[k] \in Steady \/ InLoop(todo', k)
  <2>1. CASE Looped(c)
    <3>1. CASE InLoop(c, k)
      <4>1. PICK j \in k + 1 .. Len(c) : c[j].op = "again" /\ \A l \in k .. j : c[l].op # "ret"
        BY <3>1 DEF InLoop
      <4>2. j \in 1 .. Len(c) /\ j \in k + 1 .. Len(todo') /\ \A l \in k .. j : l \in 1 .. Len(c)
        BY <1>1, <1>4
      <4>3. todo'[j].op = "again" /\ \A l \in k .. j : todo'[l].op # "ret"
        BY <1>4, <4>1, <4>2
      <4> QED
        BY <4>2, <4>3 DEF InLoop
    <3> QED
      BY <1>4, <2>1, <3>1 DEF Looped
  <2>2. CASE m = 1 /\ todo[1] \notin Steady /\ \A l \in 1 .. Len(c) : c[l].op # "ret"
    <3>1. InLoop(todo, 1)
      BY <1>1, <2>2 DEF Looped
    <3>2. PICK j \in 1 + 1 .. Len(todo) : todo[j].op = "again" /\ \A l \in 1 .. j : todo[l].op # "ret"
      BY <3>1 DEF InLoop
    <3>3. j \in m + 1 .. Len(todo) /\ m \in m .. j /\ \A l \in m + 1 .. j : l \in 1 .. j
      BY <1>1, <2>2, <3>2
    <3> DEFINE e == j - m + Len(c)
    <3>4. /\ e \in Len(c) + 1 .. Len(todo') /\ todo'[e].op = "again"
          /\ \A l \in Len(c) + 1 .. e : l > m - m + Len(c) => todo'[l].op # "ret"
      BY <1>6, <3>2, <3>3
    <3> HIDE DEF e
    <3>5. e \in k + 1 .. Len(todo')
      BY <1>4, <3>4
    <3>6. \A l \in k .. e : l \in 1 .. Len(c) \/ (l \in Len(c) + 1 .. e /\ l > m - m + Len(c))
      BY <1>4, <3>4
    <3>7. \A l \in k .. e : todo'[l].op # "ret"
      BY <1>4, <2>2, <3>4, <3>6
    <3> QED
      BY <3>4, <3>5, <3>7 DEF InLoop
  <2> QED
    BY <1>3, <2>1, <2>2 DEF Within
<1>9. \A k \in 1 .. Len(todo') : k \in 1 .. Len(c) \/ k \in Len(c) + 1 .. Len(todo')
  BY <1>4
<1> QED
  BY <1>7, <1>8, <1>9 DEF Looped

\* What is put in front is next, and an error that is next is reported.
LEMMA NextIs ==
    ASSUME TypeInv, todo # <<>>, NEW m \in 1 .. Len(todo), NEW c \in Seq(Item), Len(c) > 0,
           todo' = Splice(todo, m, c)
    PROVE  todo' # <<>> /\ todo'[1] = c[1] /\ (c[1] = Error => ~Silent')
<1>1. todo \in Seq(Item) /\ Len(todo) \in Nat \ {0}
  BY HeadIs
<1>2. /\ todo' \in Seq(Item) /\ Len(c) \in Nat /\ Len(todo') = Len(c) + Len(todo) - m
      /\ \A k \in 1 .. Len(c) : todo'[k] = c[k]
  BY <1>1, MovedIs
<1>3. todo'[1] = c[1] /\ Len(todo') # 0
  BY <1>1, <1>2
<1>4. todo' # <<>>
  BY <1>2, <1>3, EmptySeq
<1>5. c[1] = Error => At("error")'
  BY <1>3, <1>4 DEF At, Error
<1> QED
  BY <1>3, <1>4, <1>5 DEF Silent

\* The switches among what stays in its function.
LEMMA CalmOps ==
    ASSUME NEW i \in Calm3
    PROVE  \/ i \in Calm
           \/ /\ i.op = "switch" /\ i.default \in Seq(Calm3)
              /\ \A c \in DOMAIN i.cases : i.cases[c].code \in Seq(Calm3)
<1>1. Calm \subseteq Calm1 /\ Calm1 \subseteq Calm2 /\ Calm2 \subseteq Calm3
  BY NestedIs DEF Calm1, Calm2, Calm3
<1>2. \A s \in Seq(Calm) \cup Seq(Calm1) \cup Seq(Calm2) : s \in Seq(Calm3)
  BY <1>1, SeqMonotonic
<1>3. CASE i \in Switches(Seq(Calm))
  BY <1>2, <1>3, SwitchIs
<1>4. CASE i \in Switches(Seq(Calm1))
  BY <1>2, <1>4, SwitchIs
<1>5. CASE i \in Switches(Seq(Calm2))
  BY <1>2, <1>5, SwitchIs
<1> QED
  BY <1>3, <1>4, <1>5 DEF Calm3, Calm2, Calm1, Nested

LEMMA SureIs ==
    /\ Sure \subseteq Item /\ CalmItem \subseteq Sure
    /\ \A f \in CalmBodies : Code[f] \in Seq(Sure)
<1>1. CalmItem \subseteq Sure
  BY DEF Sure, CalmItem
<1>2. parser_ffi[2] \in Plain /\ parser_ffi[3] \in Plain
  <2> DEFINE s == parser_ffi
  <2>1. s \in Seq(Plain) /\ Len(s) = 4
    BY FfiCode DEF parser_ffi
  <2> HIDE DEF s
  <2>3. 2 \in 1 .. Len(s) /\ 3 \in 1 .. Len(s)
    BY <2>1
  <2>4. s[2] \in Plain
    BY <2>1, <2>3, ElementOfSeq
  <2>5. s[3] \in Plain
    BY <2>1, <2>3, ElementOfSeq
  <2>2. s[2] \in Plain /\ s[3] \in Plain
    BY <2>4, <2>5
  <2> QED
    BY <2>2 DEF s
<1>3. Sure \subseteq Item
  BY <1>2, CalmBelow DEF Sure, Item, Still, Text, Open, Breakers
<1>4. \A f \in CalmBodies : Code[f] \in Seq(Sure)
  BY <1>1, CalmCode, SeqMonotonic
<1> QED
  BY <1>1, <1>3, <1>4

\* What stays in its function gives way to what does, or enters another one.
LEMMA SureStep ==
    ASSUME TypeInv, Next, todo # <<>>, todo[1] \in Sure, Silent'
    PROVE  \E c \in Seq(Item) :
              /\ todo' = Splice(todo, 1, c)
              /\ \A k \in 1 .. Len(c) : Sheltered(c, k, Len(c))
<1>1. /\ todo \in Seq(Item) /\ todo[1] \in Item /\ pos \in Nat \ {0} /\ 1 \in 1 .. Len(todo)
  BY HeadIs, FileIs DEF TypeInv
<1>2. ASSUME NEW c \in Seq(Item), Then(c), \A k \in 1 .. Len(c) : Sheltered(c, k, Len(c))
      PROVE  \E d \in Seq(Item) :
                todo' = Splice(todo, 1, d) /\ \A k \in 1 .. Len(d) : Sheltered(d, k, Len(d))
  BY <1>1, <1>2, ThenIs
<1>3. ASSUME NEW c \in Seq(Sure)
      PROVE  c \in Seq(Item) /\ Len(c) \in Nat /\ \A k \in 1 .. Len(c) : Sheltered(c, k, Len(c))
  BY SureIs, SeqMonotonic, ElementOfSeq, LenProperties DEF Sheltered
<1>4. <<>> \in Seq(Sure) /\ Advance \in Sure /\ <<Advance>> \in Seq(Sure)
  BY Calm3Is DEF Sure
<1>5. ASSUME NEW s \in Seq(Item), NEW i \in Rets
      PROVE  LET c == Append(s, i) IN
             c \in Seq(Item) /\ \A k \in 1 .. Len(c) : Sheltered(c, k, Len(c))
  <2> DEFINE c == Append(s, i)
  <2>1. i \in Item /\ i.op = "ret"
    BY DEF Item, Rets
  <2>2. c \in Seq(Item) /\ Len(c) = Len(s) + 1 /\ c[Len(s) + 1] = i /\ Len(s) \in Nat
    BY <2>1, AppendProperties, LenProperties
  <2> HIDE DEF c
  <2>3. c[Len(c)].op = "ret" /\ \A k \in 1 .. Len(c) : Len(c) \in k .. Len(c)
    BY <2>1, <2>2
  <2>4. \A k \in 1 .. Len(c) : Sheltered(c, k, Len(c))
    BY <2>3 DEF Sheltered
  <2> QED
    BY <2>2, <2>4 DEF c
<1>6. [op |-> "ret", from |-> pos] \in Rets
  BY <1>1 DEF Rets
<1>7. CASE Then(<<>>)
  BY <1>2, <1>3, <1>4, <1>7
<1>8. ASSUME NEW c \in Seq(Sure), Then(c)
      PROVE  \E d \in Seq(Item) :
                todo' = Splice(todo, 1, d) /\ \A k \in 1 .. Len(d) : Sheltered(d, k, Len(d))
  BY <1>2, <1>3, <1>8
<1>9. ASSUME NEW c \in Seq(Item), Enter(c)
      PROVE  \E d \in Seq(Item) :
                todo' = Splice(todo, 1, d) /\ \A k \in 1 .. Len(d) : Sheltered(d, k, Len(d))
  BY <1>2, <1>5, <1>6, <1>9 DEF Enter
<1>10. CASE todo[1].op \in {"advance", "error", "sync", "emit", "keep"}
  <2>1. AdvanceToken \/ parse_error \/ parser_sync \/ BuildNode
    BY <1>10, ActionIs
  <2>2. Then(<<>>)
    BY <2>1, Zenon DEF AdvanceToken, parse_error, parser_sync, BuildNode
  <2> QED
    BY <1>7, <2>2
<1>11. CASE todo[1].op = "call"
  <2>1. CallFunction /\ todo[1].to \in Names
    BY <1>1, <1>11, ActionIs, ItemOps
  <2>2. Enter(Code[todo[1].to]) /\ Code[todo[1].to] \in Seq(Item)
    BY <1>11, <2>1, CodeStill, StillIs DEF CallFunction, At
  <2> QED
    BY <1>9, <2>2
<1>12. CASE todo[1].op = "expr"
  <2>1. parser_expr_bp /\ todo[1].min \in Nat
    BY <1>1, <1>12, ActionIs, ItemOps
  <2>2. Enter(<<Call("primary"), Infix(todo[1].min)>>)
    BY <1>12, <2>1 DEF parser_expr_bp, At
  <2>3. Call("primary") \in Item /\ Infix(todo[1].min) \in Item
    BY <2>1, PlainIs, NamesIn DEF Item, Still, Text, Open
  <2> DEFINE s == <<Call("primary"), Infix(todo[1].min)>>
  <2>4. s \in Seq(Item) /\ Enter(s)
    BY <2>2, <2>3
  <2> HIDE DEF s
  <2> QED
    BY <1>9, <2>4
<1>13. CASE todo[1] \in Loops /\ todo[1].body \in CalmBodies
  <2> DEFINE mark == [todo[1] EXCEPT !.op = "again", !.from = pos]
             s == Code[todo[1].body]
  <2>1. mark \in Agains /\ mark.body = todo[1].body /\ todo[1].op = "loop"
    BY <1>1, <1>13 DEF Loops, Agains, LoopsWith
  <2>2. Then(Append(s, mark)) \/ Then(<<>>)
    BY <2>1, ActionIs DEF TestLoop
  <2>3. mark \in Sure /\ s \in Seq(Sure)
    BY <1>13, <2>1, SureIs DEF Sure
  <2> HIDE DEF mark, s
  <2>4. Append(s, mark) \in Seq(Sure)
    BY <2>3, AppendProperties
  <2> QED
    BY <1>7, <1>8, <2>2, <2>4
<1>14. CASE todo[1] \in Agains /\ todo[1].body \in CalmBodies
  <2> DEFINE loop == [todo[1] EXCEPT !.op = "loop", !.from = 0]
  <2>1. loop \in Loops /\ loop.body \in CalmBodies /\ todo[1].op = "again"
    BY <1>14 DEF Loops, Agains, LoopsWith
  <2>2. Then(<<loop>>)
    BY <2>1, ActionIs DEF EndIteration
  <2> HIDE DEF loop
  <2>3. loop \in Sure
    <3>1. loop \in Calm
      BY <2>1 DEF Calm
    <3> QED
      BY <3>1, NestedIs DEF Sure, Calm3, Calm2, Calm1
  <2>4. <<loop>> \in Seq(Sure)
    BY <2>3
  <2> QED
    BY <1>8, <2>2, <2>4
<1>15. CASE todo[1].op = "switch" /\ todo[1] \in Calm3
  <2>1. /\ todo[1].default \in Seq(Calm3)
        /\ \A c \in DOMAIN todo[1].cases : todo[1].cases[c].code \in Seq(Calm3)
    <3>1. \A i \in Calm : i.op # "switch"
      BY DEF Calm, Advance, Error, Sync, Calls, Exprs1, Emits, Loops, LoopsWith
    <3> QED
      BY <1>15, <3>1, CalmOps
  <2>2. Choose
    BY <1>15, ActionIs
  <2>3. PICK c : Then(c) /\ c \in Seq(Calm3)
    <3>1. PICK c :
              /\ Then(c)
              /\ \/ c = todo[1].default
                 \/ \E i \in DOMAIN todo[1].cases : c = todo[1].cases[i].code
      BY <2>2, ChooseIs
    <3> QED
      BY <2>1, <3>1
  <2>4. c \in Seq(Sure)
    <3>1. Calm3 \subseteq Sure
      BY DEF Sure
    <3> QED
      BY <2>3, <3>1, SeqMonotonic
  <2> QED
    BY <1>8, <2>3, <2>4
<1>16. CASE todo[1] \in {ExternParam[1], parser_ffi[2], parser_ffi[3]}
  <2>1. ASSUME NEW t, NEW no \in Seq(Item), Len(no) > 0, no[1] = Error,
               todo[1] = If(t, <<Advance>>, no)
        PROVE  \E d \in Seq(Item) :
                todo' = Splice(todo, 1, d) /\ \A k \in 1 .. Len(d) : Sheltered(d, k, Len(d))
    <3>1. Choose
      <4>1. todo[1].op = "switch"
        BY <2>1 DEF If, Switch
      <4> QED
        BY <4>1, ActionIs
    <3>2. Then(<<Advance>>) \/ Then(no)
      BY <2>1, <3>1, IfIs
    <3>3. ~Then(no)
      <4>1. Then(no) => todo' = Splice(todo, 1, no)
        BY <1>1, <2>1, ThenIs
      <4>2. todo' # Splice(todo, 1, no)
        BY <1>1, <2>1, NextIs
      <4> QED
        BY <4>1, <4>2
    <3> QED
      BY <1>4, <1>8, <3>2, <3>3
  <2>2. /\ Error \in Item /\ Sync \in Item /\ Break \in Item /\ Emit("Invalid") \in Item /\ Leave \in Item
    BY PlainIs DEF Item, Still, Text, Open, OpenTags
  <2>3. CASE todo[1] = ExternParam[1]
    <3> DEFINE no == <<Error, Sync, Break>>
    <3>1. no \in Seq(Item) /\ Len(no) > 0 /\ no[1] = Error
      BY <2>2
    <3>2. todo[1] = If(Is({"Identifier"}), <<Advance>>, no)
      BY <2>3 DEF ExternParam
    <3> HIDE DEF no
    <3> QED
      BY <2>1, <3>1, <3>2
  <2>4. CASE todo[1] \in {parser_ffi[2], parser_ffi[3]}
    <3> DEFINE no == <<Error, Emit("Invalid"), Leave>>
    <3>1. no \in Seq(Item) /\ Len(no) > 0 /\ no[1] = Error
      BY <2>2
    <3>2. \/ todo[1] = If(Is({"Strings"}), <<Advance>>, no)
          \/ todo[1] = If(Is({"RightParens"}), <<Advance>>, no)
      BY <2>4 DEF parser_ffi, If
    <3> HIDE DEF no
    <3> QED
      BY <2>1, <3>1, <3>2
  <2> QED
    BY <1>16, <2>3, <2>4
<1>17. todo[1] \in Calm3 => todo[1].op = "switch" \/ todo[1] \in Calm
  BY CalmOps
<1>18. CASE todo[1] \in Calm
  <2>1. \/ todo[1].op \in {"advance", "error", "sync", "emit", "call", "expr"}
        \/ todo[1] \in Loops /\ todo[1].body \in CalmBodies
    BY <1>18 DEF Calm, Advance, Error, Sync, Calls, Exprs1, Emits
  <2> QED
    BY <1>10, <1>11, <1>12, <1>13, <2>1
<1>19. Keep.op = "keep"
  BY DEF Keep
<1> QED
  BY <1>10, <1>14, <1>15, <1>16, <1>17, <1>18, <1>19 DEF Sure

\* A node that is built stays, and its end does not move back.
LEMMA NodesStay ==
    ASSUME TypeInv, Next, NEW i \in 1 .. Len(out), out[i].tag # "Invalid"
    PROVE  /\ i \in 1 .. Len(out') /\ out'[i].tag = out[i].tag
           /\ out'[i].from = out[i].from /\ out'[i].to >= out[i].to
<1>1. /\ out \in Seq(Nodes) /\ Len(out) \in Nat /\ pos \in Nat \ {0}
      /\ out[i] \in Nodes /\ out[i].to < pos
  BY ElementOfSeq, LenProperties, FileIs DEF TypeInv, Placed
<1>2. CASE out' = out
  BY <1>1, <1>2 DEF Nodes
<1>3. CASE \E node : out' = Append(out, node)
  <2>1. PICK node : out' = Append(out, node)
    BY <1>3
  <2>2. out \in Seq(Nodes \cup {node})
    BY <1>1, SeqMonotonic
  <2>3. Len(out') = Len(out) + 1 /\ out'[i] = out[i]
    BY <2>1, <2>2, AppendProperties
  <2> QED
    BY <1>1, <2>3 DEF Nodes
<1>4. CASE out' = [out EXCEPT ![Len(out)].to = pos - 1]
  <2> DEFINE old  == out[Len(out)]
             node == [old EXCEPT !.to = pos - 1]
  <2>1. Len(out) \in 1 .. Len(out) /\ pos - 1 \in Nat
    BY <1>1
  <2>2. old \in Nodes
    BY <1>1, <2>1, ElementOfSeq
  <2>3. out' = [out EXCEPT ![Len(out)] = node]
    BY <1>4
  <2>4. i = Len(out) => out[i] = old
    OBVIOUS
  <2> HIDE DEF old
  <2>5. node \in Nodes /\ node.from = old.from /\ node.tag = old.tag /\ node.to = pos - 1
    BY <2>1, <2>2, NodeEnds, Zenon
  <2> HIDE DEF node
  <2>6. Len(out') = Len(out) /\ out'[i] = IF i = Len(out) THEN node ELSE out[i]
    BY <1>1, <2>1, <2>3, <2>5, ExceptSeq
  <2>7. CASE i = Len(out)
    <3>1. out'[i] = node /\ out[i] = old
      BY <2>4, <2>6, <2>7
    <3>2. pos - 1 >= out[i].to
      BY <1>1 DEF Nodes
    <3> QED
      BY <2>5, <2>6, <3>1, <3>2
  <2>8. CASE i # Len(out)
    BY <1>1, <2>6, <2>8 DEF Nodes
  <2> QED
    BY <2>7, <2>8
<1>5. CASE out[Len(out)].tag = "Invalid" /\ out' = SubSeq(out, 1, Len(out) - 1)
  <2> DEFINE n == Len(out) - 1
  <2>1. \A k \in 1 .. n : out[k] \in Nodes
    BY <1>1, ElementOfSeq
  <2>2. n \in Nat /\ i \in 1 .. n
    <3>1. i # Len(out)
      BY <1>5
    <3> QED
      BY <1>1, <3>1
  <2>3. out' = SubSeq(out, 1, n)
    BY <1>5
  <2> HIDE DEF n
  <2>4. /\ Len(SubSeq(out, 1, n)) = IF 1 <= n THEN n - 1 + 1 ELSE 0
        /\ \A k \in 1 .. n - 1 + 1 : SubSeq(out, 1, n)[k] = out[1 + k - 1]
    BY <2>1, <2>2, SubSeqProperties
  <2>5. n - 1 + 1 = n /\ 1 + i - 1 = i
    BY <2>2
  <2>6. Len(out') = n /\ out'[i] = out[i]
    BY <2>2, <2>3, <2>4, <2>5
  <2> QED
    BY <1>1, <2>2, <2>6 DEF Nodes
<1>6. \/ out' = out \/ \E node : out' = Append(out, node)
      \/ out' = [out EXCEPT ![Len(out)].to = pos - 1]
      \/ out[Len(out)].tag = "Invalid" /\ out' = SubSeq(out, 1, Len(out) - 1)
  <2>1. CASE BuildNode
    BY <2>1 DEF BuildNode
  <2>2. CASE ~BuildNode
    BY <2>2, Zenon DEF Next, AdvanceToken, parse_error, parser_sync, Choose, TestLoop, EndIteration,
       CallFunction, parser_expr_bp, ReturnFrom, Done, vars
  <2> QED
    BY <2>1, <2>2
<1> QED
  BY <1>2, <1>3, <1>4, <1>5, <1>6

\* What a node covers stays covered.
LEMMA CoveredStep ==
    ASSUME TypeInv, Next, NEW p \in Nat, Covered(out, p)
    PROVE  Covered(out', p)
<1> SUFFICES ASSUME NEW q \in 1 .. p - 1, ~Annotated(q)
             PROVE  \E i \in 1 .. Len(out') :
                       out'[i].tag # "Invalid" /\ q \in out'[i].from .. out'[i].to
  BY DEF Covered
<1>1. PICK i \in 1 .. Len(out) : out[i].tag # "Invalid" /\ q \in out[i].from .. out[i].to
  BY DEF Covered
<1>2. /\ i \in 1 .. Len(out') /\ out'[i].tag = out[i].tag
      /\ out'[i].from = out[i].from /\ out'[i].to >= out[i].to
  BY <1>1, NodesStay
<1>3. out[i].from \in Nat /\ out[i].to \in Nat /\ out'[i].to \in Int
  <2>1. out[i] \in Nodes
    BY ElementOfSeq DEF TypeInv, Placed
  <2>2. out' \in Seq(Nodes)
    BY TypeStep DEF TypeInv, Placed
  <2>3. out'[i] \in Nodes
    BY <1>2, <2>2, ElementOfSeq
  <2> QED
    BY <2>1, <2>3 DEF Nodes
<1>4. q \in out'[i].from .. out'[i].to
  BY <1>1, <1>2, <1>3
<1> QED
  BY <1>1, <1>2, <1>4

\* Only these actions move on.
LEMMA PosIs ==
    ASSUME TypeInv, Next
    PROVE  /\ pos' \in pos .. LastPos /\ pos' \in Nat /\ pos \in Nat
           /\ todo = <<>> \/ todo[1].op \notin {"advance", "sync", "again"} => pos' = pos
           /\ todo # <<>> /\ todo[1].op = "advance" => pos' = Following(pos)
<1>1. pos \in 1 .. LastPos /\ LastPos \in Nat /\ pos \in pos .. LastPos
  BY FileIs DEF TypeInv
<1>2. CASE AdvanceToken
  <2>1. pos' = Following(pos) /\ todo # <<>> /\ todo[1].op = "advance"
    BY <1>2 DEF AdvanceToken, At
  <2> QED
    BY <1>1, <2>1, FollowingIs DEF TypeInv
<1>3. CASE parser_sync
  <2>1. todo # <<>> /\ todo[1].op = "sync"
    BY <1>3 DEF parser_sync, At
  <2> QED
    BY <1>1, <1>3, <2>1, SyncIs DEF TypeInv
<1>4. CASE EndIteration
  <2>1. todo # <<>> /\ todo[1].op = "again"
    BY <1>4 DEF EndIteration, At
  <2> QED
    BY <1>1, <1>4, <2>1, EndIterationRuns
<1>5. CASE ~AdvanceToken /\ ~parser_sync /\ ~EndIteration
  <2>1. pos' = pos
    BY <1>5, Zenon DEF Next, parse_error, Choose, TestLoop, CallFunction, parser_expr_bp, ReturnFrom,
       BuildNode, Done, vars
  <2>2. todo # <<>> => todo[1].op # "advance"
    BY <1>5, ActionIs
  <2> QED
    BY <1>1, <2>1, <2>2
<1> QED
  BY <1>2, <1>3, <1>4, <1>5

\* No step takes more than the rest of the function from the stack, or the loop
\* of main from under anything.
LEMMA StepWithin ==
    ASSUME TypeInv, Looped(todo), Next, todo # <<>>
    PROVE  \E m \in 1 .. Len(todo), c \in Seq(Item) :
              /\ todo' = Splice(todo, m, c)
              /\ \A r \in 1 .. Len(todo) : todo[r].op = "ret" => m <= r /\ (m = r => c = <<>>)
              /\ Len(todo) > 1 => m < Len(todo)
<1>1. todo \in Seq(Item) /\ Len(todo) \in Nat \ {0} /\ 1 \in 1 .. Len(todo) /\ Running(todo, pos)
  BY HeadIs DEF TypeInv
<1>2. PICK m \in 1 .. Len(todo), c \in Seq(Item) : Puts(m, c)
  BY StepTakes
<1>3. todo' = Splice(todo, m, c)
  BY <1>2 DEF Puts
<1>4. CASE m = 1 /\ (todo[1].op = "ret" => c = <<>>)
  BY <1>1, <1>3, <1>4
<1>5. CASE First("ret", m) /\ c = <<>>
  <2>1. todo[m].op = "ret" /\ \A r \in 1 .. Len(todo) : todo[r].op = "ret" => ~(r \in 1 .. m - 1)
    BY <1>5 DEF First
  <2>2. \A r \in 1 .. Len(todo) : todo[r].op = "ret" => m <= r
    BY <1>1, <2>1
  <2>3. Len(todo) > 1 => m # Len(todo)
    BY <1>1, <2>1, ShapeIs
  <2>4. Len(todo) > 1 => m < Len(todo)
    BY <1>1, <2>3
  <2> QED
    BY <1>3, <1>5, <2>2, <2>4
<1>6. CASE First("ret", m + 1)
  <2>1. /\ m + 1 \in 1 .. Len(todo)
        /\ \A r \in 1 .. Len(todo) : todo[r].op = "ret" => ~(r \in 1 .. (m + 1) - 1)
    BY <1>6 DEF First
  <2>2. \A r \in 1 .. Len(todo) : todo[r].op = "ret" => m < r
    BY <1>1, <2>1
  <2>3. m < Len(todo)
    BY <1>1, <2>1
  <2> QED
    BY <1>1, <1>3, <2>2, <2>3
<1>7. CASE todo[1].op = "break" /\ First("again", m) /\ c = <<>>
  <2>1. ~Free(todo[1])
    BY <1>7 DEF Free
  <2>2. PICK r \in 2 .. Len(todo) - 2 : todo[r].op = "ret"
    BY <1>1, <2>1, Deep
  <2>3. todo[1] \notin Steady
    <3>1. \A i \in Plain : i.op # "break"
      BY PlainOps, BasicOps
    <3>2. \A i \in {TypeArgs, TypeBrackets, Keep, Extend} \cup Emits(ClosedTags) \cup Rets \cup Agains :
             i.op # "break"
      BY SwitchesAre DEF Keep, Extend, Emits, Rets, Agains, LoopsWith
    <3> QED
      BY <1>7, <3>1, <3>2 DEF Steady
  <2>4. PICK j \in 2 .. Len(todo) : todo[j].op = "again" /\ \A l \in 1 .. j : todo[l].op # "ret"
    BY <1>1, <2>3 DEF Looped, InLoop
  <2>5. m <= j
    <3>1. ~(j \in 1 .. m - 1)
      BY <1>7, <2>4 DEF First
    <3> QED
      BY <1>1, <3>1
  <2>6. \A l \in 1 .. Len(todo) : todo[l].op = "ret" => m < l
    BY <1>1, <2>4, <2>5
  <2>7. r \in 1 .. Len(todo) /\ m < r /\ r < Len(todo)
    BY <1>1, <2>2, <2>6
  <2>8. m < Len(todo)
    BY <1>1, <2>7
  <2> QED
    BY <1>1, <1>3, <2>6, <2>8
<1> QED
  BY <1>2, <1>4, <1>5, <1>6, <1>7 DEF Puts

\* The statement that main is parsing stays the same.
LEMMA BaseKept ==
    ASSUME TypeInv, todo # <<>>, Len(todo) > 3, NEW m \in 1 .. Len(todo), NEW c \in Seq(Item),
           todo' = Splice(todo, m, c), m <= Len(todo) - 3
    PROVE  /\ Base' = Base /\ Len(todo') > 2 /\ Len(c) \in Nat /\ Len(todo') \in Nat
           /\ Len(todo') = Len(c) + Len(todo) - m
           /\ Len(todo') > 3 => todo'[Len(todo') - 3] =
                 IF m = Len(todo) - 3 THEN c[Len(c)] ELSE todo[Len(todo) - 3]
<1>1. todo \in Seq(Item) /\ Len(todo) \in Nat \ {0}
  BY HeadIs
<1> DEFINE n == Len(todo')
<1>2. /\ Len(c) \in Nat /\ n \in Nat /\ n = Len(c) + Len(todo) - m
      /\ \A k \in 1 .. Len(c) : todo'[k] = c[k]
      /\ \A k \in Len(c) + 1 .. n : todo'[k] = todo[k - Len(c) + m]
  BY <1>1, MovedIs
<1> HIDE DEF n
<1>3. n > 2 /\ n - 2 \in Len(c) + 1 .. n /\ (n - 2) - Len(c) + m = Len(todo) - 2
  BY <1>1, <1>2
<1>4. todo'[n - 2] = todo[Len(todo) - 2]
  BY <1>2, <1>3
<1>5. Base' = Base
  BY <1>4 DEF Base, n
<1>6. ASSUME n > 3 PROVE todo'[n - 3] = IF m = Len(todo) - 3 THEN c[Len(c)] ELSE todo[Len(todo) - 3]
  <2>1. CASE m = Len(todo) - 3
    <3>2. Len(c) \in Nat /\ n \in Nat /\ n = Len(c) + 3
      BY <1>1, <1>2, <2>1
    <3>1. n - 3 = Len(c) /\ Len(c) \in 1 .. Len(c)
      BY <1>6, <3>2
    <3> QED
      BY <1>2, <2>1, <3>1
  <2>2. CASE m # Len(todo) - 3
    <3>1. n - 3 \in Len(c) + 1 .. n /\ (n - 3) - Len(c) + m = Len(todo) - 3
      BY <1>1, <1>2, <2>2
    <3> QED
      BY <1>2, <2>2, <3>1, Zenon
  <2> QED
    BY <2>1, <2>2
<1> QED
  BY <1>2, <1>3, <1>5, <1>6, Zenon DEF n

\* What has begun to build the node of the statement does not leave it.
LEMMA OwedStep ==
    ASSUME TypeInv, Looped(todo), Next, todo # <<>>, Silent', Owed(todo), Len(todo) > 4
    PROVE  Base' = Base /\ Owed(todo')
<1> DEFINE n == Len(todo)
           k2 == Len(todo')
<1>1. todo \in Seq(Item) /\ n \in Nat \ {0} /\ 1 \in 1 .. Len(todo) /\ 1 \in 1 .. n - 4
  BY HeadIs
<1>2. todo[n - 3] \in Promises /\ \A k \in 1 .. n - 4 : Sheltered(todo, k, n - 4)
  BY DEF Owed
<1>3. PICK m \in 1 .. Len(todo), c \in Seq(Item) :
            /\ todo' = Splice(todo, m, c) /\ m <= n - 4
            /\ \A k \in 1 .. Len(c) : Sheltered(todo', k, k2 - 4)
  <2>1. CASE todo[1] \in Sure
    <3>1. PICK c \in Seq(Item) :
                todo' = Splice(todo, 1, c) /\ \A k \in 1 .. Len(c) : Sheltered(c, k, Len(c))
      BY <2>1, SureStep
    <3>2. /\ Len(c) \in Nat /\ k2 = Len(c) + n - 1
          /\ \A k \in 1 .. Len(c) : todo'[k] = c[k]
      BY <1>1, <3>1, MovedIs
    <3> HIDE DEF k2, n
    <3>3. Len(c) <= k2 - 4 /\ 1 <= n - 4 /\ k2 - 4 \in Int
      BY <1>1, <3>2 DEF n
    <3>4. ASSUME NEW k \in 1 .. Len(c) PROVE Sheltered(todo', k, k2 - 4)
      <4>1. CASE c[k] \in Sure
        BY <3>2, <4>1 DEF Sheltered
      <4>2. CASE \E r \in k .. Len(c) : c[r].op = "ret"
        <5>1. PICK r \in k .. Len(c) : c[r].op = "ret"
          BY <4>2
        <5>2. r \in k .. k2 - 4 /\ r \in 1 .. Len(c)
          BY <3>2, <3>3
        <5>3. todo'[r].op = "ret"
          BY <3>2, <5>1, <5>2
        <5> QED
          BY <5>2, <5>3 DEF Sheltered
      <4> QED
        BY <3>1, <4>1, <4>2 DEF Sheltered
    <3> QED
      BY <1>1, <3>1, <3>3, <3>4
  <2>2. CASE \E r \in 1 .. n - 4 : todo[r].op = "ret"
    <3>1. PICK r \in 1 .. n - 4 : todo[r].op = "ret"
      BY <2>2
    <3>2. PICK m \in 1 .. Len(todo), c \in Seq(Item) :
              /\ todo' = Splice(todo, m, c)
              /\ \A s \in 1 .. Len(todo) : todo[s].op = "ret" => m <= s /\ (m = s => c = <<>>)
      BY StepWithin
    <3>3. r \in 1 .. Len(todo) /\ m \in Nat
      BY <1>1, <3>1
    <3>4. m <= r /\ (m = r => c = <<>>)
      BY <3>1, <3>2, <3>3
    <3>5. Len(c) \in Nat /\ k2 \in Nat /\ k2 = Len(c) + n - m
      BY <1>1, <3>2, MovedIs
    <3>6. \A k \in Len(c) + 1 .. k2 : todo'[k] = todo[k - Len(c) + m]
      BY <1>1, <3>2, MovedIs
    <3> HIDE DEF k2, n
    <3>7. m <= n - 4
      BY <1>1, <3>1, <3>3, <3>4 DEF n
    <3>8. ASSUME NEW k \in 1 .. Len(c) PROVE Sheltered(todo', k, k2 - 4)
      <4>1. m # r
        <5>1. c = <<>> => Len(c) = 0
          OBVIOUS
        <5> QED
          BY <3>4, <3>5, <3>8, <5>1
      <4> DEFINE e == r - m + Len(c)
      <4>2. e \in Len(c) + 1 .. k2 /\ e - Len(c) + m = r /\ e \in k .. k2 - 4
        BY <1>1, <3>1, <3>3, <3>4, <3>5, <4>1 DEF n
      <4> HIDE DEF e
      <4>3. todo'[e].op = "ret"
        BY <3>1, <3>6, <4>2
      <4> QED
        BY <4>2, <4>3 DEF Sheltered
    <3> QED
      BY <3>2, <3>7, <3>8
  <2> QED
    BY <1>1, <1>2, <2>1, <2>2 DEF Sheltered
<1>4. m <= Len(todo) - 3 /\ m # Len(todo) - 3 /\ Len(todo) > 3
  BY <1>1, <1>3
<1>5. /\ Base' = Base /\ Len(c) \in Nat /\ k2 \in Nat /\ k2 = Len(c) + n - m
      /\ k2 > 3 => todo'[k2 - 3] = todo[n - 3]
  BY <1>3, <1>4, BaseKept
<1>6. \A k \in Len(c) + 1 .. k2 : todo'[k] = todo[k - Len(c) + m]
  BY <1>1, <1>3, MovedIs
<1> HIDE DEF k2, n
<1>7. k2 > 3
  BY <1>1, <1>3, <1>5
<1>8. ASSUME NEW k \in 1 .. k2 - 4 PROVE Sheltered(todo', k, k2 - 4)
  <2>1. CASE k \in 1 .. Len(c)
    BY <1>3, <2>1
  <2>2. CASE k \in Len(c) + 1 .. k2
    <3> DEFINE j == k - Len(c) + m
    <3>1. j \in 1 .. n - 4 /\ todo'[k] = todo[j]
      BY <1>1, <1>3, <1>5, <1>6, <2>2
    <3>2. CASE todo[j] \in Sure
      BY <3>1, <3>2 DEF Sheltered
    <3>3. CASE \E r \in j .. n - 4 : todo[r].op = "ret"
      <4>1. PICK r \in j .. n - 4 : todo[r].op = "ret"
        BY <3>3
      <4> DEFINE e == r - m + Len(c)
      <4>2. /\ r \in Int /\ j = k - Len(c) + m /\ m \in Nat /\ Len(c) \in Nat /\ k2 = Len(c) + n - m
            /\ n \in Nat /\ k \in Int /\ k > Len(c) /\ j <= r /\ r <= n - 4
        BY <1>1, <1>3, <1>5, <2>2, <4>1
      <4> HIDE DEF j
      <4>3. e \in Len(c) + 1 .. k2 /\ e - Len(c) + m = r /\ e \in k .. k2 - 4
        BY <4>2
      <4> HIDE DEF e
      <4>4. todo'[e].op = "ret"
        BY <1>6, <4>1, <4>3
      <4> QED
        BY <4>3, <4>4 DEF Sheltered
    <3> HIDE DEF j
    <3> QED
      BY <1>2, <3>1, <3>2, <3>3 DEF Sheltered
  <2>3. k \in 1 .. Len(c) \/ k \in Len(c) + 1 .. k2
    BY <1>5
  <2> QED
    BY <2>1, <2>2, <2>3
<1> QED
  BY <1>2, <1>5, <1>7, <1>8 DEF Owed, k2

\* The code that is entered builds a node last.
LEMMA OwedMade ==
    ASSUME TypeInv, todo # <<>>, Len(todo) = 4, NEW c \in Seq(Item), Len(c) > 0,
           c[Len(c)] \in Promises, \A k \in 1 .. Len(c) - 1 : c[k] \in Sure,
           todo' = Splice(todo, 1, c)
    PROVE  Base' = Base /\ Owed(todo')
<1>1. todo \in Seq(Item) /\ 1 \in 1 .. Len(todo) /\ 1 = Len(todo) - 3
  BY HeadIs
<1>2. /\ Base' = Base /\ Len(c) \in Nat /\ Len(todo') = Len(c) + 4 - 1
      /\ Len(todo') > 3 => todo'[Len(todo') - 3] = c[Len(c)]
  BY <1>1, BaseKept
<1>3. \A k \in 1 .. Len(c) : todo'[k] = c[k]
  BY <1>1, MovedIs
<1>4. Len(todo') > 3 /\ Len(todo') - 4 = Len(c) - 1
  BY <1>2
<1>5. \A k \in 1 .. Len(todo') - 4 : todo'[k] \in Sure
  BY <1>2, <1>3, <1>4
<1> QED
  BY <1>2, <1>4, <1>5 DEF Owed, Sheltered

\* The codes of a switch.
LEMMA ChosenIs ==
    ASSUME TypeInv, Next, todo # <<>>, NEW C, todo[1] \in Switches(C)
    PROVE  \E c \in C : c \in Seq(Item) /\ todo' = Splice(todo, 1, c)
<1>1. todo[1].op = "switch" /\ todo[1].default \in C /\ todo[1].cases \in Seq(Cases(C))
  BY DEF Switches
<1>2. \A i \in DOMAIN todo[1].cases : todo[1].cases[i].code \in C
  <2>1. \A i \in DOMAIN todo[1].cases : todo[1].cases[i] \in Cases(C)
    BY <1>1, ElementOfSeq, LenProperties
  <2> QED
    BY <2>1 DEF Cases
<1>3. PICK c \in Seq(Still) :
          /\ Then(c)
          /\ \/ c = todo[1].default
             \/ \E i \in DOMAIN todo[1].cases : c = todo[1].cases[i].code
  BY <1>1, ActionIs, ChooseIs
<1>4. c \in C
  BY <1>1, <1>2, <1>3
<1>5. c \in Seq(Item) /\ todo' = Splice(todo, 1, c)
  BY <1>3, StillIs, HeadIs, ThenIs
<1> QED
  BY <1>4, <1>5

\* The last instruction of the statement that main is parsing.
LEMMA LastIs ==
    ASSUME TypeInv, Len(todo) = 4
    PROVE  /\ Base = todo[2].from /\ todo[2].op = "ret" /\ Base \in Nat \ {0}
           /\ todo[1].op # "ret" =>
                 From({"ret"})[1].from = Base /\ \A c : c \o From({"ret"}) = Splice(todo, 1, c)
<1>1. todo \in Seq(Item) /\ todo[Len(todo) - 2].op = "ret"
  <2>1. Running(todo, pos) /\ Len(todo) > 3
    BY DEF TypeInv
  <2> QED
    BY <2>1, ShapeIs, Zenon
<1>2. Len(todo) - 2 = 2 /\ 2 \in 1 .. Len(todo)
  OBVIOUS
<1>3. Base = todo[2].from /\ todo[2].op = "ret"
  BY <1>1, <1>2 DEF Base
<1>4. todo[2] \in Rets
  BY <1>1, <1>2, <1>3, ElementOfSeq, ItemOps
<1>5. Base \in Nat \ {0}
  BY <1>3, <1>4 DEF Rets
<1>6. ASSUME todo[1].op # "ret"
      PROVE  From({"ret"})[1].from = Base /\ \A c : c \o From({"ret"}) = Splice(todo, 1, c)
  <2>1. First("ret", 2)
    BY <1>2, <1>3, <1>6 DEF First
  <2>2. From({"ret"})[1] = todo[2] /\ \A c : c \o From({"ret"}) = Splice(todo, 2 - 1, c)
    BY <1>1, <2>1, FromFirst
  <2>3. 2 - 1 = 1
    OBVIOUS
  <2>4. \A c : c \o From({"ret"}) = Splice(todo, 1, c)
    BY <2>2, <2>3, Zenon
  <2> QED
    BY <1>3, <2>2, <2>4
<1> QED
  BY <1>3, <1>5, <1>6

LEMMA PromisesAre ==
    /\ Emits(KeptTags \cup ClosedTags) \subseteq Promises /\ OneOfs \subseteq Promises
    /\ Unsafes \subseteq Promises
    /\ \A f \in ItemNames \cup {"ffi"} : TailCall(f) \in Promises
    /\ Calm3 \subseteq Sure /\ Advance \in Sure /\ Expr(0) \in Sure
    /\ parser_ffi[2] \in Sure /\ parser_ffi[3] \in Sure
BY Calm3Is DEF Promises, Sure

\* What is to build the node of the statement builds it, or gives way to what is.
LEMMA PromiseStep ==
    ASSUME TypeInv, Next, todo # <<>>, Silent', Owed(todo), Len(todo) = 4, Covered(out, Base)
    PROVE  /\ Base' = Base
           /\ \/ Owed(todo')
              \/ Len(todo') = 3 /\ Covered(out', pos')
<1>1. todo \in Seq(Item) /\ todo[1] \in Item /\ 1 \in 1 .. Len(todo) /\ 1 = Len(todo) - 3
  BY HeadIs
<1>2. todo[1] \in Promises
  BY <1>1 DEF Owed
<1>3. CASE todo[1] \in Emits(KeptTags \cup ClosedTags)
  <2> DEFINE node == [tag |-> todo[1].tag, from |-> Entry, to |-> pos - 1]
  <2>1. todo[1].op = "emit" /\ todo[1].tag # "Invalid"
    BY <1>3 DEF Emits, KeptTags, ClosedTags
  <2>2. BuildNode /\ Then(<<>>) /\ pos' = pos /\ out' = Append(out, node)
    BY <2>1, ActionIs DEF BuildNode, At
  <2>5. Base' = Base /\ Len(todo') = 3
    <3> DEFINE c == <<>>
    <3>1. c \in Seq(Item) /\ Len(c) = 0 /\ Then(c)
      BY <2>2
    <3> HIDE DEF c
    <3>2. todo' = Splice(todo, 1, c)
      BY <1>1, <3>1, ThenIs
    <3>4. Len(todo) > 3 /\ 1 <= Len(todo) - 3
      OBVIOUS
    <3>3. Base' = Base /\ Len(todo') = Len(c) + Len(todo) - 1
      BY <1>1, <3>1, <3>2, <3>4, BaseKept, Zenon
    <3> QED
      BY <3>1, <3>3
  <2>6. node.tag # "Invalid" /\ node.from = Base /\ node.to = pos - 1
    BY <2>1, LastIs DEF Entry
  <2> HIDE DEF node
  <2>7. Len(out') = Len(out) + 1 /\ out'[Len(out) + 1] = node /\ Len(out) \in Nat
    <3>1. out \in Seq(Nodes)
      BY DEF TypeInv, Placed
    <3>2. out \in Seq(Nodes \cup {node})
      BY <3>1, SeqMonotonic
    <3> QED
      BY <2>2, <3>2, AppendProperties, LenProperties
  <2>8. Base \in Nat /\ pos \in Nat
    BY LastIs, FileIs DEF TypeInv
  <2>9. Covered(out', Base)
    BY <2>8, CoveredStep
  <2>10. ASSUME NEW q \in 1 .. pos' - 1
         PROVE  \/ \E i \in 1 .. Len(out') :
                      out'[i].tag # "Invalid" /\ q \in out'[i].from .. out'[i].to
                \/ Annotated(q)
    <3>1. CASE q \in 1 .. Base - 1
      BY <2>9, <3>1 DEF Covered
    <3>2. CASE q \in Base .. pos - 1
      <4>1. Len(out) + 1 \in 1 .. Len(out')
        BY <2>7
      <4> QED
        BY <2>6, <2>7, <3>2, <4>1
    <3>3. q \in 1 .. Base - 1 \/ q \in Base .. pos - 1
      BY <2>2, <2>8
    <3> QED
      BY <3>1, <3>2, <3>3
  <2>11. Covered(out', pos')
    BY <2>10 DEF Covered
  <2> QED
    BY <2>5, <2>11
<1>4. ASSUME NEW f \in ItemNames \cup {"ffi"}, todo[1] = TailCall(f)
      PROVE  Base' = Base /\ Owed(todo')
  <2> DEFINE c == Code[f]
  <2>1. todo[1].op = "tail" /\ todo[1].to = f
    BY <1>4 DEF TailCall
  <2>2. todo' = c \o From({"ret"})
    <3>1. CallFunction
      BY <2>1, ActionIs
    <3> QED
      BY <2>1, <3>1 DEF CallFunction, At
  <2>3. f \in Names
    BY NamesIn
  <2>4. c \in Seq(Item)
    BY <2>3, CodeStill, StillIs
  <2>5. Len(c) > 0 /\ c[Len(c)] \in Promises /\ \A k \in 1 .. Len(c) - 1 : c[k] \in Sure
    <3>1. CASE f \in ItemNames
      <4>1. /\ Len(c) \in Nat /\ Len(c) > 1 /\ \A k \in 1 .. Len(c) - 1 : c[k] \in Calm3
            /\ c[Len(c)] \in Emits(KeptTags) \/ c[Len(c)] \in Emits(ClosedTags)
        BY <3>1, ItemsCode DEF ItemCode
      <4> HIDE DEF c
      <4>2. c[Len(c)] \in Promises
        BY <4>1, PromisesAre DEF Emits
      <4> QED
        BY <4>1, <4>2, PromisesAre
    <3>2. CASE f = "ffi"
      <4>1. c = parser_ffi
        BY <3>2, CodeIs
      <4>2. Len(c) = 4 /\ c[4] = TailCall("extern") /\ c[1] = Advance /\ c[2] = parser_ffi[2] /\ c[3] = parser_ffi[3]
        BY <4>1 DEF parser_ffi
      <4> HIDE DEF c
      <4>3. "extern" \in ItemNames
        BY DEF ItemNames
      <4>4. TailCall("extern") \in Promises
        BY <4>3, PromisesAre
      <4>5. \A k \in 1 .. Len(c) - 1 : k = 1 \/ k = 2 \/ k = 3
        BY <4>2
      <4> QED
        BY <4>2, <4>4, <4>5, PromisesAre
    <3> QED
      BY <3>1, <3>2
  <2> HIDE DEF c
  <2>6. todo' = Splice(todo, 1, c)
    BY <2>1, <2>2, LastIs
  <2> QED
    BY <2>4, <2>5, <2>6, OwedMade
<1>5. ASSUME NEW i \in Promises, NEW c \in Seq(Item), todo' = Splice(todo, 1, c),
             c = <<i>> \/ c = <<Advance, i>>
      PROVE  Base' = Base /\ Owed(todo')
  <2>1. Len(c) > 0 /\ c[Len(c)] \in Promises /\ \A k \in 1 .. Len(c) - 1 : c[k] \in Sure
    <3>1. Advance \in Sure
      BY PromisesAre
    <3>2. CASE c = <<i>>
      <4>1. Len(c) = 1 /\ c[1] = i
        BY <3>2
      <4> QED
        BY <4>1
    <3>3. CASE c = <<Advance, i>>
      <4>1. Len(c) = 2 /\ c[1] = Advance /\ c[2] = i
        BY <3>3
      <4> QED
        BY <3>1, <4>1
    <3> QED
      BY <1>5, <3>2, <3>3
  <2> QED
    BY <1>5, <2>1, OwedMade
<1>6. CASE todo[1] \in OneOfs
  <2>1. PICK c \in OneOfCodes : c \in Seq(Item) /\ todo' = Splice(todo, 1, c)
    BY <1>6, ChosenIs DEF OneOfs
  <2>2. c # <<Error, Sync, Emit("Invalid")>>
    <3>1. c = <<Error, Sync, Emit("Invalid")>> => Len(c) > 0 /\ c[1] = Error
      OBVIOUS
    <3> QED
      BY <1>1, <2>1, <3>1, NextIs
  <2>3. PICK f \in ItemNames : c = <<TailCall(f)>>
    BY <2>1, <2>2 DEF OneOfCodes, ItemTails
  <2> QED
    BY <1>5, <2>1, <2>3, PromisesAre
<1>7. CASE todo[1] \in Unsafes
  <2>1. PICK c \in {<<Advance, i>> : i \in OneOfs} \cup {<<i>> : i \in OneOfs} :
              c \in Seq(Item) /\ todo' = Splice(todo, 1, c)
    BY <1>7, ChosenIs DEF Unsafes
  <2>2. PICK i \in OneOfs : c = <<i>> \/ c = <<Advance, i>>
    BY <2>1
  <2> QED
    BY <1>5, <2>1, <2>2, PromisesAre
<1>8. todo[1] \in {TailCall(f) : f \in ItemNames \cup {"ffi"}} => Base' = Base /\ Owed(todo')
  BY <1>4
<1> QED
  BY <1>2, <1>3, <1>6, <1>7, <1>8 DEF Promises

\* The statement that main is parsing has a first token.
LEMMA BaseIs ==
    ASSUME TypeInv, todo # <<>>, Len(todo) > 3
    PROVE  Base \in Nat \ {0}
<1>1. todo \in Seq(Item) /\ Len(todo) \in Nat \ {0} /\ Len(todo) > 3
  BY HeadIs
<1> DEFINE r == Len(todo) - 2
<1>2. r \in 1 .. Len(todo)
  BY <1>1
<1>3. todo[r].op = "ret"
  BY <1>1, ShapeIs DEF TypeInv
<1> HIDE DEF r
<1>4. todo[r] \in Rets
  BY <1>1, <1>2, <1>3, ElementOfSeq, ItemOps
<1> QED
  BY <1>4 DEF Base, Rets, r

\* The first instruction gives way to those of c, the others stay.
LEMMA FrontIs ==
    ASSUME TypeInv, Next, todo # <<>>, Len(todo) > 3, NEW c \in Seq(Item), todo' = Splice(todo, 1, c)
    PROVE  /\ Base' = Base /\ Base \in Nat \ {0} /\ TagAt(Base)' = TagAt(Base)
           /\ TokenAt(Base + 1)' = TokenAt(Base + 1)
           /\ Len(c) \in Nat /\ Len(todo) \in Nat /\ Len(todo') \in Nat
           /\ Len(todo') = Len(c) + Len(todo) - 1
           /\ \A k \in 1 .. Len(c) : todo'[k] = c[k]
           /\ \A k \in Len(c) + 1 .. Len(todo') : todo'[k] = todo[k - Len(c) + 1]
<1>1. todo \in Seq(Item) /\ Len(todo) \in Nat \ {0} /\ 1 \in 1 .. Len(todo) /\ 1 <= Len(todo) - 3
  BY HeadIs
<1>2. Base' = Base
  BY <1>1, BaseKept
<1>3. Base \in Nat \ {0}
  BY BaseIs
<1>4. TagAt(Base)' = TagAt(Base) /\ TokenAt(Base + 1)' = TokenAt(Base + 1)
  BY <1>2, OutIs DEF TagAt, TokenAt
<1> QED
  BY <1>1, <1>2, <1>3, <1>4, MovedIs

\* A statement that begins promises its node, or is an annotation.
LEMMA FreshStep ==
    ASSUME TypeInv, Next, todo # <<>>, Silent', Fresh
    PROVE  Base' = Base /\ Len(todo') > 3 /\ (Owed(todo') \/ Annotating')
<1>1. /\ todo \in Seq(Item) /\ Len(todo) = 4 /\ 1 \in 1 .. Len(todo) /\ pos = Base
      /\ todo[1] \in StmtSwitches
  BY HeadIs, StmtCode DEF Fresh
<1>2. /\ todo[1].op = "switch" /\ todo[1].default = <<Expr(0), Emit("ExprStmt")>>
      /\ todo[1].cases \in Seq(StmtCases)
  BY <1>1 DEF StmtSwitches
<1>3. PICK c \in Seq(Still) :
          /\ Then(c)
          /\ \/ c = todo[1].default
             \/ \E i \in DOMAIN todo[1].cases :
                   c = todo[1].cases[i].code /\ Holds(todo[1].cases[i].test)
  BY <1>2, ActionIs, ChooseIs
<1>4. c \in Seq(Item) /\ todo' = Splice(todo, 1, c)
  BY <1>1, <1>3, StillIs, ThenIs
<1>5. pos' = pos
  BY <1>2, PosIs
\* The node is promised.
<1>6. ASSUME NEW i \in Promises, c = <<i>> \/ c = <<Advance, i>> \/ c = <<Expr(0), i>>
      PROVE  Base' = Base /\ Len(todo') > 3 /\ Owed(todo')
  <2>1. Len(c) > 0 /\ c[Len(c)] \in Promises /\ \A k \in 1 .. Len(c) - 1 : c[k] \in Sure
    <3>1. Advance \in Sure /\ Expr(0) \in Sure
      BY PromisesAre
    <3>2. CASE c = <<i>>
      <4>1. Len(c) = 1 /\ c[1] = i
        BY <3>2
      <4> QED
        BY <4>1
    <3>3. ASSUME NEW s \in Sure, c = <<s, i>> PROVE Len(c) > 0 /\ c[Len(c)] \in Promises /\ \A k \in 1 .. Len(c) - 1 : c[k] \in Sure
      <4>1. Len(c) = 2 /\ c[1] = s /\ c[2] = i
        BY <3>3
      <4> QED
        BY <4>1
    <3> QED
      BY <1>6, <3>1, <3>2, <3>3
  <2>2. Base' = Base /\ Owed(todo')
    BY <1>1, <1>4, <2>1, OwedMade
  <2> QED
    BY <2>2 DEF Owed
\* Or an error is reported.
<1>7. c # <<Error, Emit("Invalid")>>
  <2>1. c = <<Error, Emit("Invalid")>> => Len(c) > 0 /\ c[1] = Error
    OBVIOUS
  <2> QED
    BY <1>1, <1>4, <2>1, NextIs
\* Or an annotation begins.
<1>8. ASSUME c = <<TailCall("operation")>>, TagAt(pos) = "Ats"
      PROVE  Base' = Base /\ Len(todo') > 3 /\ Annotating'
  <2>1. Len(c) = 1 /\ c[1] = TailCall("operation")
    BY <1>8
  <2>2. Len(todo) > 3
    BY <1>1
  <2>3. /\ Base' = Base /\ TagAt(Base)' = TagAt(Base)
        /\ Len(todo') = Len(c) + Len(todo) - 1
        /\ \A k \in 1 .. Len(c) : todo'[k] = c[k]
    BY <1>4, <2>2, FrontIs
  <2>4. Len(todo') = 4 /\ todo'[1] = TailCall("operation")
    BY <1>1, <2>1, <2>3
  <2>5. Heading'
    BY <1>1, <1>5, <2>3, <2>4 DEF Heading
  <2> QED
    BY <1>1, <1>8, <2>3, <2>4, <2>5 DEF Annotating
<1>9. ASSUME c \in StmtCodes PROVE Base' = Base /\ Len(todo') > 3 /\ Owed(todo')
  <2>1. CASE c \in StmtTails
    <3>1. PICK f \in ItemNames : c = <<TailCall(f)>>
      BY <2>1 DEF StmtTails
    <3> QED
      BY <1>6, <3>1, PromisesAre
  <2>2. CASE c \in {<<Advance, i>> : i \in OneOfs \cup Unsafes}
    <3>1. PICK i \in OneOfs \cup Unsafes : c = <<Advance, i>>
      BY <2>2
    <3> QED
      BY <1>6, <3>1, PromisesAre
  <2> QED
    BY <1>9, <2>1, <2>2 DEF StmtCodes
<1>10. CASE c = todo[1].default
  <2>1. Emit("ExprStmt") \in Promises
    <3>1. Emit("ExprStmt") \in Emits(KeptTags \cup ClosedTags)
      BY DEF Emit, Emits, KeptTags, OpenTags
    <3> QED
      BY <3>1, PromisesAre
  <2> QED
    BY <1>2, <1>6, <1>10, <2>1
<1>11. ASSUME NEW i \in DOMAIN todo[1].cases, c = todo[1].cases[i].code, Holds(todo[1].cases[i].test)
       PROVE  Base' = Base /\ Len(todo') > 3 /\ (Owed(todo') \/ Annotating')
  <2> DEFINE case == todo[1].cases[i]
  <2>1. case \in StmtCases
    BY <1>2, ElementOfSeq, LenProperties
  <2>2. c = case.code /\ Holds(case.test)
    BY <1>11
  <2> HIDE DEF case
  <2>3. CASE case \in Cases(StmtCodes)
    BY <1>9, <2>2, <2>3 DEF Cases
  <2>4. CASE case = When(Is({"EOFs"}), <<Error, Emit("Invalid")>>)
    BY <1>7, <2>2, <2>4 DEF When
  <2>5. CASE case = When(Is({"Ats"}), <<TailCall("operation")>>)
    <3>1. c = <<TailCall("operation")>> /\ case.test = Is({"Ats"})
      BY <2>2, <2>5 DEF When
    <3>2. Holds(Is({"Ats"}))
      BY <2>2, <3>1, Zenon
    <3>3. TagAt(pos) = "Ats"
      BY <3>2 DEF Holds, Is
    <3> QED
      BY <1>8, <3>1, <3>3
  <2> QED
    BY <2>1, <2>3, <2>4, <2>5 DEF StmtCases
<1> QED
  BY <1>2, <1>3, <1>6, <1>10, <1>11

\* The codes of the annotations consume as many tokens as their nodes may span.
LEMMA AnnotationsAre ==
    ASSUME NEW a \in Annotations
    PROVE  /\ a.len \in Nat /\ a.to \in Callees
           /\ Code[a.to] \in Seq(Item) /\ Len(Code[a.to]) = a.len - 2
           /\ \A k \in 1 .. Len(Code[a.to]) : Code[a.to][k] \in Reading
           /\ \/ a.word = "operation" /\ a.len = 6
              \/ a.word = "atom" /\ a.len = 12
<1>1. Code["operation_op"] = operation_op /\ Code["operation_atom"] = operation_atom
  BY CodeIs
<1>2. \A s \in Seq(Plain) : s \in Seq(Item)
  <2>1. Plain \subseteq Item
    BY DEF Item, Still, Text, Open
  <2> QED
    BY <2>1, SeqMonotonic
<1>3. /\ Advance \in Reading
      /\ \A s \in SUBSET Tags : /\ If(Is(s), <<Advance>>, <<Error, Leave>>) \in Reading
                                /\ Says(s) \in Reading
      /\ \A tag \in Tags : Must(tag) \in Reading
  BY TestsAre DEF Reading, Says, Must
<1>4. CASE a = [word |-> "operation", to |-> "operation_op", len |-> 6]
  <2>1. a.word = "operation" /\ a.to = "operation_op" /\ a.len = 6
    BY <1>4
  <2> DEFINE s == operation_op
  <2>2. s \in Seq(Item)
    BY <1>2, OperationOpCode
  <2>3. /\ Len(s) = 4 /\ s[1] = Advance /\ s[2] = Must("LeftParens")
        /\ s[3] = If(Is(Operations), <<Advance>>, <<Error, Leave>>) /\ s[4] = Must("RightParens")
    BY DEF operation_op
  <2> HIDE DEF s
  <2>4. s[1] \in Reading /\ s[2] \in Reading /\ s[3] \in Reading /\ s[4] \in Reading
    BY <1>3, <2>3, TagsIn
  <2>5. \A k \in 1 .. Len(s) : k = 1 \/ k = 2 \/ k = 3 \/ k = 4
    BY <2>3
  <2>6. \A k \in 1 .. Len(s) : s[k] \in Reading
    BY <2>4, <2>5
  <2>7. Code[a.to] = s
    BY <1>1, <2>1 DEF s
  <2>8. a.to \in Callees
    BY <2>1, NamesIn
  <2>10. Len(s) = a.len - 2 /\ a.len \in Nat
    BY <2>1, <2>3
  <2> QED
    BY <2>1, <2>2, <2>6, <2>7, <2>8, <2>10, Zenon
<1>5. CASE a = [word |-> "atom", to |-> "operation_atom", len |-> 12]
  <2>1. a.word = "atom" /\ a.to = "operation_atom" /\ a.len = 12
    BY <1>5
  <2> DEFINE s == operation_atom
  <2>2. s \in Seq(Item)
    BY <1>2, OperationAtomCode
  <2>3. /\ Len(s) = 10 /\ s[1] = Advance /\ s[2] = Must("LeftParens") /\ s[3] = Says({"bits"})
        /\ s[4] = Must("Equalss") /\ s[5] = Says({"8"}) /\ s[6] = Must("Commas")
        /\ s[7] = Says({"signed"}) /\ s[8] = Must("Equalss")
        /\ s[9] = If(Is({"Trues", "Falses"}), <<Advance>>, <<Error, Leave>>)
        /\ s[10] = Must("RightParens")
    BY DEF operation_atom
  <2> HIDE DEF s
  <2>4. s[1] \in Reading /\ s[2] \in Reading /\ s[3] \in Reading /\ s[4] \in Reading /\ s[5] \in Reading
    BY <1>3, <2>3, TagsIn
  <2>9. s[6] \in Reading /\ s[7] \in Reading /\ s[8] \in Reading /\ s[9] \in Reading /\ s[10] \in Reading
    BY <1>3, <2>3, TagsIn
  <2>5. \A k \in 1 .. Len(s) : \/ k = 1 \/ k = 2 \/ k = 3 \/ k = 4 \/ k = 5
                               \/ k = 6 \/ k = 7 \/ k = 8 \/ k = 9 \/ k = 10
    BY <2>3
  <2>6. \A k \in 1 .. Len(s) : s[k] \in Reading
    BY <2>4, <2>5, <2>9
  <2>7. Code[a.to] = s
    BY <1>1, <2>1 DEF s
  <2>8. a.to \in Callees
    BY <2>1, NamesIn
  <2>10. Len(s) = a.len - 2 /\ a.len \in Nat
    BY <2>1, <2>3
  <2> QED
    BY <2>1, <2>2, <2>6, <2>7, <2>8, <2>10, Zenon
<1> QED
  BY <1>4, <1>5 DEF Annotations

\* The head of an annotation is read, and says which one it is.
LEMMA HeadingStep ==
    ASSUME TypeInv, Next, todo # <<>>, Silent', TagAt(Base) = "Ats", Heading
    PROVE  Base' = Base /\ Len(todo') > 3 /\ (Owed(todo') \/ Annotating')
<1>0. todo \in Seq(Item) /\ todo[1] \in Item /\ Len(todo) \in Nat \ {0}
  BY HeadIs
<1>9. Len(todo) > 3
  BY SMTT(30) DEF Heading
<1>10. 1 \in 1 .. Len(todo)
  BY <1>0, <1>9
<1>1. todo \in Seq(Item) /\ todo[1] \in Item /\ 1 \in 1 .. Len(todo) /\ Len(todo) > 3
  BY <1>0, <1>9, <1>10, ZenonT(30)
<1>2. CASE Len(todo) = 4 /\ todo[1] = TailCall("operation") /\ pos = Base
  <2> DEFINE c == parser_operation
  <2>1. Len(c) = 2 /\ c[1] = Advance /\ c[2] = parser_operation[2]
    BY DEF parser_operation
  <2>2. todo[1].op = "tail" /\ todo[1].to = "operation"
    BY <1>2 DEF TailCall
  <2>3. todo' = Code["operation"] \o From({"ret"})
    BY <2>2, ActionIs DEF CallFunction, At
  <2>4. Code["operation"] = c /\ c \in Seq(Item)
    <3>1. Code["operation"] = c
      BY CodeIs
    <3>2. Code["operation"] \in Seq(Item)
      BY NamesIn, CodeStill, StillIs
    <3> HIDE DEF c
    <3> QED
      BY <3>1, <3>2
  <2> HIDE DEF c
  <2>5. todo' = Splice(todo, 1, c)
    BY <1>2, <2>2, <2>3, <2>4, LastIs
  <2>6. /\ Base' = Base /\ TagAt(Base)' = TagAt(Base) /\ Len(todo') = Len(c) + Len(todo) - 1
        /\ \A k \in 1 .. Len(c) : todo'[k] = c[k]
    BY <1>1, <2>4, <2>5, FrontIs
  <2>7. Len(todo') = 5 /\ todo'[1] = Advance /\ todo'[2] = parser_operation[2]
    BY <1>2, <2>1, <2>6
  <2>8. pos' = Base'
    BY <1>2, <2>2, <2>6, PosIs
  <2>9. Heading'
    BY <2>7, <2>8 DEF Heading
  <2>10. Len(todo') > 3
    BY <2>7
  <2> QED
    BY <2>6, <2>9, <2>10 DEF Annotating
<1>3. CASE Len(todo) = 5 /\ todo[1] = Advance /\ todo[2] = parser_operation[2] /\ pos = Base
  <2> DEFINE c == <<>>
  <2>1. Len(c) = 0 /\ c \in Seq(Item)
    OBVIOUS
  <2>2. AdvanceToken
    BY <1>3, ActionIs DEF Advance
  <2>3. Then(c) /\ pos' = Following(pos)
    BY <2>2 DEF AdvanceToken
  <2> HIDE DEF c
  <2>4. todo' = Splice(todo, 1, c)
    BY <1>1, <2>1, <2>3, ThenIs
  <2>5. /\ Base' = Base /\ TagAt(Base)' = TagAt(Base) /\ Len(todo') = Len(c) + Len(todo) - 1
        /\ \A k \in Len(c) + 1 .. Len(todo') : todo'[k] = todo[k - Len(c) + 1]
    BY <1>1, <2>1, <2>4, FrontIs
  <2>6. Len(todo') = 4 /\ 1 \in Len(c) + 1 .. Len(todo') /\ 1 - Len(c) + 1 = 2
    BY <1>3, <2>1, <2>5
  <2>7. todo'[1] = parser_operation[2]
    BY <1>3, <2>5, <2>6
  <2>8. pos' = pos + 1
    <3>1. pos # LastPos /\ pos \in 1 .. LastPos /\ LastPos \in Nat
      BY <1>3, FileIs DEF TypeInv
    <3>2. pos < LastPos
      BY <3>1
    <3> QED
      BY <2>3, <3>1, <3>2, FollowingIs DEF TypeInv
  <2> QED
    BY <1>3, <2>5, <2>6, <2>7, <2>8 DEF Annotating, Heading
<1>4. CASE Len(todo) = 4 /\ todo[1] = parser_operation[2] /\ pos = Base + 1
  <2> DEFINE cases ==
        << When(Reads({"operation"}), <<Advance, Call("operation_op"), Emit("Invalid")>>),
           When(Reads({"atom"}), <<Advance, Call("operation_atom"), Emit("Invalid")>>),
           When(Reads({"ffi"}), <<Advance, TailCall("ffi")>>),
           When(Is({"Identifier"}), <<Error, Advance, Emit("Invalid")>>) >>
  <2>1. /\ todo[1].op = "switch" /\ todo[1].default = <<Error, Emit("Invalid")>>
        /\ todo[1].cases = cases
    BY <1>4 DEF parser_operation, Switch
  <2>2. PICK c \in Seq(Still) :
            /\ Then(c)
            /\ \/ c = todo[1].default
               \/ \E i \in DOMAIN todo[1].cases :
                     c = todo[1].cases[i].code /\ Holds(todo[1].cases[i].test)
    BY <2>1, ActionIs, ChooseIs
  <2>3. c \in Seq(Item) /\ todo' = Splice(todo, 1, c)
    BY <1>1, <2>2, StillIs, ThenIs
  <2>4. \/ c = <<Error, Emit("Invalid")>>
        \/ c = <<Advance, Call("operation_op"), Emit("Invalid")>> /\ Holds(Reads({"operation"}))
        \/ c = <<Advance, Call("operation_atom"), Emit("Invalid")>> /\ Holds(Reads({"atom"}))
        \/ c = <<Advance, TailCall("ffi")>>
        \/ c = <<Error, Advance, Emit("Invalid")>>
    <3>1. CASE c = todo[1].default
      BY <2>1, <3>1
    <3>2. ASSUME NEW i \in DOMAIN todo[1].cases, c = todo[1].cases[i].code,
                 Holds(todo[1].cases[i].test)
          PROVE  \/ c = <<Advance, Call("operation_op"), Emit("Invalid")>> /\ Holds(Reads({"operation"}))
                 \/ c = <<Advance, Call("operation_atom"), Emit("Invalid")>> /\ Holds(Reads({"atom"}))
                 \/ c = <<Advance, TailCall("ffi")>>
                 \/ c = <<Error, Advance, Emit("Invalid")>>
      <4>1. i \in {1, 2, 3, 4}
        BY <2>1, <3>2
      <4>2. /\ cases[1].code = <<Advance, Call("operation_op"), Emit("Invalid")>>
            /\ cases[1].test = Reads({"operation"})
            /\ cases[2].code = <<Advance, Call("operation_atom"), Emit("Invalid")>>
            /\ cases[2].test = Reads({"atom"})
            /\ cases[3].code = <<Advance, TailCall("ffi")>>
            /\ cases[4].code = <<Error, Advance, Emit("Invalid")>>
        BY DEF When
      <4> HIDE DEF cases
      <4> QED
        BY <2>1, <3>2, <4>1, <4>2, Zenon
    <3> QED
      BY <2>2, <3>1, <3>2
  <2> HIDE DEF cases
  <2>5. ~(Len(c) > 0 /\ c[1] = Error)
    BY <1>1, <2>3, NextIs
  <2>6. CASE c = <<Advance, TailCall("ffi")>>
    <3>1. Len(c) = 2 /\ c[1] = Advance /\ c[2] = TailCall("ffi")
      BY <2>6
    <3>2. TailCall("ffi") \in Promises /\ Advance \in Sure
      BY PromisesAre
    <3>3. Len(c) > 0 /\ c[Len(c)] \in Promises /\ \A k \in 1 .. Len(c) - 1 : c[k] \in Sure
      BY <3>1, <3>2
    <3>4. Base' = Base /\ Owed(todo')
      BY <1>4, <2>3, <3>3, OwedMade
    <3> QED
      BY <3>4 DEF Owed
  <2>7. ASSUME NEW a \in Annotations, c = <<Advance, Call(a.to), Emit("Invalid")>>,
               Holds(Reads({a.word}))
        PROVE  Base' = Base /\ Len(todo') > 3 /\ Annotating'
    <3>1. Len(c) = 3 /\ c[1] = Advance /\ c[2] = Call(a.to) /\ c[3] = Emit("Invalid")
      BY <2>7
    <3>2. TokenAt(Base + 1) = a.word
      BY <1>4, <2>7 DEF Holds, Reads
    <3>3. /\ Base' = Base /\ TagAt(Base)' = TagAt(Base) /\ TokenAt(Base + 1)' = TokenAt(Base + 1)
          /\ Len(todo') = Len(c) + Len(todo) - 1 /\ Base \in Nat \ {0}
          /\ \A k \in 1 .. Len(c) : todo'[k] = c[k]
      BY <1>1, <2>3, FrontIs
    <3>4. /\ Len(todo') = 6 /\ todo'[1] = Advance /\ todo'[2] = Call(a.to)
          /\ todo'[3] = Emit("Invalid")
      BY <1>4, <3>1, <3>3
    <3>5. pos' <= Base' + 1
      BY <1>4, <2>1, <3>3, PosIs
    <3>6. TokenAt(Base + 1)' = a.word
      BY <3>2, <3>3, Zenon
    <3>7. Len(todo') > 3 /\ todo'[Len(todo') - 3] = Emit("Invalid")
      BY <3>4
    <3>8. Noting(a)'
      BY <3>4, <3>5, <3>6, <3>7 DEF Noting
    <3>9. TagAt(Base)' = "Ats"
      BY <3>3, Zenon
    <3>10. Annotating'
      BY <3>8, <3>9 DEF Annotating
    <3> QED
      BY <3>3, <3>7, <3>10
  <2>8. CASE c = <<Advance, Call("operation_op"), Emit("Invalid")>> /\ Holds(Reads({"operation"}))
    <3> DEFINE a == [word |-> "operation", to |-> "operation_op", len |-> 6]
    <3>1. a \in Annotations /\ a.word = "operation" /\ a.to = "operation_op"
      BY DEF Annotations
    <3> HIDE DEF a
    <3> QED
      BY <2>7, <2>8, <3>1, Zenon
  <2>9. CASE c = <<Advance, Call("operation_atom"), Emit("Invalid")>> /\ Holds(Reads({"atom"}))
    <3> DEFINE a == [word |-> "atom", to |-> "operation_atom", len |-> 12]
    <3>1. a \in Annotations /\ a.word = "atom" /\ a.to = "operation_atom"
      BY DEF Annotations
    <3> HIDE DEF a
    <3> QED
      BY <2>7, <2>9, <3>1, Zenon
  <2>10. CASE c = <<Error, Emit("Invalid")>> \/ c = <<Error, Advance, Emit("Invalid")>>
    BY <2>5, <2>10
  <2> QED
    BY <2>4, <2>6, <2>8, <2>9, <2>10
<1> QED
  BY <1>2, <1>3, <1>4 DEF Heading

\* The annotation a is read by what still has to read it.
LEMMA NotingNow ==
    ASSUME NEW a \in Annotations, Len(todo) \in Nat, Noting(a)
    PROVE  /\ Len(todo) > 3 /\ todo[Len(todo) - 3] = Emit("Invalid") /\ TokenAt(Base + 1) = a.word
           /\ \/ Len(todo) = 6 /\ todo[1] = Advance /\ todo[2] = Call(a.to) /\ pos <= Base + 1
              \/ Len(todo) = 5 /\ todo[1] = Call(a.to) /\ pos <= Base + 2
              \/ /\ Len(todo) > 4 /\ todo[Len(todo) - 4].op = "ret"
                 /\ pos + (Len(todo) - 5) <= Base + a.len
                 /\ \A k \in 1 .. Len(todo) - 5 : todo[k] \in Reading
              \/ Len(todo) = 4 /\ pos <= Base + a.len
BY DEF Noting

\* The function of an annotation consumes a token, or stops with an error.
LEMMA ReadingStep ==
    ASSUME TypeInv, Next, todo # <<>>, Silent', todo[1] \in Reading
    PROVE  \E c \in Seq(Item) :
              /\ todo' = Splice(todo, 1, c)
              /\ \/ Len(c) = 0 /\ pos' <= pos + 1
                 \/ Len(c) = 1 /\ c[1] = Advance /\ pos' = pos
<1>1. todo \in Seq(Item) /\ Len(todo) \in Nat \ {0} /\ 1 \in 1 .. Len(todo)
  BY HeadIs
<1>2. CASE todo[1] = Advance
  <2> DEFINE c == <<>>
  <2>1. Len(c) = 0 /\ c \in Seq(Item)
    OBVIOUS
  <2>2. AdvanceToken
    BY <1>2, ActionIs DEF Advance
  <2>3. Then(c) /\ pos' = Following(pos)
    BY <2>2 DEF AdvanceToken
  <2> HIDE DEF c
  <2>4. todo' = Splice(todo, 1, c)
    BY <1>1, <2>1, <2>3, ThenIs
  <2>5. pos' <= pos + 1
    BY <2>3, PosIs DEF Following
  <2> QED
    BY <2>1, <2>4, <2>5
<1>3. ASSUME NEW t \in Tests, todo[1] = If(t, <<Advance>>, <<Error, Leave>>)
      PROVE  \E c \in Seq(Item) : /\ todo' = Splice(todo, 1, c)
                                  /\ Len(c) = 1 /\ c[1] = Advance /\ pos' = pos
  <2>1. todo[1].op = "switch"
    BY <1>3 DEF If, Switch
  <2>2. Choose /\ pos' = pos
    BY <2>1, ActionIs, PosIs
  <2>3. Then(<<Advance>>) \/ Then(<<Error, Leave>>)
    BY <1>3, <2>2, IfIs
  <2>4. Advance \in Item /\ Error \in Item /\ Leave \in Item
    BY BasicIs, PlainIs DEF Item, Still, Text, Open
  <2>5. CASE Then(<<Advance>>)
    <3> DEFINE c == <<Advance>>
    <3>1. c \in Seq(Item) /\ Len(c) = 1 /\ c[1] = Advance
      BY <2>4
    <3> HIDE DEF c
    <3>2. todo' = Splice(todo, 1, c)
      BY <1>1, <2>5, ThenIs DEF c
    <3> QED
      BY <2>2, <3>1, <3>2
  <2>6. CASE Then(<<Error, Leave>>)
    <3> DEFINE c == <<Error, Leave>>
    <3>1. c \in Seq(Item) /\ Len(c) = 2 /\ c[1] = Error
      BY <2>4
    <3> HIDE DEF c
    <3>2. todo' = Splice(todo, 1, c)
      BY <1>1, <2>6, ThenIs DEF c
    <3>3. ~Silent'
      BY <1>1, <3>1, <3>2, NextIs
    <3> QED
      BY <3>3
  <2> QED
    BY <2>3, <2>5, <2>6
<1> QED
  BY <1>2, <1>3 DEF Reading

\* An annotation goes on, or it is read: then its tokens are those of one.
LEMMA NotingStep ==
    ASSUME TypeInv, Next, todo # <<>>, Silent', TagAt(Base) = "Ats", NEW a \in Annotations,
           Noting(a), Covered(out, Base)
    PROVE  /\ Base' = Base
           /\ \/ Len(todo') > 3 /\ Annotating'
              \/ Len(todo') = 3 /\ Covered(out', pos')
<1>1. todo \in Seq(Item) /\ todo[1] \in Item /\ Len(todo) \in Nat \ {0}
  BY HeadIs
<1>2. /\ Len(todo) > 3 /\ todo[Len(todo) - 3] = Emit("Invalid") /\ TokenAt(Base + 1) = a.word
      /\ \/ Len(todo) = 6 /\ todo[1] = Advance /\ todo[2] = Call(a.to) /\ pos <= Base + 1
         \/ Len(todo) = 5 /\ todo[1] = Call(a.to) /\ pos <= Base + 2
         \/ /\ Len(todo) > 4 /\ todo[Len(todo) - 4].op = "ret"
            /\ pos + (Len(todo) - 5) <= Base + a.len
            /\ \A k \in 1 .. Len(todo) - 5 : todo[k] \in Reading
         \/ Len(todo) = 4 /\ pos <= Base + a.len
  BY <1>1, NotingNow
<1>3. 1 \in 1 .. Len(todo)
  BY <1>1
<1>4. /\ a.len \in Nat /\ a.to \in Callees
      /\ Code[a.to] \in Seq(Item) /\ Len(Code[a.to]) = a.len - 2
      /\ \A k \in 1 .. Len(Code[a.to]) : Code[a.to][k] \in Reading
      /\ \/ a.word = "operation" /\ a.len = 6
         \/ a.word = "atom" /\ a.len = 12
  BY AnnotationsAre
\* What the step leaves is an annotation.
<1>5. ASSUME Base' = Base, TagAt(Base)' = TagAt(Base), TokenAt(Base + 1)' = TokenAt(Base + 1),
             Len(todo') > 3, todo'[Len(todo') - 3] = Emit("Invalid"),
             \/ Len(todo') = 5 /\ todo'[1] = Call(a.to) /\ pos' <= Base' + 2
             \/ /\ Len(todo') > 4 /\ todo'[Len(todo') - 4].op = "ret"
                /\ pos' + (Len(todo') - 5) <= Base' + a.len
                /\ \A k \in 1 .. Len(todo') - 5 : todo'[k] \in Reading
             \/ Len(todo') = 4 /\ pos' <= Base' + a.len
      PROVE  Annotating'
  <2>1. TokenAt(Base + 1)' = a.word
    BY <1>2, <1>5, Zenon
  <2>2. Noting(a)'
    BY <1>5, <2>1 DEF Noting
  <2>3. TagAt(Base)' = "Ats"
    BY <1>5, Zenon
  <2> QED
    BY <2>2, <2>3 DEF Annotating
<1>6. ASSUME NEW c \in Seq(Item), todo' = Splice(todo, 1, c)
      PROVE  /\ Base' = Base /\ TagAt(Base)' = TagAt(Base) /\ TokenAt(Base + 1)' = TokenAt(Base + 1)
             /\ Base \in Nat \ {0} /\ Len(c) \in Nat /\ Len(todo') \in Nat
             /\ Len(todo') = Len(c) + Len(todo) - 1
             /\ \A k \in 1 .. Len(c) : todo'[k] = c[k]
             /\ \A k \in Len(c) + 1 .. Len(todo') : todo'[k] = todo[k - Len(c) + 1]
             /\ Len(todo) > 4 => todo'[Len(todo') - 3] = Emit("Invalid")
             /\ Len(todo) > 5 => todo'[Len(todo') - 4] = todo[Len(todo) - 4]
  <2>1. /\ Base' = Base /\ TagAt(Base)' = TagAt(Base) /\ TokenAt(Base + 1)' = TokenAt(Base + 1)
        /\ Base \in Nat \ {0} /\ Len(c) \in Nat /\ Len(todo') \in Nat
        /\ Len(todo') = Len(c) + Len(todo) - 1
        /\ \A k \in 1 .. Len(c) : todo'[k] = c[k]
        /\ \A k \in Len(c) + 1 .. Len(todo') : todo'[k] = todo[k - Len(c) + 1]
    BY <1>2, <1>6, FrontIs
  <2>2. ASSUME NEW d \in {3, 4}, Len(todo) > d + 1
        PROVE  todo'[Len(todo') - d] = todo[Len(todo) - d]
    <3> DEFINE k == Len(todo') - d
    <3>1. k \in Len(c) + 1 .. Len(todo') /\ k - Len(c) + 1 = Len(todo) - d
      BY <1>1, <2>1, <2>2, SMTT(30)
    <3> HIDE DEF k
    <3>2. todo'[k] = todo[Len(todo) - d]
      BY <2>1, <3>1
    <3> QED
      BY <3>2 DEF k
  <2>3. /\ Len(todo) > 4 => todo'[Len(todo') - 3] = todo[Len(todo) - 3]
        /\ Len(todo) > 5 => todo'[Len(todo') - 4] = todo[Len(todo) - 4]
    BY <2>2
  <2> QED
    BY <1>2, <2>1, <2>3, Zenon
<1>7. pos \in Nat /\ pos' \in Nat /\ Base \in Nat
  <2>1. Base \in Nat
    BY <1>2, BaseIs
  <2> QED
    BY <2>1, PosIs
\* The name of the annotation is read.
<1>8. CASE Len(todo) = 6 /\ todo[1] = Advance /\ todo[2] = Call(a.to) /\ pos <= Base + 1
  <2> DEFINE c == <<>>
  <2>1. Len(c) = 0 /\ c \in Seq(Item)
    OBVIOUS
  <2>2. AdvanceToken
    BY <1>8, ActionIs DEF Advance
  <2>3. Then(c) /\ pos' = Following(pos)
    BY <2>2 DEF AdvanceToken
  <2> HIDE DEF c
  <2>4. todo' = Splice(todo, 1, c)
    BY <1>1, <2>1, <2>3, ThenIs
  <2>5. /\ Base' = Base /\ TagAt(Base)' = TagAt(Base) /\ TokenAt(Base + 1)' = TokenAt(Base + 1)
        /\ Len(todo') = Len(c) + Len(todo) - 1
        /\ \A k \in Len(c) + 1 .. Len(todo') : todo'[k] = todo[k - Len(c) + 1]
        /\ Len(todo) > 4 => todo'[Len(todo') - 3] = Emit("Invalid")
    BY <1>6, <2>1, <2>4
  <2>6. Len(todo') = 5 /\ 1 \in Len(c) + 1 .. Len(todo') /\ 1 - Len(c) + 1 = 2
    BY <1>8, <2>1, <2>5
  <2>7. todo'[1] = Call(a.to) /\ todo'[Len(todo') - 3] = Emit("Invalid")
    BY <1>8, <2>5, <2>6
  <2>8. pos' <= Base' + 2
    BY <1>7, <1>8, <2>3, <2>5 DEF Following
  <2>9. Len(todo') > 3
    BY <2>6
  <2> QED
    BY <1>5, <2>5, <2>6, <2>7, <2>8, <2>9
\* The function is entered.
<1>9. CASE Len(todo) = 5 /\ todo[1] = Call(a.to) /\ pos <= Base + 2
  <2> DEFINE s == Code[a.to]
             r == [op |-> "ret", from |-> pos]
             c == Append(s, r)
  <2>1. todo[1].op = "call" /\ todo[1].to = a.to
    BY <1>9 DEF Call
  <2>2. Enter(s)
    BY <2>1, ActionIs DEF CallFunction, At
  <2>3. Then(c)
    BY <2>2 DEF Enter
  <2>4. r \in Item
    <3>1. pos \in Nat \ {0}
      BY <1>7 DEF TypeInv
    <3> QED
      BY <3>1 DEF Item, Rets
  <2>5. r.op = "ret"
    OBVIOUS
  <2> HIDE DEF r
  <2>6. /\ s \in Seq(Item) /\ Len(s) = a.len - 2 /\ Len(s) \in Nat
        /\ \A k \in 1 .. Len(s) : s[k] \in Reading
    BY <1>4, Zenon, LenProperties
  <2> HIDE DEF s
  <2>7. /\ c \in Seq(Item) /\ Len(c) = Len(s) + 1 /\ c[Len(s) + 1] = r
        /\ \A k \in 1 .. Len(s) : c[k] = s[k]
    BY <2>4, <2>6, AppendProperties
  <2> HIDE DEF c
  <2>8. todo' = Splice(todo, 1, c)
    BY <1>1, <2>3, <2>7, ThenIs
  <2>9. /\ Base' = Base /\ TagAt(Base)' = TagAt(Base) /\ TokenAt(Base + 1)' = TokenAt(Base + 1)
        /\ Len(todo') = Len(c) + Len(todo) - 1
        /\ \A k \in 1 .. Len(c) : todo'[k] = c[k]
        /\ Len(todo) > 4 => todo'[Len(todo') - 3] = Emit("Invalid")
    BY <1>6, <2>7, <2>8
  <2>10. /\ Len(todo') > 4 /\ Len(todo') > 3 /\ Len(todo') - 4 = Len(s) + 1
         /\ Len(todo') - 5 = Len(s) /\ Len(s) + 1 \in 1 .. Len(c)
         /\ \A k \in 1 .. Len(s) : k \in 1 .. Len(c)
    <3> DEFINE n == Len(todo)
               m == Len(todo')
               l == Len(s)
               d == Len(c)
    <3>1. n = 5 /\ l \in Nat /\ d = l + 1 /\ m = d + n - 1
      BY <1>9, <2>6, <2>7, <2>9
    <3> HIDE DEF n, m, l, d
    <3>2. /\ m > 4 /\ m > 3 /\ m - 4 = l + 1 /\ m - 5 = l /\ l + 1 \in 1 .. d
          /\ \A k \in 1 .. l : k \in 1 .. d
      BY <3>1
    <3> QED
      BY <3>2 DEF n, m, l, d
  <2>11. todo'[Len(todo') - 4].op = "ret"
    BY <2>5, <2>7, <2>9, <2>10
  <2>12. \A k \in 1 .. Len(todo') - 5 : todo'[k] \in Reading
    BY <2>6, <2>7, <2>9, <2>10
  <2>13. pos' = pos
    BY <2>1, PosIs
  <2>14. pos' + (Len(todo') - 5) <= Base' + a.len
    <3> DEFINE e == Len(todo') - 5
               len == a.len
    <3>1. e = len - 2 /\ len \in Nat
      BY <1>4, <2>6, <2>10
    <3> HIDE DEF e, len
    <3>2. pos + e <= Base + len
      BY <1>7, <1>9, <3>1
    <3> QED
      BY <2>9, <2>13, <3>2 DEF e, len
  <2>15. todo'[Len(todo') - 3] = Emit("Invalid")
    BY <1>9, <2>9
  <2> QED
    BY <1>5, <2>9, <2>10, <2>11, <2>12, <2>14, <2>15
\* It goes on.
<1>10. CASE /\ Len(todo) > 5 /\ todo[Len(todo) - 4].op = "ret"
            /\ pos + (Len(todo) - 5) <= Base + a.len
            /\ \A k \in 1 .. Len(todo) - 5 : todo[k] \in Reading
  <2>1. 1 \in 1 .. Len(todo) - 5
    BY <1>1, <1>10
  <2>2. todo[1] \in Reading
    BY <1>10, <2>1
  <2>3. PICK c \in Seq(Item) :
              /\ todo' = Splice(todo, 1, c)
              /\ \/ Len(c) = 0 /\ pos' <= pos + 1
                 \/ Len(c) = 1 /\ c[1] = Advance /\ pos' = pos
    BY <2>2, ReadingStep
  <2>4. /\ Base' = Base /\ TagAt(Base)' = TagAt(Base) /\ TokenAt(Base + 1)' = TokenAt(Base + 1)
        /\ Len(c) \in Nat /\ Len(todo') \in Nat /\ Len(todo') = Len(c) + Len(todo) - 1
        /\ \A k \in 1 .. Len(c) : todo'[k] = c[k]
        /\ \A k \in Len(c) + 1 .. Len(todo') : todo'[k] = todo[k - Len(c) + 1]
        /\ Len(todo) > 4 => todo'[Len(todo') - 3] = Emit("Invalid")
        /\ Len(todo) > 5 => todo'[Len(todo') - 4] = todo[Len(todo) - 4]
    BY <1>6, <2>3
  <2>5. Len(todo') > 4 /\ Len(todo') > 3 /\ pos' + (Len(todo') - 5) <= Base + a.len
    <3> DEFINE n == Len(todo)
               m == Len(todo')
               d == Len(c)
               len == a.len
    <3>1. n \in Nat /\ n > 5 /\ m = d + n - 1 /\ len \in Nat
      BY <1>1, <1>4, <1>10, <2>4
    <3>2. (d = 0 /\ pos' <= pos + 1) \/ (d = 1 /\ pos' = pos)
      BY <2>3, Zenon
    <3>3. pos + (n - 5) <= Base + len
      BY <1>10
    <3> HIDE DEF n, m, d, len
    <3>4. m > 4 /\ m > 3 /\ pos' + (m - 5) <= Base + len
      BY <1>7, <3>1, <3>2, <3>3, SMTT(30)
    <3> QED
      BY <3>4 DEF m, len
  <2>6. ASSUME NEW k \in 1 .. Len(todo') - 5 PROVE todo'[k] \in Reading
    <3>1. CASE k \in 1 .. Len(c)
      <4>1. Len(c) = 1 /\ c[1] = Advance /\ k = 1
        BY <2>3, <2>4, <3>1
      <4> QED
        BY <2>4, <3>1, <4>1 DEF Reading
    <3>2. CASE k \in Len(c) + 1 .. Len(todo')
      <4>1. k - Len(c) + 1 \in 1 .. Len(todo) - 5
        BY <1>1, <2>4, <3>2
      <4> QED
        BY <1>10, <2>4, <3>2, <4>1
    <3> QED
      BY <2>4, <3>1, <3>2
  <2>7. todo'[Len(todo') - 3] = Emit("Invalid") /\ todo'[Len(todo') - 4].op = "ret"
    <3>1. Len(todo) > 4 /\ Len(todo) > 5
      BY <1>10
    <3> QED
      BY <1>10, <2>4, <3>1, Zenon
  <2>8. pos' + (Len(todo') - 5) <= Base' + a.len
    BY <2>4, <2>5
  <2> QED
    BY <1>5, <2>4, <2>5, <2>6, <2>7, <2>8
\* It ends.
<1>11. CASE Len(todo) = 5 /\ todo[1].op = "ret" /\ pos <= Base + a.len
  <2> DEFINE c == <<>>
  <2>1. Len(c) = 0 /\ c \in Seq(Item)
    OBVIOUS
  <2>2. ReturnFrom
    BY <1>11, ActionIs
  <2>3. Then(c)
    BY <1>11, <2>2 DEF ReturnFrom, At
  <2>4. pos' = pos
    BY <1>11, PosIs
  <2> HIDE DEF c
  <2>5. todo' = Splice(todo, 1, c)
    BY <1>1, <2>1, <2>3, ThenIs
  <2>6. /\ Base' = Base /\ TagAt(Base)' = TagAt(Base) /\ TokenAt(Base + 1)' = TokenAt(Base + 1)
        /\ Len(todo') = Len(c) + Len(todo) - 1
        /\ Len(todo) > 4 => todo'[Len(todo') - 3] = Emit("Invalid")
    BY <1>6, <2>1, <2>5
  <2>7. Len(todo') = 4 /\ Len(todo') > 3
    BY <1>11, <2>1, <2>6
  <2>8. todo'[Len(todo') - 3] = Emit("Invalid") /\ pos' <= Base' + a.len
    BY <1>11, <2>4, <2>6
  <2> QED
    BY <1>5, <2>6, <2>7, <2>8
\* The statement is the annotation.
<1>12. CASE Len(todo) = 4 /\ pos <= Base + a.len
  <2> DEFINE c == <<>>
  <2>1. Len(c) = 0 /\ c \in Seq(Item)
    OBVIOUS
  <2>2. todo[1] = Emit("Invalid")
    <3>1. Len(todo) - 3 = 1
      BY <1>12
    <3> QED
      BY <1>2, <3>1, Zenon
  <2>3. todo[1].op = "emit"
    BY <2>2 DEF Emit
  <2>4. BuildNode
    BY <2>3, ActionIs
  <2>5. Then(c)
    BY <2>4 DEF BuildNode
  <2>6. pos' = pos
    BY <2>3, PosIs
  <2> HIDE DEF c
  <2>7. todo' = Splice(todo, 1, c)
    BY <1>1, <2>1, <2>5, ThenIs
  <2>8. Base' = Base /\ Len(todo') = Len(c) + Len(todo) - 1
    BY <1>6, <2>1, <2>7
  <2>9. Len(todo') = 3
    BY <1>12, <2>1, <2>8
  <2>10. Covered(out', Base)
    BY <1>7, CoveredStep
  <2>11. ASSUME NEW q \in 1 .. pos' - 1
         PROVE  \/ \E i \in 1 .. Len(out') :
                      out'[i].tag # "Invalid" /\ q \in out'[i].from .. out'[i].to
                \/ Annotated(q)
    <3>2. CASE q < Base
      <4>1. q \in 1 .. Base - 1
        BY <1>7, <3>2
      <4> QED
        BY <2>10, <4>1 DEF Covered
    <3>3. CASE q >= Base
      <4>1. Base \in 1 .. q /\ q <= Base + (a.len - 1) /\ q \in Nat
        <5> DEFINE len == a.len
        <5>1. Base \in Nat \ {0}
          BY <1>6, <2>1, <2>7
        <5>2. len \in Nat /\ pos <= Base + len
          BY <1>4, <1>12
        <5> HIDE DEF len
        <5>3. Base \in 1 .. q /\ q <= Base + (len - 1) /\ q \in Nat
          BY <1>7, <2>6, <3>3, <5>1, <5>2
        <5> QED
          BY <5>3 DEF len
      <4>2. CASE a.word = "operation" /\ a.len = 6
        <5>1. q <= Base + 5
          BY <4>1, <4>2
        <5> QED
          BY <1>2, <4>1, <4>2, <5>1 DEF Annotated
      <4>3. CASE a.word = "atom" /\ a.len = 12
        <5>1. q <= Base + 11
          BY <4>1, <4>3
        <5> QED
          BY <1>2, <4>1, <4>3, <5>1 DEF Annotated
      <4> QED
        BY <1>4, <4>2, <4>3
    <3> QED
      BY <1>7, <3>2, <3>3
  <2> QED
    BY <2>8, <2>9, <2>11 DEF Covered
<1>13. \/ Len(todo) > 5
       \/ Len(todo) = 5 /\ Len(todo) - 4 = 1 /\ Len(todo) - 5 = 0
       \/ Len(todo) = 4
  <2> DEFINE n == Len(todo)
  <2>1. n \in Nat /\ n > 3
    BY <1>1, <1>2
  <2> HIDE DEF n
  <2>2. n > 5 \/ (n = 5 /\ n - 4 = 1 /\ n - 5 = 0) \/ n = 4
    BY <2>1
  <2> QED
    BY <2>2 DEF n
<1>14. CASE /\ Len(todo) > 4 /\ todo[Len(todo) - 4].op = "ret"
            /\ pos + (Len(todo) - 5) <= Base + a.len
            /\ \A k \in 1 .. Len(todo) - 5 : todo[k] \in Reading
  <2>1. CASE Len(todo) > 5
    BY <1>10, <1>14, <2>1
  <2>2. CASE Len(todo) = 5 /\ Len(todo) - 4 = 1 /\ Len(todo) - 5 = 0
    <3>1. todo[1].op = "ret" /\ pos + 0 <= Base + a.len
      BY <1>14, <2>2, Zenon
    <3>2. pos <= Base + a.len
      BY <1>7, <3>1
    <3> QED
      BY <1>11, <2>2, <3>1, <3>2
  <2>3. Len(todo) # 4
    <3> DEFINE n == Len(todo)
    <3>1. n > 4 /\ n \in Nat
      BY <1>1, <1>14
    <3> HIDE DEF n
    <3>2. n # 4
      BY <3>1
    <3> QED
      BY <3>2 DEF n
  <2> QED
    BY <1>13, <2>1, <2>2, <2>3, Zenon
<1> QED
  BY <1>2, <1>8, <1>9, <1>12, <1>14

LEMMA LeadingIs ==
    ASSUME NEW f \in Leading
    PROVE  f \in Callees /\ Code[f] \in Seq(Item) /\ Len(Code[f]) > 0 /\ Code[f][1] = Advance
<1>1. f \in Callees
  BY NamesIn DEF Leading, ItemNames
<1>2. Code[f] \in Seq(Item)
  BY <1>1, CodeStill, StillIs DEF Callees
<1>3. Len(parser_functions) > 0 /\ parser_functions[1] = Advance
  BY DEF parser_functions, Signature
<1>4. Len(parser_structer) > 0 /\ parser_structer[1] = Advance
  BY DEF parser_structer
<1>5. Len(parser_enums) > 0 /\ parser_enums[1] = Advance
  BY DEF parser_enums
<1>6. Len(parser_traits) > 0 /\ parser_traits[1] = Advance
  BY DEF parser_traits
<1>7. Len(parser_class) > 0 /\ parser_class[1] = Advance
  BY DEF parser_class
<1>8. Len(parser_module) > 0 /\ parser_module[1] = Advance
  BY DEF parser_module
<1>9. Len(parser_import) > 0 /\ parser_import[1] = Advance
  BY DEF parser_import
<1>10. Len(parser_from_import) > 0 /\ parser_from_import[1] = Advance
  BY DEF parser_from_import
<1>11. Len(parser_if) > 0 /\ parser_if[1] = Advance
  BY DEF parser_if, Branch
<1>12. Len(parser_return) > 0 /\ parser_return[1] = Advance
  BY DEF parser_return
<1>13. Len(parser_globle) > 0 /\ parser_globle[1] = Advance
  BY DEF parser_globle, Declared
<1>14. Len(parser_vars) > 0 /\ parser_vars[1] = Advance
  BY DEF parser_vars, Declared
<1>15. Len(parser_lets) > 0 /\ parser_lets[1] = Advance
  BY DEF parser_lets, Declared
<1>16. Len(parser_match) > 0 /\ parser_match[1] = Advance
  BY DEF parser_match
<1>17. Len(parser_for) > 0 /\ parser_for[1] = Advance
  BY DEF parser_for
<1>18. Len(parser_while) > 0 /\ parser_while[1] = Advance
  BY DEF parser_while
<1>19. Len(parser_extern) > 0 /\ parser_extern[1] = Advance
  BY DEF parser_extern
<1>20. Len(parser_operation) > 0 /\ parser_operation[1] = Advance
  BY DEF parser_operation
<1>21. Len(parser_array) > 0 /\ parser_array[1] = Advance
  BY DEF parser_array
<1>22. Len(Parenthesis) > 0 /\ Parenthesis[1] = Advance
  BY DEF Parenthesis
<1>23. Len(IdentifierExpr) > 0 /\ IdentifierExpr[1] = Advance
  BY DEF IdentifierExpr
<1>24. f \in {"functions", "structer", "enums", "traits", "class", "module"}
        => Len(Code[f]) > 0 /\ Code[f][1] = Advance
  BY CodeIs, <1>3, <1>4, <1>5, <1>6, <1>7, <1>8, Zenon
<1>25. f \in {"import", "from_import", "if", "return", "globle", "vars"}
        => Len(Code[f]) > 0 /\ Code[f][1] = Advance
  BY CodeIs, <1>9, <1>10, <1>11, <1>12, <1>13, <1>14, Zenon
<1>26. f \in {"lets", "match", "for", "while", "extern"}
        => Len(Code[f]) > 0 /\ Code[f][1] = Advance
  BY CodeIs, <1>15, <1>16, <1>17, <1>18, <1>19, Zenon
<1>27. f \in {"operation", "array", "parenthesis", "identifier"}
        => Len(Code[f]) > 0 /\ Code[f][1] = Advance
  BY CodeIs, <1>20, <1>21, <1>22, <1>23, Zenon
<1> QED
  BY <1>1, <1>2, <1>24, <1>25, <1>26, <1>27 DEF Leading, ItemNames

\* A step puts c first.
LEMMA PutFirst ==
    ASSUME TypeInv, todo # <<>>, NEW c \in Seq(Item), Len(c) > 0, Then(c)
    PROVE  todo' # <<>> /\ todo'[1] = c[1]
<1>1. todo \in Seq(Item) /\ 1 \in 1 .. Len(todo)
  BY HeadIs
<1>2. todo' = Splice(todo, 1, c)
  BY <1>1, ThenIs
<1> QED
  BY <1>1, <1>2, NextIs

\* The function f begins.
LEMMA EnterFirst ==
    ASSUME TypeInv, todo # <<>>, NEW c \in Seq(Item), Len(c) > 0, Enter(c)
    PROVE  todo' # <<>> /\ todo'[1] = c[1]
<1> DEFINE r == [op |-> "ret", from |-> pos]
           d == Append(c, r)
<1>1. r \in Item
  <2>1. pos \in Nat \ {0}
    BY FileIs DEF TypeInv
  <2> QED
    BY <2>1 DEF Item, Rets
<1>2. Then(d)
  BY DEF Enter
<1> HIDE DEF r
<1>3. d \in Seq(Item) /\ Len(d) > 0 /\ d[1] = c[1]
  <2>1. Len(c) \in Nat
    BY LenProperties
  <2>2. d \in Seq(Item) /\ Len(d) = Len(c) + 1 /\ \A k \in 1 .. Len(c) : d[k] = c[k]
    BY <1>1, AppendProperties
  <2>3. 1 \in 1 .. Len(c) /\ Len(c) + 1 > 0
    BY <2>1
  <2> QED
    BY <2>2, <2>3
<1> HIDE DEF d
<1> QED
  BY <1>2, <1>3, PutFirst

LEMMA TailFirst ==
    ASSUME TypeInv, Next, todo # <<>>, NEW f \in Callees, todo[1] = TailCall(f),
           Code[f] \in Seq(Item), Len(Code[f]) > 0
    PROVE  todo' # <<>> /\ todo'[1] = Code[f][1]
<1>1. todo \in Seq(Item) /\ Len(todo) \in Nat \ {0}
  BY HeadIs
<1>2. todo[1].op = "tail" /\ todo[1].to = f
  BY DEF TailCall
<1>3. todo' = Code[f] \o From({"ret"})
  BY <1>2, ActionIs DEF CallFunction, At
<1>4. \E j \in 2 .. Len(todo) - 2 : todo[j].op = "ret"
  <2>1. Running(todo, pos) /\ ~Free(todo[1])
    BY <1>2 DEF TypeInv, Free
  <2> QED
    BY <2>1, Deep
<1>5. PICK j \in 1 .. Len(todo) : todo[j].op = "ret"
  BY <1>1, <1>4
<1>6. PICK r \in 1 .. j : First("ret", r)
  BY <1>1, <1>5, FirstIs
<1>7. r - 1 \in 1 .. Len(todo)
  <2>1. r \in 1 .. Len(todo) /\ todo[r].op = "ret"
    BY <1>6 DEF First
  <2>2. r # 1
    BY <1>2, <2>1
  <2> QED
    BY <1>1, <2>1, <2>2
<1> DEFINE c == Code[f]
<1>8. \A d : d \o From({"ret"}) = Splice(todo, r - 1, d)
  BY <1>1, <1>6, FromFirst
<1>9. todo' = Splice(todo, r - 1, c)
  BY <1>3, <1>8
<1>10. c \in Seq(Item) /\ Len(c) > 0
  OBVIOUS
<1> HIDE DEF c
<1>11. todo' # <<>> /\ todo'[1] = c[1]
  BY <1>7, <1>9, <1>10, NextIs
<1> QED
  BY <1>11 DEF c

\* At a token, what has not consumed one consumes it or comes closer to it.
LEMMA StartHead ==
    ASSUME TypeInv, Next, todo # <<>>, Silent', todo[1] \in Starting, TagAt(pos) # "EOFs"
    PROVE  pos' = pos + 1 \/ (todo' # <<>> /\ todo'[1] \in Starting)
<1>1. todo \in Seq(Item) /\ 1 \in 1 .. Len(todo)
  BY HeadIs
<1>2. /\ Call("stmt") \in Starting /\ parser_stmt[1] \in Starting /\ Advance \in Starting
      /\ Expr(0) \in Starting /\ Call("primary") \in Starting /\ parser_expr_primary[1] \in Starting
      /\ \A f \in Leading : TailCall(f) \in Starting
  BY DEF Starting
\* No step puts an error first.
<1>3. ASSUME NEW c \in Seq(Item), Len(c) > 0, Then(c), c[1] \in Starting \cup {Error}
      PROVE  todo' # <<>> /\ todo'[1] \in Starting
  <2>1. todo' = Splice(todo, 1, c)
    BY <1>1, <1>3, ThenIs
  <2>2. todo' # <<>> /\ todo'[1] = c[1] /\ c[1] # Error
    BY <1>1, <1>3, <2>1, NextIs
  <2> QED
    BY <1>3, <2>2
<1>4. CASE todo[1] = Call("stmt")
  <2>1. Enter(Code["stmt"])
    BY <1>4, ActionIs DEF CallFunction, At, Call
  <2>2. Code["stmt"] \in Seq(Item) /\ Code["stmt"] = parser_stmt
    BY CodeStill, NamesIn, StillIs, CodeIs
  <2>3. Len(parser_stmt) > 0
    BY DEF parser_stmt
  <2>4. todo' # <<>> /\ todo'[1] = parser_stmt[1]
    BY <2>1, <2>2, <2>3, EnterFirst
  <2> QED
    BY <1>2, <2>4
<1>5. CASE todo[1] = parser_stmt[1]
  <2>1. todo[1] \in StmtSwitches
    BY <1>5, StmtCode
  <2>2. /\ todo[1].op = "switch" /\ todo[1].default = <<Expr(0), Emit("ExprStmt")>>
        /\ todo[1].cases \in Seq(StmtCases)
    BY <2>1 DEF StmtSwitches
  <2>3. PICK c \in Seq(Still) :
            /\ Then(c)
            /\ \/ c = todo[1].default
               \/ \E i \in DOMAIN todo[1].cases :
                     c = todo[1].cases[i].code /\ Holds(todo[1].cases[i].test)
    BY <2>2, ActionIs, ChooseIs
  <2>4. Len(c) > 0 /\ c[1] \in Starting \cup {Error}
    <3>1. CASE c = todo[1].default
      BY <1>2, <2>2, <3>1
    <3>2. ASSUME NEW i \in DOMAIN todo[1].cases, c = todo[1].cases[i].code
          PROVE  Len(c) > 0 /\ c[1] \in Starting \cup {Error}
      <4> DEFINE case == todo[1].cases[i]
      <4>1. case \in StmtCases
        BY <2>2, ElementOfSeq, LenProperties
      <4>2. c = case.code
        BY <3>2
      <4> HIDE DEF case
      <4>3. CASE case \in Cases(StmtCodes)
        <5>1. c \in StmtCodes
          BY <4>2, <4>3 DEF Cases
        <5>2. CASE c \in StmtTails
          <6>1. PICK f \in ItemNames \ {"const"} : c = <<TailCall(f)>>
            BY <5>2 DEF StmtTails
          <6>2. TailCall(f) \in Starting
            BY <1>2 DEF Leading
          <6> QED
            BY <6>1, <6>2
        <5>3. CASE c \in {<<Advance, j>> : j \in OneOfs \cup Unsafes}
          BY <1>2, <5>3
        <5> QED
          BY <5>1, <5>2, <5>3 DEF StmtCodes
      <4>4. CASE case = When(Is({"EOFs"}), <<Error, Emit("Invalid")>>)
        <5>1. c = <<Error, Emit("Invalid")>>
          BY <4>2, <4>4 DEF When
        <5> QED
          BY <5>1
      <4>5. CASE case = When(Is({"Ats"}), <<TailCall("operation")>>)
        <5>1. c = <<TailCall("operation")>>
          BY <4>2, <4>5 DEF When
        <5>2. TailCall("operation") \in Starting
          BY <1>2 DEF Leading
        <5> QED
          BY <5>1, <5>2
      <4> QED
        BY <4>1, <4>3, <4>4, <4>5 DEF StmtCases
    <3> QED
      BY <2>3, <3>1, <3>2
  <2> QED
    BY <1>3, <2>3, <2>4, StillIs
<1>6. CASE todo[1] = Advance
  <2>1. pos' = Following(pos)
    BY <1>6, PosIs DEF Advance
  <2>2. pos # LastPos /\ pos \in 1 .. LastPos /\ LastPos \in Nat /\ src \in Sources
    BY FileIs DEF TypeInv
  <2>3. pos < LastPos
    BY <2>2
  <2> QED
    BY <2>1, <2>2, <2>3, FollowingIs
<1>7. CASE todo[1] = Expr(0)
  <2> DEFINE c == <<Call("primary"), Infix(0)>>
  <2>1. todo[1].op = "expr" /\ todo[1].min = 0
    BY <1>7 DEF Expr
  <2>2. Enter(c)
    BY <2>1, ActionIs DEF parser_expr_bp, At
  <2>3. c \in Seq(Item) /\ Len(c) > 0 /\ c[1] = Call("primary")
    <3>1. Call("primary") \in Item /\ Infix(0) \in Item
      BY PlainIs, NamesIn DEF Item, Still, Text, Open
    <3> QED
      BY <3>1
  <2> HIDE DEF c
  <2> QED
    BY <1>2, <2>2, <2>3, EnterFirst
<1>8. CASE todo[1] = Call("primary")
  <2>1. Enter(Code["primary"])
    BY <1>8, ActionIs DEF CallFunction, At, Call
  <2>2. Code["primary"] \in Seq(Item) /\ Code["primary"] = parser_expr_primary
    BY CodeStill, NamesIn, StillIs, CodeIs
  <2>3. Len(parser_expr_primary) > 0
    BY DEF parser_expr_primary
  <2>4. todo' # <<>> /\ todo'[1] = parser_expr_primary[1]
    BY <2>1, <2>2, <2>3, EnterFirst
  <2> QED
    BY <1>2, <2>4
<1>9. CASE todo[1] = parser_expr_primary[1]
  <2> DEFINE cases == <<
         When(Is({"LeftBrackets"}), <<TailCall("array")>>),
         When(Is({"Ampersands"}), <<Advance, Call("primary"), Emit("AddrOf")>>),
         When(Is({"Minuss", "Nots", "Bangs", "Tildes"}),
              <<Advance, Call("primary"), Emit("Unary")>>),
         When(Is({"LeftParens"}), <<TailCall("parenthesis")>>),
         When(Is(Literals), <<Advance, Emit("Literals")>>),
         When(Is({"Identifier"}), <<TailCall("identifier")>>),
         When(Is({"EOFs"}), <<Error, Emit("Function")>>)>>
  <2>1. /\ todo[1].op = "switch" /\ todo[1].default = <<Error, Advance, Emit("Function")>>
        /\ todo[1].cases = cases
    BY <1>9 DEF parser_expr_primary, Switch
  <2>2. PICK c \in Seq(Still) :
            /\ Then(c)
            /\ \/ c = todo[1].default
               \/ \E i \in DOMAIN todo[1].cases :
                     c = todo[1].cases[i].code /\ Holds(todo[1].cases[i].test)
    BY <2>1, ActionIs, ChooseIs
  <2>3. \/ c = <<Error, Advance, Emit("Function")>>
        \/ c = <<TailCall("array")>> \/ c = <<TailCall("parenthesis")>>
        \/ c = <<TailCall("identifier")>>
        \/ c = <<Advance, Call("primary"), Emit("AddrOf")>>
        \/ c = <<Advance, Call("primary"), Emit("Unary")>>
        \/ c = <<Advance, Emit("Literals")>>
        \/ c = <<Error, Emit("Function")>>
    <3>1. CASE c = todo[1].default
      BY <2>1, <3>1
    <3>2. ASSUME NEW i \in DOMAIN todo[1].cases, c = todo[1].cases[i].code
          PROVE  \/ c = <<TailCall("array")>> \/ c = <<TailCall("parenthesis")>>
                 \/ c = <<TailCall("identifier")>>
                 \/ c = <<Advance, Call("primary"), Emit("AddrOf")>>
                 \/ c = <<Advance, Call("primary"), Emit("Unary")>>
                 \/ c = <<Advance, Emit("Literals")>>
                 \/ c = <<Error, Emit("Function")>>
      <4>1. i \in {1, 2, 3, 4, 5, 6, 7}
        BY <2>1, <3>2
      <4>2. /\ cases[1].code = <<TailCall("array")>>
            /\ cases[2].code = <<Advance, Call("primary"), Emit("AddrOf")>>
            /\ cases[3].code = <<Advance, Call("primary"), Emit("Unary")>>
            /\ cases[4].code = <<TailCall("parenthesis")>>
            /\ cases[5].code = <<Advance, Emit("Literals")>>
            /\ cases[6].code = <<TailCall("identifier")>>
            /\ cases[7].code = <<Error, Emit("Function")>>
        BY DEF When
      <4> HIDE DEF cases
      <4> QED
        BY <2>1, <3>2, <4>1, <4>2, Zenon
    <3> QED
      BY <2>2, <3>1, <3>2
  <2> HIDE DEF cases
  <2>4. /\ TailCall("array") \in Starting /\ TailCall("parenthesis") \in Starting
        /\ TailCall("identifier") \in Starting
    BY <1>2 DEF Leading
  <2>5. Len(c) > 0 /\ c[1] \in Starting \cup {Error}
    BY <1>2, <2>3, <2>4
  <2> QED
    BY <1>3, <2>2, <2>5, StillIs
<1>10. CASE \E f \in Leading : todo[1] = TailCall(f)
  <2>1. PICK f \in Leading : todo[1] = TailCall(f)
    BY <1>10
  <2>2. f \in Callees /\ Code[f] \in Seq(Item) /\ Len(Code[f]) > 0 /\ Code[f][1] = Advance
    BY LeadingIs
  <2>3. todo' # <<>> /\ todo'[1] = Advance
    BY <2>1, <2>2, TailFirst
  <2> QED
    BY <1>2, <2>3
<1> QED
  BY <1>4, <1>5, <1>6, <1>7, <1>8, <1>9, <1>10 DEF Starting

\* The statement that main is parsing goes on, or it ends: then its tokens are
\* covered.
LEMMA InnerStep ==
    ASSUME TypeInv, Looped(todo), Next, todo # <<>>, Silent', Len(todo) > 3, Underway,
           Covered(out, Base)
    PROVE  /\ Base' = Base
           /\ \/ Len(todo') > 3 /\ Underway'
              \/ Len(todo') = 3 /\ Covered(out', pos')
<1>1. Len(todo) \in Nat
  BY HeadIs
<1>2. Owed(todo') => Len(todo') > 3 /\ Underway'
  BY DEF Underway, Owed
<1>3. Annotating' => Underway'
  BY DEF Underway
<1>4. CASE Owed(todo) /\ Len(todo) > 4
  BY <1>2, <1>4, OwedStep
<1>5. CASE Owed(todo) /\ Len(todo) = 4
  BY <1>2, <1>5, PromiseStep
<1>6. CASE Fresh
  BY <1>2, <1>3, <1>6, FreshStep
<1>7. CASE Annotating
  <2>1. TagAt(Base) = "Ats" /\ (Heading \/ \E a \in Annotations : Noting(a))
    BY <1>7 DEF Annotating
  <2>2. CASE Heading
    BY <1>2, <1>3, <2>1, <2>2, HeadingStep
  <2>3. CASE \E a \in Annotations : Noting(a)
    BY <1>3, <2>1, <2>3, NotingStep
  <2> QED
    BY <2>1, <2>2, <2>3
<1>8. Len(todo) > 4 \/ Len(todo) = 4
  <2> DEFINE n == Len(todo)
  <2>1. n \in Nat /\ n > 3
    BY <1>1
  <2> HIDE DEF n
  <2>2. n > 4 \/ n = 4
    BY <2>1
  <2> QED
    BY <2>2 DEF n
<1> QED
  BY <1>4, <1>5, <1>6, <1>7, <1>8 DEF Underway

\* Main calls parser_stmt.
LEMMA CallStep ==
    ASSUME TypeInv, Next, todo # <<>>, Len(todo) = 3
    PROVE  /\ pos' = pos
           /\ \/ Len(todo') = 2
              \/ Len(todo') = 4 /\ Base' = pos /\ Fresh'
<1>1. todo \in Seq(Item) /\ 1 \in 1 .. Len(todo)
  BY HeadIs
<1>2. todo[1] = Call("stmt") \/ todo[1].op = "ret"
  <2>1. Shape(todo)
    BY DEF TypeInv, Running
  <2>2. Len(todo) - 2 = 1
    OBVIOUS
  <2> QED
    BY <2>1, <2>2 DEF Shape
<1>3. CASE todo[1].op = "ret"
  <2> DEFINE c == <<>>
  <2>1. Len(c) = 0 /\ c \in Seq(Item)
    OBVIOUS
  <2>2. Then(c)
    BY <1>3, ActionIs DEF ReturnFrom, At
  <2> HIDE DEF c
  <2>3. todo' = Splice(todo, 1, c)
    BY <1>1, <2>1, <2>2, ThenIs
  <2>4. Len(todo') = Len(c) + Len(todo) - 1
    BY <1>1, <2>1, <2>3, MovedIs, ZenonT(30)
  <2>5. Len(todo') = 2
    BY <2>1, <2>4
  <2>6. pos' = pos
    BY <1>3, PosIs
  <2> QED
    BY <2>5, <2>6
<1>4. CASE todo[1] = Call("stmt")
  <2> DEFINE s == Code["stmt"]
             r == [op |-> "ret", from |-> pos]
             c == Append(s, r)
  <2>1. todo[1].op = "call" /\ todo[1].to = "stmt"
    BY <1>4 DEF Call
  <2>2. Enter(s)
    BY <2>1, ActionIs DEF CallFunction, At
  <2>3. Then(c)
    BY <2>2 DEF Enter
  <2>4. r \in Item
    <3>1. pos \in Nat \ {0}
      BY FileIs DEF TypeInv
    <3> QED
      BY <3>1 DEF Item, Rets
  <2>5. r.from = pos
    OBVIOUS
  <2> HIDE DEF r
  <2>6. s \in Seq(Item) /\ Len(s) = 1 /\ s[1] = parser_stmt[1]
    <3>1. s \in Seq(Item) /\ s = parser_stmt
      BY CodeStill, NamesIn, StillIs, CodeIs
    <3>2. Len(parser_stmt) = 1
      BY DEF parser_stmt
    <3> HIDE DEF s
    <3> QED
      BY <3>1, <3>2
  <2> HIDE DEF s
  <2>7. c \in Seq(Item) /\ Len(c) = 2 /\ c[2] = r /\ c[1] = parser_stmt[1]
    <3>1. c \in Seq(Item) /\ Len(c) = Len(s) + 1 /\ c[Len(s) + 1] = r
          /\ \A k \in 1 .. Len(s) : c[k] = s[k]
      <4>1. s \in Seq(Item) /\ r \in Item
        BY <2>4, <2>6, Zenon
      <4> QED
        BY <4>1, AppendProperties, SMTT(30)
    <3> HIDE DEF c
    <3>2. 1 \in 1 .. Len(s) /\ Len(s) + 1 = 2
      BY <2>6
    <3> QED
      BY <2>6, <3>1, <3>2
  <2> HIDE DEF c
  <2>8. todo' = Splice(todo, 1, c)
    BY <1>1, <2>3, <2>7, ThenIs
  <2>9. Len(todo') = Len(c) + Len(todo) - 1 /\ \A k \in 1 .. Len(c) : todo'[k] = c[k]
    BY <1>1, <2>7, <2>8, MovedIs
  <2>10. Len(todo') = 4 /\ Len(todo') - 2 = 2
    BY <2>7, <2>9
  <2>11. todo'[1] = parser_stmt[1] /\ todo'[2] = r
    BY <2>7, <2>9
  <2>12. pos' = pos
    BY <2>1, PosIs
  <2>13. Base' = pos
    BY <2>5, <2>10, <2>11, Zenon DEF Base
  <2>14. Fresh'
    BY <2>10, <2>11, <2>12, <2>13 DEF Fresh
  <2> QED
    BY <2>10, <2>12, <2>13, <2>14
<1> QED
  BY <1>2, <1>3, <1>4

\* Main has a statement, and keeps its node.
LEMMA KeepStep ==
    ASSUME TypeInv, Next, todo # <<>>, Len(todo) = 2
    PROVE  pos' = pos /\ Len(todo') = 1
<1>1. todo \in Seq(Item) /\ 1 \in 1 .. Len(todo)
  BY HeadIs
<1>2. todo[1].op = "keep"
  BY ShapeIs DEF TypeInv
<1> DEFINE c == <<>>
<1>3. Len(c) = 0 /\ c \in Seq(Item)
  OBVIOUS
<1>4. Then(c)
  BY <1>2, ActionIs DEF BuildNode
<1> HIDE DEF c
<1>5. todo' = Splice(todo, 1, c)
  BY <1>1, <1>3, <1>4, ThenIs
<1>6. Len(todo') = Len(c) + Len(todo) - 1
  BY <1>1, <1>3, <1>5, MovedIs, ZenonT(30)
<1>7. pos' = pos
  BY <1>2, PosIs
<1> QED
  BY <1>3, <1>6, <1>7

\* Main tests its loop: it ends at the end of the file, and starts a statement
\* elsewhere.  An iteration ends behind where it started.
LEMMA MainStep ==
    ASSUME TypeInv, Next, todo # <<>>, Len(todo) = 1, Started
    PROVE  /\ pos' = pos
           /\ \/ todo' = <<>> /\ pos = LastPos
              \/ Len(todo') = 1 /\ todo'[1].op # "again"
              \/ /\ Len(todo') = 3 /\ todo'[1] = Call("stmt")
                 /\ todo'[3].from = pos /\ TagAt(pos) # "EOFs"
<1>1. todo \in Seq(Item) /\ 1 \in 1 .. Len(todo) /\ todo[1] \in Item
  BY HeadIs
<1>2. Bottom(todo[1]) /\ todo[1].op \in {"loop", "again"}
  BY ShapeIs DEF TypeInv
<1>3. CASE todo[1].op = "again"
  <2> DEFINE i == [todo[1] EXCEPT !.op = "loop", !.from = 0]
             c == <<i>>
  <2>1. /\ Then(c)
        /\ pos' = IF todo[1].guard /\ pos = todo[1].from THEN Following(pos) ELSE pos
    BY <1>3, ActionIs DEF EndIteration
  <2>2. todo[1].from < pos
    <3>1. todo[1].from < pos \/ todo[1] \in Starting
      BY <1>3 DEF Started
    <3>2. \A j \in Starting : j.op # "again"
      BY DEF Starting, Call, TailCall, Advance, Expr, parser_stmt, parser_expr_primary, Switch
    <3> QED
      BY <1>3, <3>1, <3>2
  <2>3. pos' = pos
    <3>1. pos \in Nat /\ todo[1].from \in Nat
      BY <1>1, <1>3, ItemOps DEF TypeInv, Agains, LoopsWith
    <3> QED
      BY <2>1, <2>2, <3>1
  <2>4. i \in Item /\ i.op = "loop"
    <3>1. todo[1] \in Agains
      BY <1>1, <1>3, ItemOps
    <3>2. i \in Loops /\ i.op = "loop"
      BY <3>1 DEF Loops, Agains, LoopsWith
    <3> HIDE DEF i
    <3> QED
      BY <3>2, LevelsUp DEF Basic, Item, Still, Text, Open
  <2> HIDE DEF i
  <2>5. c \in Seq(Item) /\ Len(c) = 1 /\ c[1] = i
    BY <2>4
  <2> HIDE DEF c
  <2>6. todo' = Splice(todo, 1, c)
    BY <1>1, <2>1, <2>5, ThenIs
  <2>7. Len(todo') = Len(c) + Len(todo) - 1 /\ \A k \in 1 .. Len(c) : todo'[k] = c[k]
    BY <1>1, <2>5, <2>6, MovedIs
  <2> QED
    BY <2>3, <2>4, <2>5, <2>7
<1>4. CASE todo[1].op = "loop"
  <2>1. todo[1].tags = {"EOFs"} /\ ~todo[1].when /\ todo[1].body = "body"
    BY <1>2 DEF Bottom
  <2>2. pos' = pos
    BY <1>4, PosIs
  <2> DEFINE mark == [todo[1] EXCEPT !.op = "again", !.from = pos]
             c == Append(Stmt, mark)
  <2>3. IF TagAt(pos) = "EOFs" THEN Then(<<>>) ELSE Then(c)
    <3>1. Then(IF (TagAt(pos) \in todo[1].tags) = todo[1].when
               THEN Append(Code[todo[1].body], mark) ELSE <<>>)
      BY <1>4, ActionIs DEF TestLoop
    <3>2. Code[todo[1].body] = Stmt
      BY <2>1, CodeIs, Zenon
    <3> HIDE DEF mark
    <3>3. todo[1].when = FALSE
      <4>1. todo[1] \in Loops
        BY <1>1, <1>4, ItemOps
      <4> QED
        BY <2>1, <4>1 DEF Loops, LoopsWith
    <3>4. CASE TagAt(pos) = "EOFs"
      <4>1. ~((TagAt(pos) \in todo[1].tags) = todo[1].when)
        BY <2>1, <3>3, <3>4
      <4> QED
        BY <3>1, <3>4, <4>1
    <3>5. CASE TagAt(pos) # "EOFs"
      <4>1. (TagAt(pos) \in todo[1].tags) = todo[1].when
        <5>1. TagAt(pos) \notin todo[1].tags
          BY <2>1, <3>5
        <5>2. (TagAt(pos) \in todo[1].tags) = FALSE
          BY <5>1
        <5> QED
          BY <3>3, <5>2, Zenon
      <4> QED
        BY <3>1, <3>2, <3>5, <4>1
    <3> QED
      BY <3>4, <3>5
  <2>4. CASE TagAt(pos) = "EOFs"
    <3> DEFINE d == <<>>
    <3>1. Len(d) = 0 /\ d \in Seq(Item)
      OBVIOUS
    <3>2. Then(d)
      BY <2>3, <2>4
    <3> HIDE DEF d
    <3>3. todo' = Splice(todo, 1, d)
      BY <1>1, <3>1, <3>2, ThenIs
    <3>4. todo' \in Seq(Item) /\ Len(todo') = Len(d) + Len(todo) - 1
      BY <1>1, <3>1, <3>3, MovedIs
    <3>5. todo' = <<>>
      BY <3>1, <3>4, EmptySeq
    <3>6. pos = LastPos
      BY <2>4, FileIs DEF TypeInv
    <3> QED
      BY <2>2, <3>5, <3>6
  <2>5. CASE TagAt(pos) # "EOFs"
    <3>1. mark \in Item /\ mark.from = pos
      <4>1. todo[1] \in Loops
        BY <1>1, <1>4, ItemOps
      <4>3. pos \in Nat \ {0}
        BY FileIs DEF TypeInv
      <4>2. mark \in Agains /\ mark.from = pos
        BY <4>1, <4>3 DEF Loops, Agains, LoopsWith
      <4> HIDE DEF mark
      <4> QED
        BY <4>2 DEF Item
    <3> HIDE DEF mark
    <3>2. Stmt \in Seq(Item) /\ Len(Stmt) = 2 /\ Stmt[1] = Call("stmt")
      <4>1. Code["body"] \in Seq(Item) /\ Code["body"] = Stmt
        BY CodeStill, NamesIn, StillIs, CodeIs
      <4>2. Len(Stmt) = 2 /\ Stmt[1] = Call("stmt")
        BY DEF Stmt
      <4> QED
        BY <4>1, <4>2
    <3>3. c \in Seq(Item) /\ Len(c) = 3 /\ c[3] = mark /\ c[1] = Call("stmt")
      <4> DEFINE s == Stmt
      <4>1. s \in Seq(Item) /\ Len(s) = 2 /\ s[1] = Call("stmt")
        BY <3>2
      <4> HIDE DEF s
      <4>2. /\ Append(s, mark) \in Seq(Item) /\ Len(Append(s, mark)) = Len(s) + 1
            /\ Append(s, mark)[Len(s) + 1] = mark
            /\ \A k \in 1 .. Len(s) : Append(s, mark)[k] = s[k]
        <5>1. s \in Seq(Item) /\ mark \in Item
          BY <3>1, <4>1, Zenon
        <5> QED
          BY <5>1, AppendProperties
      <4>3. 1 \in 1 .. Len(s) /\ Len(s) + 1 = 3
        BY <4>1
      <4>4. /\ Append(s, mark) \in Seq(Item) /\ Len(Append(s, mark)) = 3
            /\ Append(s, mark)[3] = mark /\ Append(s, mark)[1] = Call("stmt")
        BY <4>1, <4>2, <4>3, Zenon
      <4> QED
        BY <4>4 DEF s
    <3>4. Then(c)
      BY <2>3, <2>5
    <3> HIDE DEF c
    <3>5. todo' = Splice(todo, 1, c)
      BY <1>1, <3>3, <3>4, ThenIs
    <3>6. Len(todo') = Len(c) + Len(todo) - 1 /\ \A k \in 1 .. Len(c) : todo'[k] = c[k]
      BY <1>1, <3>3, <3>5, MovedIs
    <3>7. Len(todo') = 3 /\ todo'[1] = Call("stmt") /\ todo'[3] = mark
      BY <3>3, <3>6
    <3> QED
      BY <2>2, <2>5, <3>1, <3>7
  <2> QED
    BY <2>4, <2>5
<1> QED
  BY <1>2, <1>3, <1>4

\* A step that leaves main in an iteration from e.
LEMMA StartedAt ==
    ASSUME Next, NEW e, TagAt(e) # "EOFs", todo'[Len(todo')].from = e,
           e < pos' \/ todo'[1] \in Starting
    PROVE  Started'
<1>1. src' = src
  BY OutIs
<1>2. TagAt(e)' = TagAt(e)
  BY <1>1 DEF TagAt, TokenAt
<1>3. TagAt(todo[Len(todo)].from)' = TagAt(e)'
  BY DEF TagAt, TokenAt
<1> QED
  BY <1>2, <1>3, Zenon DEF Started

\* The loop of main consumes a token in every iteration.
LEMMA StartedStep ==
    ASSUME TypeInv, Looped(todo), Next, todo # <<>>, Silent', Started
    PROVE  Started'
<1>1. todo \in Seq(Item) /\ Len(todo) \in Nat \ {0} /\ 1 \in 1 .. Len(todo)
  BY HeadIs
<1>2. src' = src /\ pos \in Nat /\ pos' \in Nat /\ pos' >= pos /\ pos <= LastPos
  <2>1. pos \in 1 .. LastPos /\ LastPos \in Nat
    BY FileIs DEF TypeInv
  <2> QED
    BY <2>1, OutIs, PosIs
<1>3. CASE Len(todo) > 1
  <2> DEFINE n == Len(todo)
             i == todo[n]
  <2>1. n \in Nat /\ n > 1 /\ n \in 1 .. Len(todo)
    BY <1>1, <1>3
  <2>2. i.op = "again"
    <3>1. Running(todo, pos) /\ Len(todo) > 1
      BY <1>3 DEF TypeInv
    <3> QED
      BY <3>1, ShapeIs, Zenon
  <2>3. i \in Agains
    BY <1>1, <2>1, <2>2, ElementOfSeq, ItemOps
  <2>4. i.from \in Nat /\ i.from <= pos
    <3>1. i.from \in Nat
      BY <2>3 DEF Agains, LoopsWith
    <3>2. i.from <= pos
      BY <2>1, <2>2 DEF TypeInv, Running, Timely
    <3> QED
      BY <3>1, <3>2
  <2>5. TagAt(i.from) # "EOFs" /\ (i.from < pos \/ todo[1] \in Starting)
    BY <2>1, <2>2 DEF Started
  <2>6. Len(todo') \in Nat /\ Len(todo') > 0 /\ todo'[Len(todo')] = i
    <3>1. PICK m \in 1 .. Len(todo), c \in Seq(Item) :
              /\ todo' = Splice(todo, m, c)
              /\ \A r \in 1 .. Len(todo) : todo[r].op = "ret" => m <= r /\ (m = r => c = <<>>)
              /\ Len(todo) > 1 => m < Len(todo)
      BY StepWithin
    <3>2. m < Len(todo) /\ m \in Nat
      BY <1>3, <3>1
    <3>3. /\ Len(c) \in Nat /\ Len(todo') \in Nat /\ Len(todo') = Len(c) + Len(todo) - m
          /\ \A k \in Len(c) + 1 .. Len(todo') :
                todo'[k] = todo[k - Len(c) + m] /\ k - Len(c) + m \in m + 1 .. Len(todo)
      BY <1>1, <3>1, MovedIs
    <3> DEFINE k == Len(todo')
    <3>4. k \in Len(c) + 1 .. Len(todo') /\ k - Len(c) + m = n /\ k > 0
      BY <2>1, <3>2, <3>3
    <3> HIDE DEF n, k
    <3>5. todo'[k] = todo[n]
      BY <3>3, <3>4
    <3> QED
      BY <3>3, <3>4, <3>5 DEF k, n
  <2> HIDE DEF i, n
  <2>8. i.from < pos' \/ todo'[1] \in Starting
    <3>1. CASE i.from < pos
      BY <1>2, <2>4, <3>1
    <3>2. CASE ~(i.from < pos)
      <4>1. i.from = pos
        BY <1>2, <2>4, <3>2
      <4>2. TagAt(pos) # "EOFs" /\ todo[1] \in Starting
        BY <2>5, <3>2, <4>1, Zenon
      <4>3. pos' = pos + 1 \/ todo'[1] \in Starting
        BY <4>2, StartHead
      <4> QED
        BY <1>2, <4>1, <4>3
    <3> QED
      BY <3>1, <3>2
  <2> QED
    BY <2>5, <2>6, <2>8, StartedAt
<1>4. CASE Len(todo) = 1
  <2>1. /\ pos' = pos
        /\ \/ todo' = <<>> /\ pos = LastPos
           \/ Len(todo') = 1 /\ todo'[1].op # "again"
           \/ /\ Len(todo') = 3 /\ todo'[1] = Call("stmt")
              /\ todo'[3].from = pos /\ TagAt(pos) # "EOFs"
    BY <1>4, MainStep
  <2>2. CASE todo' = <<>>
    BY <2>2 DEF Started
  <2>3. CASE Len(todo') = 1 /\ todo'[1].op # "again"
    BY <2>3 DEF Started
  <2>4. CASE Len(todo') = 3 /\ todo'[1] = Call("stmt") /\ todo'[3].from = pos /\ TagAt(pos) # "EOFs"
    <3>1. todo'[1] \in Starting
      BY <2>4 DEF Starting
    <3>2. todo'[Len(todo')].from = pos
      BY <2>4
    <3> QED
      BY <2>4, <3>1, <3>2, StartedAt
  <2> QED
    BY <2>1, <2>2, <2>3, <2>4
<1>5. Len(todo) > 1 \/ Len(todo) = 1
  BY <1>1, OneOrMore
<1> QED
  BY <1>3, <1>4, <1>5

\* What covers after the step covers then.
LEMMA CoveredNow ==
    ASSUME Next, NEW p, Covered(out', p), Seen' = p
    PROVE  Covered(out, Seen)'
<1>1. src' = src
  BY OutIs
<1>2. \A q \in 1 .. p - 1 :
         \/ \E i \in 1 .. Len(out') :
               out'[i].tag # "Invalid" /\ q \in out'[i].from .. out'[i].to
         \/ Annotated(q)
  BY DEF Covered
<1>3. ASSUME NEW q \in 1 .. p - 1, Annotated(q) PROVE Annotated(q)'
  BY <1>1, <1>3 DEF Annotated, TagAt, TokenAt
<1>4. \A q \in 1 .. p - 1 :
         \/ \E i \in 1 .. Len(out') :
               out'[i].tag # "Invalid" /\ q \in out'[i].from .. out'[i].to
         \/ Annotated(q)'
  BY <1>2, <1>3
<1> QED
  BY <1>4, Zenon DEF Covered

\* Main does its next step.
LEMMA SkipStep ==
    ASSUME TypeInv, SkipInv, Next
    PROVE  SkipInv'
<1>1. CASE todo = <<>>
  <2>1. UNCHANGED vars
    BY <1>1 DEF Next, At, AdvanceToken, parse_error, parser_sync, Choose, TestLoop, EndIteration,
                CallFunction, parser_expr_bp, ReturnFrom, BuildNode, Done
  <2> QED
    BY <2>1 DEF vars, SkipInv, Looped, InLoop, Silent, At, Started, Underway, Owed, Sheltered, Fresh,
                Annotating, Heading, Noting, Covered, Annotated, Seen, Base, TagAt, TokenAt, LastPos
<1>2. CASE todo # <<>>
  <2>1. Looped(todo')
    BY <1>2, LoopedStep DEF SkipInv
  <2>2. ASSUME Silent'
        PROVE  /\ (todo = <<>> => pos = LastPos)'
               /\ Started' /\ (Len(todo) > 3 => Underway)' /\ Covered(out, Seen)'
    <3>1. /\ Looped(todo) /\ Started /\ (Len(todo) > 3 => Underway)
          /\ Covered(out, Seen)
      BY <2>2, SilentStep DEF SkipInv
    <3>2. Started'
      BY <1>2, <2>2, <3>1, StartedStep
    <3>3. src' = src /\ pos \in Nat /\ Len(todo) \in Nat \ {0}
      BY <1>2, HeadIs, OutIs, PosIs
    <3>4. CASE Len(todo) > 3
      <4>1. Underway /\ Covered(out, Base)
        BY <3>1, <3>4 DEF Seen
      <4>2. /\ Base' = Base
            /\ \/ Len(todo') > 3 /\ Underway'
               \/ Len(todo') = 3 /\ Covered(out', pos')
        BY <1>2, <2>2, <3>1, <3>4, <4>1, InnerStep
      <4>3. CASE Len(todo') > 3 /\ Underway'
        <5>1. Covered(out', Base)
          <6>1. Base \in Nat
            BY <1>2, <3>4, BaseIs
          <6> QED
            BY <4>1, <6>1, CoveredStep
        <5>2. Seen' = Base
          BY <4>2, <4>3 DEF Seen
        <5>3. Covered(out, Seen)'
          BY <5>1, <5>2, CoveredNow
        <5> QED
          BY <3>2, <4>3, <5>3
      <4>4. CASE Len(todo') = 3 /\ Covered(out', pos')
        <5>1. Seen' = pos'
          BY <4>4 DEF Seen
        <5>2. Covered(out, Seen)'
          BY <4>4, <5>1, CoveredNow
        <5> QED
          BY <3>2, <4>4, <5>2
      <4> QED
        BY <4>2, <4>3, <4>4
    <3>5. CASE Len(todo) <= 3
      <4>1. Covered(out', pos)
        <5>1. Covered(out, pos)
          BY <3>1, <3>5 DEF Seen
        <5> QED
          BY <3>3, <5>1, CoveredStep
      <4>2. CASE pos' = pos /\ todo' = <<>> /\ pos = LastPos
        <5>1. Seen' = pos /\ (todo = <<>> => pos = LastPos)'
          BY <3>3, <4>2 DEF Seen, LastPos
        <5>2. Covered(out, Seen)'
          BY <4>1, <5>1, CoveredNow
        <5> QED
          BY <3>2, <4>2, <5>1, <5>2
      <4>3. CASE pos' = pos /\ Len(todo') \in {1, 2, 3}
        <5>3. ~(Len(todo') > 3) /\ todo' # <<>>
          <6> DEFINE n == Len(todo')
          <6>1. n \in {1, 2, 3} /\ (todo' = <<>> => n = 0)
            BY <4>3
          <6> HIDE DEF n
          <6>2. ~(n > 3) /\ todo' # <<>>
            BY <6>1
          <6> QED
            BY <6>2 DEF n
        <5>1. Seen' = pos
          BY <4>3, <5>3 DEF Seen
        <5>2. Covered(out, Seen)'
          BY <4>1, <5>1, CoveredNow
        <5> QED
          BY <3>2, <5>2, <5>3
      <4>4. CASE Len(todo') = 4 /\ Base' = pos /\ Fresh'
        <5>1. Seen' = pos
          BY <4>4 DEF Seen
        <5>2. Covered(out, Seen)'
          BY <4>1, <5>1, CoveredNow
        <5> QED
          BY <3>2, <4>4, <5>2 DEF Underway
      <4>5. Len(todo) = 1 \/ Len(todo) = 2 \/ Len(todo) = 3
        <5> DEFINE n == Len(todo)
        <5>1. n \in Nat \ {0} /\ n <= 3
          BY <3>3, <3>5
        <5> HIDE DEF n
        <5>2. n = 1 \/ n = 2 \/ n = 3
          BY <5>1
        <5> QED
          BY <5>2 DEF n
      <4> QED
        BY <1>2, <3>1, <4>2, <4>3, <4>4, <4>5, CallStep, KeepStep, MainStep
    <3> QED
      BY <3>3, <3>4, <3>5
  <2> QED
    BY <2>1, <2>2 DEF SkipInv, Looped, InLoop
<1> QED
  BY <1>1, <1>2

\* Whatever the file: of a file that parses without an error every token is in a
\* node, or in an annotation.
THEOREM NothingUnreported == Spec => []NothingSkipped
<1>1. Init => SkipInv
  <2> SUFFICES ASSUME Init PROVE SkipInv
    OBVIOUS
  <2> DEFINE main == Guarded({}, "body")
  <2>1. main \in Steady /\ main.op # "again"
    <3>1. main \in Loops /\ main.op = "loop"
      BY LoopsAre, NamesIn DEF Guarded, Until, Loop
    <3> HIDE DEF main
    <3> QED
      BY <3>1, LevelsUp DEF Steady, Basic
  <2> HIDE DEF main
  <2>2. Len(todo) = 1 /\ todo[1] = main /\ todo # <<>> /\ pos = 1
    BY DEF Init, main
  <2>3. \A k \in 1 .. Len(todo) : k = 1
    BY <2>2
  <2>4. Looped(todo)
    BY <2>1, <2>2, <2>3 DEF Looped
  <2>5. Started
    BY <2>1, <2>2 DEF Started
  <2>6. Seen = 1 /\ ~(Len(todo) > 3)
    BY <2>2 DEF Seen
  <2>7. Covered(out, Seen)
    BY <2>6 DEF Covered
  <2> QED
    BY <2>2, <2>4, <2>5, <2>6, <2>7 DEF SkipInv
<1>2. TypeInv /\ SkipInv => NothingSkipped
  <2> SUFFICES ASSUME TypeInv, SkipInv, todo = <<>>, errs = {} PROVE NothingSkipped
    BY DEF NothingSkipped, Ended
  <2>1. pos = LastPos /\ Covered(out, Seen)
    BY DEF SkipInv, Silent, At
  <2>2. Seen = LastPos
    BY <2>1 DEF Seen
  <2>3. DOMAIN out = 1 .. Len(out) /\ DOMAIN src.toks = 1 .. LastPos - 1
    BY FileIs, LenProperties DEF TypeInv, Placed
  <2>4. \A p \in 1 .. LastPos - 1 :
           (\E i \in 1 .. Len(out) : p \in out[i].from .. out[i].to) \/ Annotated(p)
    BY <2>1, <2>2, Zenon DEF Covered
  <2> QED
    BY <2>3, <2>4, Zenon DEF NothingSkipped
<1>3. TypeInv /\ SkipInv /\ [Next]_vars => SkipInv'
  <2> SUFFICES ASSUME TypeInv, SkipInv, [Next]_vars PROVE SkipInv'
    OBVIOUS
  <2>1. CASE Next
    BY <2>1, SkipStep
  <2>2. CASE UNCHANGED vars
    BY <2>2 DEF vars, SkipInv, Looped, InLoop, Silent, At, Started, Underway, Owed, Sheltered, Fresh,
                Annotating, Heading, Noting, Covered, Annotated, Seen, Base, TagAt, TokenAt, LastPos
  <2> QED
    BY <2>1, <2>2
<1> QED
  BY <1>1, <1>2, <1>3, Init1, TypeStep, PTL DEF Spec
=============================================================================
