--------------------------- MODULE TemplateParser ----------------------------
(***************************************************************************)
(* The lexer and the two recursive-descent parsers of the template engine  *)
(* of the server module (rust/server/src/template.rs): a source is a       *)
(* sequence of symbols, where a delimiter or a word is one symbol, and a   *)
(* template is a sequence of nodes.  Nothing a template says is an error:  *)
(* an unknown keyword is dropped, an unclosed body runs to the end, and a  *)
(* missing operand is null.                                                *)
(***************************************************************************)
EXTENDS TemplateSyntax, Sequences, SequencesExt, Naturals

CONSTANTS Words,     \* the names a template uses
          Literals,  \* its numbers and quoted texts
          Paths,     \* the names of other templates, quoted
          Operators, \* the binary operators the templates use
          Unread     \* a template that has not been parsed

\* What the constants are.
ParserAssumption ==
    /\ (Words \cup Literals) \cap Paths = {}
    /\ Operators \subseteq {"or", "and", "==", "<", "in", "+", "-", "~", "*", "/", "%"}

VARIABLES
    template,   \* the nodes the author has in mind
    parsed      \* the nodes the engine makes of their text

vars == <<template, parsed>>

-----------------------------------------------------------------------------
\* The expression parser.  Each function answers with the expression it read
\* and with the position behind it.
Found(expr, next) == [expr |-> expr, next |-> next]
At(ts, p) == IF p <= Len(ts) THEN ts[p] ELSE ""

\* The binary operators by their level, from `or` inwards; `not` stands between
\* `and` and the comparisons, and "//" divides like "/".
OrOperators == {"or"}
AndOperators == {"and"}
Comparisons == {"==", "!=", "<", "<=", ">", ">=", "in"}
Additives == {"+", "-", "~"}
Multiplicatives == {"*", "/", "//", "%"}
Binary == <<OrOperators, AndOperators, {}, Comparisons, Additives, Multiplicatives>>
BinaryOf(operator) == IF operator = "//" THEN "/" ELSE operator

Constants == {"true", "false", "none"}
IsName(word) ==
    word \in Words \cup Constants \cup {"not", "and", "or", "in", "safe"}

RECURSIVE ParseLevel(_, _, _), ParseLeft(_, _, _), ParseFilters(_, _),
          ParseArguments(_, _), ParsePrimary(_, _), ParsePath(_, _, _)

\* One level of the grammar: 1 or, 2 and, 3 not, 4 comparison, 5 additive,
\* 6 multiplicative, 7 unary minus; beyond them a primary with its filters.
ParseLevel(ts, p, level) ==
    CASE level = 3 /\ At(ts, p) = "not" ->
           LET operand == ParseLevel(ts, p + 1, 3)
           IN  Found(Expr("not", <<>>, <<operand.expr>>), operand.next)
      [] level = 7 /\ At(ts, p) = "-" ->
           LET operand == ParseLevel(ts, p + 1, 7)
           IN  Found(Expr("negate", <<>>, <<operand.expr>>), operand.next)
      [] level = 7 /\ At(ts, p) # "-" -> ParseFilters(ts, ParsePrimary(ts, p))
      [] level = 3 /\ At(ts, p) # "not" -> ParseLevel(ts, p, 4)
      [] OTHER -> ParseLeft(ts, level, ParseLevel(ts, p, level + 1))

\* A mistake: operands of one level associate to the right.
ParseLeft_right(ts, level, left) ==
    IF At(ts, left.next) \notin Binary[level] THEN left
    ELSE LET right == ParseLevel(ts, left.next + 1, level)
             both == <<left.expr, right.expr>>
         IN  ParseLeft(ts, level,
                       Found(Expr(BinaryOf(At(ts, left.next)), <<>>, both), right.next))

\* Operands of one level associate to the left.
ParseLeft(ts, level, left) ==
    IF At(ts, left.next) \notin Binary[level] THEN left
    ELSE LET right == ParseLevel(ts, left.next + 1, level + 1)
             both == <<left.expr, right.expr>>
         IN  ParseLeft(ts, level,
                       Found(Expr(BinaryOf(At(ts, left.next)), <<>>, both), right.next))

\* `base | name(arguments) | ...`
ParseFilters(ts, base) ==
    IF At(ts, base.next) # "|" THEN base
    ELSE IF ~IsName(At(ts, base.next + 1)) THEN Found(base.expr, base.next + 1)
    ELSE LET arguments == ParseArguments(ts, base.next + 2)
         IN  ParseFilters(ts, Found(Expr("filter", <<ts[base.next + 1]>>,
                                         <<base.expr>> \o arguments.exprs),
                                    arguments.next))

\* The arguments behind an opening parenthesis, or none.
ParseArguments(ts, p) ==
    LET RECURSIVE More(_)
        More(q) ==
            IF At(ts, q) = ")" THEN [exprs |-> <<>>, next |-> q + 1]
            ELSE LET first == ParseLevel(ts, q, 1)
                     rest == More(first.next + 1)
                 IN  CASE At(ts, first.next) = "," ->
                            [exprs |-> <<first.expr>> \o rest.exprs, next |-> rest.next]
                       [] At(ts, first.next) = ")" ->
                            [exprs |-> <<first.expr>>, next |-> first.next + 1]
                       [] OTHER -> [exprs |-> <<first.expr>>, next |-> first.next]
    IN  IF At(ts, p) = "(" THEN More(p + 1) ELSE [exprs |-> <<>>, next |-> p]

\* A literal, a group, a call or a path; anything else is null and stays.
ParsePrimary(ts, p) ==
    LET word == At(ts, p) IN
    CASE word \in Literals \cup Constants -> Found(Expr("literal", <<word>>, <<>>), p + 1)
      [] word = "(" ->
           LET inner == ParseLevel(ts, p + 1, 1)
           IN  Found(inner.expr,
                     IF At(ts, inner.next) = ")" THEN inner.next + 1 ELSE inner.next)
      [] IsName(word) /\ word \notin Constants /\ At(ts, p + 1) = "(" ->
           LET arguments == ParseArguments(ts, p + 1)
           IN  Found(Expr("call", <<word>>, arguments.exprs), arguments.next)
      [] IsName(word) /\ word \notin Constants /\ At(ts, p + 1) # "(" ->
           ParsePath(ts, p + 1, <<word>>)
      [] OTHER -> Found(Null, p)

ParsePath(ts, p, path) ==
    IF At(ts, p) # "." THEN Found(Expr("path", path, <<>>), p)
    ELSE IF IsName(At(ts, p + 1)) THEN ParsePath(ts, p + 2, Append(path, ts[p + 1]))
    ELSE Found(Expr("path", path, <<>>), p + 1)

ParseExpression(ts) == ParseLevel(ts, 1, 1).expr

-----------------------------------------------------------------------------
\* The lexer: texts, outputs and blocks, without the comments.  From a delimiter
\* that is never closed on, the source is text.
Token(kind, words) == [kind |-> kind, words |-> words]
Closer == [opener \in {"{{", "{%", "{#"} |->
             CASE opener = "{{" -> "}}" [] opener = "{%" -> "%}" [] OTHER -> "#}"]
KindOf(opener) == IF opener = "{{" THEN "output" ELSE "block"

RECURSIVE Tokenize(_)
Tokenize(symbols) ==
    LET opens == {i \in DOMAIN symbols : symbols[i] \in DOMAIN Closer}
        i == CHOOSE j \in opens : \A k \in opens : j <= k
        ends == {j \in i .. Len(symbols) : symbols[j] = Closer[symbols[i]]}
        end == CHOOSE j \in ends : \A k \in ends : j <= k
        text(words) == IF words = <<>> THEN <<>> ELSE <<Token("text", words)>>
    IN  IF opens = {} \/ ends = {} THEN text(symbols)
        ELSE text(SubSeq(symbols, 1, i - 1))
             \o (IF symbols[i] = "{#" THEN <<>>
                 ELSE <<Token(KindOf(symbols[i]), SubSeq(symbols, i + 1, end - 1))>>)
             \o Tokenize(SubSeq(symbols, end + 1, Len(symbols)))

\* The keyword of a block, and what follows it.
Keyword(ts, p) ==
    IF p <= Len(ts) /\ ts[p].kind = "block" /\ ts[p].words # <<>> THEN ts[p].words[1] ELSE ""
Rest(ts, p) == Tail(ts[p].words)

\* The keyword that ends a body is taken only when it is the right one.
Close(ts, p, keyword) == IF Keyword(ts, p) = keyword THEN p + 1 ELSE p

RECURSIVE ParseNodes(_, _, _), ParseIf(_, _, _)

\* An output whose last filter is `safe` is not escaped; the filter applies to
\* the whole expression.
OutputNode(words) ==
    LET n == Len(words)
        safe == n > 1 /\ words[n] = "safe" /\ words[n - 1] = "|"
    IN  Node("output", IF safe THEN <<"safe">> ELSE <<>>,
             <<ParseExpression(IF safe THEN SubSeq(words, 1, n - 2) ELSE words)>>, <<>>)

\* if, elif, else, endif; behind an else only endif ends the body.
ParseIf(ts, p, condition) ==
    LET body == ParseNodes(ts, p, {"elif", "else", "endif"})
        elif == ParseIf(ts, body.next + 1, ParseExpression(Rest(ts, body.next)))
        else == ParseNodes(ts, body.next + 1, {"endif"})
    IN  CASE Keyword(ts, body.next) = "elif" ->
               [exprs |-> <<condition>> \o elif.exprs,
                bodies |-> <<body.nodes>> \o elif.bodies, next |-> elif.next]
          [] Keyword(ts, body.next) = "else" ->
               [exprs |-> <<condition>>, bodies |-> <<body.nodes, else.nodes>>,
                next |-> Close(ts, else.next, "endif")]
          [] OTHER -> [exprs |-> <<condition>>, bodies |-> <<body.nodes>>,
                       next |-> Close(ts, body.next, "endif")]

\* `for name in expression`; without an `in` there is nothing to iterate over.
ForNode(header, body) ==
    Node("for", <<At(header, 1)>>,
         <<IF At(header, 2) = "in" THEN ParseExpression(SubSeq(header, 3, Len(header)))
           ELSE Null>>, <<body>>)

\* `macro name(parameters)`
MacroNames(header) == SelectSeq(header, LAMBDA word : word \notin {"(", ")", ","})

\* The node at p, if it makes one, and the position behind it.
ParseNode(ts, p) ==
    LET word == Keyword(ts, p)
        rest == Rest(ts, p)
        body == ParseNodes(ts, p + 1, {"end" \o word})
        after == Close(ts, body.next, "end" \o word)
        branches == ParseIf(ts, p + 1, ParseExpression(rest))
        made(nodes, next) == [nodes |-> nodes, next |-> next]
    IN  CASE ts[p].kind = "text" -> made(<<Node("text", ts[p].words, <<>>, <<>>)>>, p + 1)
          [] ts[p].kind = "output" -> made(<<OutputNode(ts[p].words)>>, p + 1)
          [] word = "if" ->
               made(<<Node("if", <<>>, branches.exprs, branches.bodies)>>, branches.next)
          [] word = "for" -> made(<<ForNode(rest, body.nodes)>>, after)
          [] word = "block" -> made(<<Node("block", rest, <<>>, <<body.nodes>>)>>, after)
          [] word = "macro" ->
               made(<<Node("macro", MacroNames(rest), <<>>, <<body.nodes>>)>>, after)
          [] word = "set" /\ At(rest, 2) = "=" ->
               made(<<Node("set", <<rest[1]>>,
                           <<ParseExpression(SubSeq(rest, 3, Len(rest)))>>, <<>>)>>, p + 1)
          [] word \in {"include", "extends"} /\ At(rest, 1) \in Paths ->
               made(<<Node(word, <<rest[1]>>, <<>>, <<>>)>>, p + 1)
          [] OTHER -> made(<<>>, p + 1)

ParseNodes(ts, p, stops) ==
    IF p > Len(ts) \/ Keyword(ts, p) \in stops THEN [nodes |-> <<>>, next |-> p]
    ELSE LET first == ParseNode(ts, p)
             others == ParseNodes(ts, first.next, stops)
         IN  [nodes |-> first.nodes \o others.nodes, next |-> others.next]

Parse(symbols) == ParseNodes(Tokenize(symbols), 1, {}).nodes

-----------------------------------------------------------------------------
\* How an author writes a template: an operand is parenthesised only where its
\* operator binds less than the place it stands in.
LevelOf(e) ==
    CASE \E level \in DOMAIN Binary : e.op \in Binary[level] ->
           CHOOSE level \in DOMAIN Binary : e.op \in Binary[level]
      [] e.op = "not" -> 3
      [] e.op = "negate" -> 7
      [] OTHER -> 8

RECURSIVE WriteExpr(_, _), WriteAll(_), WriteNodes(_)
WriteExpr(e, level) ==
    LET bare ==
            CASE LevelOf(e) \in DOMAIN Binary \ {3} ->
                   WriteExpr(e.args[1], LevelOf(e)) \o <<e.op>>
                   \o WriteExpr(e.args[2], LevelOf(e) + 1)
              [] e.op = "not" -> <<"not">> \o WriteExpr(e.args[1], 3)
              [] e.op = "negate" -> <<"-">> \o WriteExpr(e.args[1], 7)
              [] e.op = "filter" ->
                   WriteExpr(e.args[1], 8) \o <<"|", e.names[1]>>
                   \o (IF Len(e.args) = 1 THEN <<>> ELSE WriteAll(Tail(e.args)))
              [] e.op = "call" -> <<e.names[1]>> \o WriteAll(e.args)
              [] e.op = "path" -> Tail(FlattenSeq([i \in DOMAIN e.names |-> <<".", e.names[i]>>]))
              [] OTHER -> e.names
    IN  IF LevelOf(e) < level THEN <<"(">> \o bare \o <<")">> ELSE bare
WriteAll(args) ==
    <<"(">> \o (IF args = <<>> THEN <<>>
                ELSE Tail(FlattenSeq([i \in DOMAIN args |-> <<",">> \o WriteExpr(args[i], 1)])))
    \o <<")">>

Block(words) == <<"{%">> \o words \o <<"%}">>

\* A comment keeps a text apart from the text behind it.
WriteNode(n) ==
    LET condition(i) == WriteExpr(n.exprs[i], 1) IN
    CASE n.node = "text" -> n.names \o <<"{#", "#}">>
      [] n.node = "output" ->
           <<"{{">> \o condition(1) \o (IF n.names = <<>> THEN <<>> ELSE <<"|", "safe">>)
           \o <<"}}">>
      [] n.node = "if" ->
           FlattenSeq([i \in DOMAIN n.bodies |->
               (IF i > Len(n.exprs) THEN Block(<<"else">>)
                ELSE Block(<<IF i = 1 THEN "if" ELSE "elif">> \o condition(i)))
               \o WriteNodes(n.bodies[i])]) \o Block(<<"endif">>)
      [] n.node = "for" ->
           Block(<<"for", n.names[1], "in">> \o condition(1)) \o WriteNodes(n.bodies[1])
           \o Block(<<"endfor">>)
      [] n.node = "set" -> Block(<<"set", n.names[1], "=">> \o condition(1))
      [] n.node = "macro" ->
           Block(<<"macro", n.names[1], "(">> \o Tail(n.names) \o <<")">>)
           \o WriteNodes(n.bodies[1]) \o Block(<<"endmacro">>)
      [] n.node = "block" ->
           Block(<<"block">> \o n.names) \o WriteNodes(n.bodies[1]) \o Block(<<"endblock">>)
      [] OTHER -> Block(<<n.node>> \o n.names)
WriteNodes(nodes) == FlattenSeq([i \in DOMAIN nodes |-> WriteNode(nodes[i])])

-----------------------------------------------------------------------------
\* The bound: expressions of two levels, bodies of two nodes, one of them nested.
Simple == {Expr("path", <<w>>, <<>>) : w \in Words}
          \cup {Expr("path", <<w, w>>, <<>>) : w \in Words}
          \cup {Expr("literal", <<l>>, <<>>) : l \in Literals}
Over(left, right) ==
    {Expr(op, <<>>, <<a, b>>) : op \in Operators, a \in left, b \in right}
    \cup {Expr(op, <<>>, <<a>>) : op \in {"not", "negate"}, a \in left}
    \cup {Expr(op, <<w>>, <<a, b>>) : op \in {"filter", "call"}, w \in Words, a \in left, b \in right}
    \cup {Expr("filter", <<w>>, <<a>>) : w \in Words, a \in left}
Nested == Over(Simple, Simple)
Expressions == Simple \cup Nested \cup Over(Nested, Simple) \cup Over(Simple, Nested)

Leaves(e) ==
    {Node("text", <<"t">>, <<>>, <<>>)}
    \cup {Node("output", names, <<e>>, <<>>) : names \in {<<>>, <<"safe">>}}
    \cup {Node("set", <<w>>, <<e>>, <<>>) : w \in Words}
    \cup {Node(kind, <<path>>, <<>>, <<>>) : kind \in {"include", "extends"}, path \in Paths}
Around(bodies, others, e) ==
    {Node("if", <<>>, <<e>>, <<b>>) : b \in bodies}
    \cup {Node("if", <<>>, <<e>>, <<b, c>>) : b \in bodies, c \in others}
    \cup {Node("if", <<>>, <<e, e>>, <<c, b, <<>>>>) : b \in bodies, c \in others}
    \cup {Node("for", <<w>>, <<e>>, <<b>>) : w \in Words, b \in bodies}
    \cup {Node(kind, <<w>>, <<>>, <<b>>) : kind \in {"block", "macro"}, w \in Words, b \in bodies}
    \cup {Node("macro", <<w, w>>, <<>>, <<b>>) : w \in Words, b \in bodies}
Bodies(nodes) == {<<>>} \cup {<<n>> : n \in nodes}
Texts == Bodies({Node("text", <<"t">>, <<>>, <<>>)})
Inner == Around(Bodies(Leaves(Null)), Texts, Null)
Sources ==
    {<<Node("output", <<>>, <<e>>, <<>>)>> : e \in Expressions}
    \cup {<<a, b>> : a \in Leaves(Null), b \in Leaves(Null)}
    \cup {<<a, Node("text", <<"t">>, <<>>, <<>>)>> : a \in Around(Bodies(Inner), Texts, Null)}

Init ==
    /\ template \in Sources
    /\ parsed = Unread

Read ==
    /\ parsed = Unread
    /\ parsed' = Parse(WriteNodes(template))
    /\ UNCHANGED template

Next == Read

Spec == Init /\ [][Next]_vars

-----------------------------------------------------------------------------
\* The template and what was made of it.
TypeOK ==
    /\ template \in Sources
    /\ parsed # Unread => parsed = Parse(WriteNodes(template))

\* Precedence, associativity, filters, nesting, the branches of an if and the ends
\* of the bodies: a template that an author writes with no more parentheses than
\* it needs is parsed into the nodes the author had in mind.
TemplatesParseBack == parsed = Unread \/ parsed = template
=============================================================================
