-------------------------- MODULE TemplateRenderer ---------------------------
(***************************************************************************)
(* The renderer of the template engine of the server module                *)
(* (rust/server/src/template.rs): scopes, loop variables, macros, blocks   *)
(* and their overrides, includes, and the error of an unknown variable,    *)
(* which evaluation leaves in the context and which the renderer looks for *)
(* after every node but the call of a macro.  A step handles one node or   *)
(* ends one body; what the nodes print is left out, but for whether it is  *)
(* escaped.                                                                *)
(***************************************************************************)
EXTENDS TemplateSyntax, Naturals, Sequences, FiniteSets, SequencesExt, Functions

CONSTANTS
    Data,              \* the root context: a value for each name
    Loaded,            \* the templates that the loader finds, by name
    Mains,             \* the templates that are rendered
    MAX_RENDER_DEPTH   \* templates and bodies that may be nested

\* What the constants are.
RendererAssumption == MAX_RENDER_DEPTH \in Nat

VARIABLES
    frames,   \* the bodies that are being rendered, the innermost last
    scopes, loop_variables, macros,   \* the context
    error,    \* the context's error
    result,   \* "running", "ok" or "error"
    missed,   \* an unknown variable was read, and no default stood for it
    passed,   \* the same, in the arguments of a macro call
    stolen    \* a default took an error that its own base did not raise

vars == <<frames, scopes, loop_variables, macros, error, result, missed, passed, stolen>>

-----------------------------------------------------------------------------
\* A value: its kind, and the characters, items or keys it consists of.  What a
\* key holds is a text that is not told apart from the key; a number is told
\* apart from zero, and arithmetic is left out.
Value(kind, of) == [kind |-> kind, of |-> of]
NullValue == Value("null", <<>>)
Text(of) == Value("text", of)
Number(of) == Value("number", IF of = <<>> THEN <<>> ELSE <<"n">>)
Bool(b) == Value("bool", IF b THEN <<"true">> ELSE <<"false">>)

truthy(value) == IF value.kind = "bool" THEN value.of = <<"true">> ELSE value.of # <<>>
stringify(value) == value.of

\* What a `for` iterates over: the items, the keys or the characters.
iterable_items(value) ==
    IF value.kind \in {"list", "object", "text"}
    THEN [i \in DOMAIN value.of |-> Text(<<value.of[i]>>)] ELSE <<>>

contains(haystack, needle) ==
    IF haystack.kind \in {"list", "object"}
    THEN needle.kind = "text" /\ \E i \in DOMAIN haystack.of : needle.of = <<haystack.of[i]>>
    ELSE /\ haystack.kind = "text" /\ needle.kind = "text"
         /\ \E i, j \in 0 .. Len(haystack.of) : SubSeq(haystack.of, i + 1, j) = needle.of

apply_binary(operator, left, right) ==
    CASE operator = "==" -> Bool(left = right)
      [] operator = "in" -> Bool(contains(right, left))
      [] operator = "~" -> Text(stringify(left) \o stringify(right))
      [] OTHER -> NullValue

apply_filter(name, value) ==
    CASE name = "first" ->
           IF value.kind \in {"list", "text"} /\ value.of # <<>> THEN Text(<<Head(value.of)>>)
           ELSE IF value.kind = "text" THEN value ELSE NullValue
      [] name = "length" -> Number(IF value.kind \in {"null", "bool", "number"} THEN <<>> ELSE value.of)
      [] name = "reverse" -> IF value.kind = "list" THEN Value("list", Reverse(value.of))
                             ELSE Text(Reverse(stringify(value)))
      [] name \in {"join", "string"} -> Text(stringify(value))
      [] OTHER -> value

\* The innermost scope that has a name; a scope comes before its loop variables.
Unknown == Value("unknown", <<>>)
lookup(name) ==
    LET named == {i \in DOMAIN scopes : name \in DOMAIN scopes[i] \cup DOMAIN loop_variables[i]}
        i == CHOOSE j \in named : \A k \in named : k <= j
    IN  CASE named = {} -> Unknown
          [] name \in DOMAIN scopes[i] -> scopes[i][name]
          [] OTHER -> loop_variables[i][name]

\* A path: the name, then a key of the object or nothing.
resolve(path) ==
    LET value == lookup(path[1]) IN
    CASE Len(path) = 1 \/ value = Unknown -> value
      [] value.kind = "object" /\ \E i \in DOMAIN value.of : value.of[i] = path[2] ->
           Text(<<path[2]>>)
      [] OTHER -> Unknown

-----------------------------------------------------------------------------
\* Evaluation answers with a value and leaves its errors in the context.
Context == [error |-> error, missed |-> missed, stolen |-> stolen]
Evaluated(value, context) == [value |-> value, context |-> context]

RECURSIVE evaluate(_, _), evaluateAll(_, _)

\* `default` takes the pending error, whoever raised it.
Default(base, arguments, before) ==
    LET given == base.value.of = <<>> /\ base.value.kind \in {"null", "text"}
        taken == [error |-> FALSE, missed |-> before.missed,
                  stolen |-> before.stolen \/ before.error]
        others == evaluateAll(arguments, taken)
    IN  Evaluated(IF ~base.context.error /\ ~given THEN base.value
                  ELSE IF arguments = <<>> THEN NullValue ELSE others.values[1],
                  others.context)

evaluate(e, context) ==
    LET one == evaluate(e.args[1], context)
        two == evaluate(e.args[2], one.context)
        value == resolve(e.names)
        all == evaluateAll(e.args, context)
    IN  CASE e.op = "literal" ->
               Evaluated(IF e = Null THEN NullValue ELSE Text(e.names), context)
          [] e.op = "path" ->
               IF value # Unknown THEN Evaluated(value, context)
               ELSE Evaluated(NullValue, [context EXCEPT !.error = TRUE, !.missed = TRUE])
          [] e.op = "not" -> Evaluated(Bool(~truthy(one.value)), one.context)
          [] e.op = "and" -> IF truthy(one.value)
                             THEN Evaluated(Bool(truthy(two.value)), two.context)
                             ELSE Evaluated(Bool(FALSE), one.context)
          [] e.op = "or" -> IF truthy(one.value) THEN Evaluated(Bool(TRUE), one.context)
                            ELSE Evaluated(Bool(truthy(two.value)), two.context)
          [] e.op = "filter" /\ e.names[1] = "default" ->
               Default(one, Tail(e.args), context)
          [] e.op = "filter" /\ e.names[1] # "default" ->
               Evaluated(apply_filter(e.names[1], all.values[1]), all.context)
          [] e.op = "call" ->
               Evaluated(IF e.names[1] = "length" THEN apply_filter("length", all.values[1])
                         ELSE NullValue, all.context)
          [] OTHER -> Evaluated(apply_binary(e.op, one.value, two.value), two.context)

evaluateAll(es, context) ==
    IF es = <<>> THEN [values |-> <<>>, context |-> context]
    ELSE LET first == evaluate(Head(es), context)
             others == evaluateAll(Tail(es), first.context)
         IN  [values |-> <<first.value>> \o others.values, context |-> others.context]

-----------------------------------------------------------------------------
\* A body that is being rendered: the nodes it has left, what it does when they
\* are done, and the blocks that are overridden in it.  A template starts as
\* "loaded": its macros and its parent have not been looked for.
Frame(kind, todo, depth, overrides, loop) ==
    [kind |-> kind, todo |-> todo, depth |-> depth, overrides |-> overrides, loop |-> loop]
NoLoop == [variable |-> "", items |-> <<>>, body |-> <<>>, index |-> 0]

Top == frames[Len(frames)]
Under == SubSeq(frames, 1, Len(frames) - 1)
Here == Head(Top.todo)
Rest == [Top EXCEPT !.todo = Tail(@)]
Nothing == <<>>
With(f, name, value) == [n \in DOMAIN f \cup {name} |-> IF n = name THEN value ELSE f[n]]
Bind(names, values) ==
    [n \in {names[i] : i \in DOMAIN names \cap DOMAIN values} |->
        values[CHOOSE i \in DOMAIN names \cap DOMAIN values :
                  names[i] = n /\ \A j \in DOMAIN names \cap DOMAIN values : names[j] = n => j <= i]]

\* push_scope, with the variables that are set in the new scope.
Push(variables, loop) ==
    /\ scopes' = Append(scopes, variables)
    /\ loop_variables' = Append(loop_variables, loop)
Pop ==
    /\ scopes' = SubSeq(scopes, 1, Len(scopes) - 1)
    /\ loop_variables' = SubSeq(loop_variables, 1, Len(loop_variables) - 1)

SetContext(context) ==
    /\ error' = context.error
    /\ missed' = context.missed
    /\ stolen' = context.stolen

\* A node is done: an error that is pending now ends the rendering.
Done(context) ==
    /\ SetContext(context)
    /\ result' = IF context.error THEN "error" ELSE "running"
    /\ frames' = Append(Under, Rest)
    /\ UNCHANGED passed

Fail ==
    /\ result' = "error"
    /\ UNCHANGED <<frames, scopes, loop_variables, macros, error, missed, passed, stolen>>

\* A node has a body: the error is looked for when the body is done.
Enter(frame, context) ==
    /\ SetContext(context)
    /\ frames' = Under \o <<Rest, frame>>
    /\ UNCHANGED <<result, passed>>

Running == result = "running"
At(kind) == Running /\ Top.kind # "loaded" /\ Top.todo # <<>> /\ Here.node = kind
Deeper == Top.depth + 1
TooDeep == Deeper > MAX_RENDER_DEPTH

-----------------------------------------------------------------------------
\* The macros of a template, those in its bodies too: the first of a name wins.
RECURSIVE macros_in(_)
macros_in(nodes) ==
    IF nodes = <<>> THEN <<>>
    ELSE LET n == Head(nodes)
             inner == IF n.node \in {"if", "for", "block"}
                      THEN macros_in(FlattenSeq(n.bodies)) ELSE <<>>
         IN  (IF n.node = "macro" THEN <<n>> ELSE <<>>) \o inner \o macros_in(Tail(nodes))
Collected(nodes) ==
    LET found == macros_in(nodes)
        names == {found[i].names[1] : i \in DOMAIN found}
        first(name) == found[CHOOSE i \in DOMAIN found :
                                /\ found[i].names[1] = name
                                /\ \A j \in 1 .. i - 1 : found[j].names[1] # name]
    IN  [name \in DOMAIN macros \cup names |->
            IF name \in DOMAIN macros THEN macros[name] ELSE first(name)]

\* The blocks of a child, which a grandchild has overridden already or not.
Overridden(overrides, nodes) ==
    LET blocks == {i \in DOMAIN nodes : nodes[i].node = "block"}
        first(name) == CHOOSE i \in blocks :
                          nodes[i].names[1] = name /\ \A j \in blocks :
                              nodes[j].names[1] = name => i <= j
    IN  [name \in DOMAIN overrides \cup {nodes[i].names[1] : i \in blocks} |->
            IF name \in DOMAIN overrides THEN overrides[name]
            ELSE nodes[first(name)].bodies[1]]

\* A template that extends another is replaced by it.
Start ==
    /\ Running
    /\ Top.kind = "loaded"
    /\ LET nodes == Top.todo
           extends == {i \in DOMAIN nodes : nodes[i].node = "extends"}
           parent == nodes[CHOOSE i \in extends : \A j \in extends : i <= j].names[1]
       IN  IF Top.depth > MAX_RENDER_DEPTH \/ (extends # {} /\ parent \notin DOMAIN Loaded) THEN Fail
           ELSE /\ macros' = Collected(nodes)
                /\ frames' = Append(Under,
                       IF extends = {} THEN [Top EXCEPT !.kind = "template"]
                       ELSE Frame("loaded", Loaded[parent], Deeper,
                                  Overridden(Top.overrides, nodes), NoLoop))
                /\ UNCHANGED <<scopes, loop_variables, error, result, missed, passed, stolen>>

\* Texts, and an `extends` that was not looked for.
PlainText ==
    /\ At("text") \/ At("extends")
    /\ Done(Context)
    /\ UNCHANGED <<scopes, loop_variables, macros>>

\* An output that is not the call of a macro.
IsMacroCall == Here.exprs[1].op = "call" /\ Here.exprs[1].names[1] \in DOMAIN macros
Output ==
    /\ At("output")
    /\ ~IsMacroCall
    /\ Done(evaluate(Here.exprs[1], Context).context)
    /\ UNCHANGED <<scopes, loop_variables, macros>>

\* A macro is rendered in a scope of its own that holds its arguments.
CallMacro ==
    /\ At("output")
    /\ IsMacroCall
    /\ LET called == macros[Here.exprs[1].names[1]]
           arguments == evaluateAll(Here.exprs[1].args, [Context EXCEPT !.missed = FALSE])
       IN  IF TooDeep THEN Fail
           ELSE /\ SetContext([arguments.context EXCEPT !.missed = missed])
                /\ passed' = (passed \/ arguments.context.missed)
                /\ frames' = Under \o
                       <<Rest, Frame("macro", called.bodies[1], Deeper, Top.overrides, NoLoop)>>
                /\ Push(Bind(Tail(called.names), arguments.values), Nothing)
                /\ UNCHANGED <<macros, result>>

\* The first branch whose condition is truthy, in a scope of its own.  The
\* conditions before it have left their errors.
RECURSIVE Taken(_, _, _)
Taken(n, i, context) ==
    LET condition == evaluate(n.exprs[i], context)
    IN  CASE i > Len(n.bodies) -> [branch |-> 0, context |-> context]
          [] i = Len(n.bodies) /\ i > Len(n.exprs) -> [branch |-> i, context |-> context]
          [] OTHER -> IF truthy(condition.value)
                      THEN [branch |-> i, context |-> condition.context]
                      ELSE Taken(n, i + 1, condition.context)
If ==
    /\ At("if")
    /\ LET taken == Taken(Here, 1, Context) IN
       CASE taken.branch = 0 ->
              Done(taken.context) /\ UNCHANGED <<scopes, loop_variables, macros>>
         [] taken.branch # 0 /\ TooDeep -> Fail
         [] OTHER ->
              /\ Enter(Frame("scoped", Here.bodies[taken.branch], Deeper, Top.overrides, NoLoop),
                       taken.context)
              /\ Push(Nothing, Nothing)
              /\ UNCHANGED macros

\* `loop` has the index, and is first and last where it is.
LoopObject(loop, index) ==
    Value("object", <<"index">> \o (IF index = 1 THEN <<"first">> ELSE <<>>)
                    \o (IF index = Len(loop.items) THEN <<"last">> ELSE <<>>))

\* Each iteration has a scope of its own with the variable and `loop`.
For ==
    /\ At("for")
    /\ LET iterable == evaluate(Here.exprs[1], Context)
           loop == [variable |-> Here.names[1], items |-> iterable_items(iterable.value),
                    body |-> Here.bodies[1], index |-> 1]
       IN  CASE loop.items = <<>> ->
                  Done(iterable.context) /\ UNCHANGED <<scopes, loop_variables, macros>>
             [] loop.items # <<>> /\ TooDeep -> Fail
             [] OTHER ->
                  /\ Enter(Frame("for", loop.body, Deeper, Top.overrides, loop), iterable.context)
                  /\ Push(With(Nothing, loop.variable, loop.items[1]),
                          With(Nothing, "loop", LoopObject(loop, 1)))
                  /\ UNCHANGED macros

NextItem ==
    /\ Running
    /\ Top.kind = "for" /\ Top.todo = <<>> /\ Top.loop.index < Len(Top.loop.items)
    /\ LET loop == [Top.loop EXCEPT !.index = @ + 1]
           last == Len(scopes)
       IN  /\ frames' = Append(Under, [Top EXCEPT !.loop = loop, !.todo = loop.body])
           /\ scopes' = [scopes EXCEPT ![last] =
                            With(Nothing, loop.variable, loop.items[loop.index])]
           /\ loop_variables' = [loop_variables EXCEPT ![last] =
                                   With(Nothing, "loop", LoopObject(loop, loop.index))]
           /\ UNCHANGED <<macros, error, result, missed, passed, stolen>>

\* The last node of a body is done.
BodyDone ==
    /\ Running
    /\ Top.kind # "loaded" /\ Top.todo = <<>>
    /\ Top.kind = "for" => Top.loop.index = Len(Top.loop.items)
    /\ IF Top.kind \in {"for", "scoped", "macro"} THEN Pop ELSE UNCHANGED <<scopes, loop_variables>>
    /\ frames' = Under
    /\ UNCHANGED <<macros, error, missed, passed, stolen>>

\* A mistake: an error of the last expression is forgotten.
Leave_forgets ==
    /\ BodyDone
    /\ result' = IF Under = <<>> THEN "ok" ELSE "running"

\* A body is done, and with it the node it belongs to: an error that is pending
\* now ends the rendering.  After the call of a macro, and at the end of it all,
\* nobody looks for one.
Leave ==
    /\ BodyDone
    /\ result' = CASE Under = <<>> -> "ok"
                   [] Under # <<>> /\ error /\ Top.kind # "macro" -> "error"
                   [] OTHER -> "running"

Set ==
    /\ At("set")
    /\ LET value == evaluate(Here.exprs[1], Context) IN
       /\ Done(value.context)
       /\ scopes' = [scopes EXCEPT ![Len(scopes)] = With(@, Here.names[1], value.value)]
       /\ UNCHANGED <<loop_variables, macros>>

\* An included template is rendered in the scopes, and with the overrides, of
\* the one that includes it.
Include ==
    /\ At("include")
    /\ IF Here.names[1] \notin DOMAIN Loaded THEN Fail
       ELSE /\ Enter(Frame("loaded", Loaded[Here.names[1]], Deeper, Top.overrides, NoLoop), Context)
            /\ UNCHANGED <<scopes, loop_variables, macros>>

\* A block is rendered as its override, in the scope it stands in.
Block ==
    /\ At("block")
    /\ LET name == Here.names[1]
           body == IF name \in DOMAIN Top.overrides THEN Top.overrides[name] ELSE Here.bodies[1]
       IN  IF TooDeep THEN Fail
           ELSE /\ Enter(Frame("block", body, Deeper, Top.overrides, NoLoop), Context)
                /\ UNCHANGED <<scopes, loop_variables, macros>>

\* A macro that is reached replaces the one that was collected.
DefineMacro ==
    /\ At("macro")
    /\ Done(Context)
    /\ macros' = With(macros, Here.names[1], Here)
    /\ UNCHANGED <<scopes, loop_variables>>

-----------------------------------------------------------------------------
Init ==
    /\ \E nodes \in Mains : frames = <<Frame("loaded", nodes, 0, Nothing, NoLoop)>>
    /\ scopes = <<Data>>
    /\ loop_variables = <<Nothing>>
    /\ macros = Nothing
    /\ error = FALSE /\ missed = FALSE /\ passed = FALSE /\ stolen = FALSE
    /\ result = "running"

Next ==
    \/ Start \/ PlainText \/ Output \/ CallMacro \/ If \/ For \/ NextItem \/ Leave
    \/ Set \/ Include \/ Block \/ DefineMacro

Spec == Init /\ [][Next]_vars

-----------------------------------------------------------------------------
\* The stacks of scopes and loop variables have one height, with a root.
TypeOK ==
    /\ result \in {"running", "ok", "error"}
    /\ Len(scopes) = Len(loop_variables) /\ Len(scopes) >= 1
    /\ \A i \in DOMAIN frames : frames[i].depth <= MAX_RENDER_DEPTH + 1
    /\ {error, missed, passed, stolen} \subseteq BOOLEAN

\* An error that evaluation left in the context is not lost in the bodies, loops,
\* macros and includes it passes through: a rendering that succeeds has read no
\* unknown variable, except in the base of a `default` or in the arguments of a
\* macro.  Left out are renderings in which a `default` took the error of
\* something that came before it.
UnknownVariablesAreErrors == result = "ok" /\ missed => stolen

\* The same of the arguments of a macro: a rendering that succeeds has passed no
\* unknown variable to one.  After the call of a macro the renderer goes on with
\* the next node and does not look for an error, and no one does at the end.
MacroArgumentsAreErrors == result = "ok" /\ passed => stolen
=============================================================================
