--------------------------- MODULE NativeModulesMC ---------------------------
(***************************************************************************)
(* Small instances of the specifications of the native modules for TLC:    *)
(* those of NativeModules, and those that have no theorems.                *)
(***************************************************************************)
EXTENDS NativeModules, TemplateSyntax

CONSTANTS m1, t2

At(x, y) == [x |-> x, y |-> y]

RunsOfMain == [t \in Threads |-> IF t = m1 THEN 2 ELSE 0]

PictureSizes == {[width |-> 3, height |-> 2]}
PastePlaces == {At(1, 0)}
PaintedShapes == {{At(0, 0), At(1, 0)}, {At(1, 0), At(1, 1), At(2, 0)}}

KeyTable == <<<<"a", "A">>, <<"first", "A">>>>
GameKeyTable == [a |-> "A"]
PointerSteps == {1, -2}

PlatformerWalls == <<"wall", "ramp", "ledge">>
PlatformPlaces == {At(0, 0), At(1, 1)}
PlayerStarts == {At(0, 2), At(0, -3), At(2, 2)}

PlacesOfSprites == {At(0, 0), At(3, 0)}
SpriteHalves == {At(2, 1)}
SpriteVelocities == {At(1, -1)}
ScenesDrawn == {<<1, 2>>}
WindowMiddle == At(5, 4)

CharactersOfSubjects == {<<"a">>, <<"e", "more">>}
ReplacementPart(kind, n, byte) == [kind |-> kind, number |-> n, byte |-> byte]
ReplacementTexts ==
    {<<>>, <<ReplacementPart("group", 0, "$")>>,
     <<ReplacementPart("literal", 0, "x"), ReplacementPart("group", 1, "$"),
       ReplacementPart("name", 0, "a")>>}

DatabaseScripts ==
    {<<"insert">>, <<"query">>, <<"commit">>, <<"rollback">>, <<"begin", "insert">>,
     <<"begin", "query">>, <<"begin", "insert", "fails", "commit">>}

\* Templates: every leaf in and behind every body, over a base with one block.
Path(name) == Expr("path", <<name>>, <<>>)
Shown(e) == Node("output", <<>>, <<e>>, <<>>)
DefaultOf(e) == Expr("filter", <<"default">>, <<e, Path("known")>>)
CallOf(name, argument) == Shown(Expr("call", <<name>>, <<Path(argument)>>))
Included(name) == Node("include", <<name>>, <<>>, <<>>)
TemplateLeaves ==
    {Node("text", <<"t">>, <<>>, <<>>), Shown(Path("known")), Shown(Path("new")),
     Shown(DefaultOf(Path("new"))),
     Shown(Expr("~", <<>>, <<Path("new"), DefaultOf(Path("known"))>>)),
     Node("set", <<"new">>, <<Path("known")>>, <<>>), Included("part"),
     CallOf("m", "known"), CallOf("m", "other"),
     Shown(Expr("path", <<"loop", "last">>, <<>>))}
TemplateAround(body) ==
    {Node("if", <<>>, <<Path("known")>>, <<body>>),
     Node("if", <<>>, <<Expr("not", <<>>, <<Path("new")>>)>>, <<body>>),
     Node("if", <<>>, <<Path("new")>>, <<body, <<>>>>),
     Node("for", <<"item">>, <<Path("known")>>, <<body>>),
     Node("for", <<"item">>, <<Expr("~", <<>>, <<Path("new"), Path("known")>>)>>, <<body>>),
     Node("block", <<"b">>, <<>>, <<body>>),
     Node("macro", <<"m", "new">>, <<>>, <<body>>)}
TemplateMains ==
    LET nested == UNION {TemplateAround(b) : b \in {<<>>} \cup {<<n>> : n \in TemplateLeaves}}
    IN  {<<a>> : a \in nested} \cup {<<a, b>> : a \in nested, b \in TemplateLeaves}
        \cup {<<Node("extends", <<"base">>, <<>>, <<>>), a>> : a \in nested}
        \cup {<<a, b>> : a \in TemplateAround(<<Included("self")>>), b \in TemplateLeaves}
TemplatesLoaded ==
    [part |-> <<Shown(Path("item"))>>, self |-> <<Included("self")>>,
     base |-> <<Node("block", <<"b">>, <<>>, <<<<Shown(Path("new"))>>>>), CallOf("m", "known")>>]

\* Tile maps: two tilesets in either order, one of them perhaps without a size, a
\* count or a file, and every pair of tiles.
ATileset(first, columns, count, gap, image, w, h) ==
    [first_gid |-> first, tile_width |-> 2, tile_height |-> 1, columns |-> columns,
     tile_count |-> count, margin |-> gap, spacing |-> gap, image |-> image,
     found |-> TRUE, image_width |-> w, image_height |-> h]
Ground == ATileset(1, 0, 3, 1, TRUE, 7, 5)
Plants == ATileset(4, 1, 2, 0, FALSE, 2, 2)
Sizeless == [Plants EXCEPT !.tile_width = 0]
TilesetLists ==
    {<<Ground, Plants>>, <<Plants, Ground>>, <<Sizeless>>, <<Ground, Sizeless>>,
     <<Ground, [Plants EXCEPT !.found = FALSE]>>, <<[Ground EXCEPT !.tile_count = 0]>>}
MapTiles ==
    {[gid |-> gid, flip_x |-> gid = 2, flip_y |-> FALSE, turned |-> gid = 5] : gid \in 0 .. 6}
FilesOfMaps ==
    {[tile_width |-> 2, tile_height |-> 1, tilesets |-> t,
      layers |-> <<[name |-> "n", decodes |-> d, width |-> w, tiles |-> p]>>] :
        t \in TilesetLists, d \in BOOLEAN, w \in 0 .. 2, p \in {<<>>} \cup [1 .. 2 -> MapTiles]}

\* Native calls: every form of signature, with every value of a kind; two values
\* where a signature takes two.
Word(w) == [word |-> w, fields |-> <<>>]
Pair(a, b) == [word |-> "struct", fields |-> <<a, b>>]
Num(kind, n) == [kind |-> kind, n |-> n, of |-> <<>>]
Sig(result, tokens) == [v2 |-> FALSE, stdcall |-> FALSE, result |-> result, tokens |-> tokens]
NativeSignatures ==
    {Sig("int32", <<Word("int32")>>), Sig("uint32", <<Word("uint32")>>),
     Sig("int64", <<Word("uint64")>>), Sig("uintptr", <<Word("handle")>>),
     Sig("double", <<Word("float64"), Word("int32")>>),
     Sig("utf16", <<Word("utf16"), Word("cstring")>>), Sig("bytes", <<Word("bytes")>>),
     Sig("void", <<Pair(Word("uint32"), Word("uintptr"))>>),
     Sig("void", <<Pair(Word("int32"), Pair(Word("int32"), Word("int32")))>>),
     Sig("void", <<Pair(Word("int32"), Word("bytes"))>>),
     Sig("cstring", <<Word("...")>>), Sig("int64", <<Word("..."), Word("bytes")>>),
     [Sig("value", <<Word("value")>>) EXCEPT !.v2 = TRUE],
     [Sig("void", <<>>) EXCEPT !.stdcall = TRUE],
     [Sig("void", <<Word("...")>>) EXCEPT !.v2 = TRUE],
     Sig("value", <<>>), Sig("short", <<>>)}
NativeValues ==
    {Num("int", -3), Num("int", 2), Num("int", 6), Num("uint64", 9), Num("float", 1),
     Num("bool", 1), Num("string", 1), Num("bytes", 2),
     [Num("list", 0) EXCEPT !.of = <<Num("int", 1), Num("none", 0)>>]}
Calling(s, args) == [signature |-> s, args |-> args, address |-> TRUE]
NativeCallsMade ==
    {Calling(s, a) : s \in NativeSignatures, a \in {<<>>} \cup {<<v>> : v \in NativeValues}}
    \cup {Calling(s, <<v, w>>) : v, w \in NativeValues,
              s \in {t \in NativeSignatures : Len(t.tokens) = 2 \/ t.tokens = <<Word("...")>>}}
    \cup {[Calling(Sig("void", <<>>), <<>>) EXCEPT !.address = FALSE],
          Calling(Sig("void", <<Word("...")>>), <<Num("int", 2), Num("int", 2), Num("int", 2)>>)}
InnerCalls ==
    {Calling(Sig("int32", <<Word("int32")>>), <<Num("int", n)>>) : n \in {-3, 2}}
    \cup {Calling(Sig("cstring", <<Word("...")>>), <<>>)}

MoreModules ==
    {"parser", "renderer", "calls"}

VARIABLES
    parse_template, parse_parsed,
    page_frames, page_scopes, page_loop_variables, page_macros, page_error,
    page_result, page_missed, page_passed, page_stolen,
    call_calls, call_last_error, call_result_string, call_answered

Parser == INSTANCE TemplateParser WITH
    Words <- {"a"}, Literals <- {"1"}, Paths <- {"p"}, Operators <- {"or", "and", "in", "-", "*"},
    Unread <- None,
    template <- parse_template, parsed <- parse_parsed

Renderer == INSTANCE TemplateRenderer WITH
    Data <- [known |-> [kind |-> "list", of |-> <<"x", "y">>]], Loaded <- TemplatesLoaded,
    Mains <- TemplateMains, MAX_RENDER_DEPTH <- 3,
    frames <- page_frames, scopes <- page_scopes,
    loop_variables <- page_loop_variables, macros <- page_macros,
    error <- page_error, result <- page_result, missed <- page_missed,
    passed <- page_passed, stolen <- page_stolen

Ffi == INSTANCE NativeCalls WITH
    Calls <- NativeCallsMade, Inner <- InnerCalls, Returns <- {[bits |-> b, sound |-> b # 6] : b \in {0, 2, 6, 9, 13}},
    Windows <- FALSE, MAX_INT64 <- 7, MAX_INT32 <- 1, MAX_EXACT <- 4, MAX_PACKED_ARGS <- 2,
    MAX_STRUCT_DEPTH <- 1, MaxDepth <- 2,
    calls <- call_calls, last_error <- call_last_error,
    result_string <- call_result_string, answered <- call_answered

parse_vars == <<parse_template, parse_parsed>>
page_vars == <<page_frames, page_scopes, page_loop_variables, page_macros,
               page_error, page_result, page_missed, page_passed, page_stolen>>
call_vars == <<call_calls, call_last_error, call_result_string, call_answered>>

more_vars == <<parse_vars, page_vars, call_vars>>

ASSUME ConstantsAssumption ==
    /\ m1 \in Threads /\ t2 \in Threads
    /\ Parser!ParserAssumption
    /\ Renderer!RendererAssumption
    /\ Ffi!CallsAssumption

AllInit ==
    /\ focus \in Modules \cup MoreModules
    /\ Start
    /\ IF focus = "parser" THEN Parser!Init
       ELSE /\ parse_template = None /\ parse_parsed = None
    /\ IF focus = "renderer" THEN Renderer!Init
       ELSE /\ page_frames = None /\ page_scopes = None
            /\ page_loop_variables = None /\ page_macros = None
            /\ page_error = None /\ page_result = None /\ page_missed = None
            /\ page_passed = None /\ page_stolen = None
    /\ IF focus = "calls" THEN Ffi!Init
       ELSE /\ call_calls = None /\ call_last_error = None
            /\ call_result_string = None /\ call_answered = None

AllNext ==
    \/ Next /\ UNCHANGED more_vars
    \/ /\ focus = "parser" /\ Parser!Next
       /\ UNCHANGED <<vars, page_vars, call_vars>>
    \/ /\ focus = "renderer" /\ Renderer!Next
       /\ UNCHANGED <<vars, parse_vars, call_vars>>
    \/ /\ focus = "calls" /\ Ffi!Next
       /\ UNCHANGED <<vars, parse_vars, page_vars>>

AllSpec == AllInit /\ [][AllNext]_<<vars, more_vars>>

-----------------------------------------------------------------------------

\* Precedence, associativity, filters, nesting, the branches of an if and the ends
\* of the bodies: a template that an author writes with no more parentheses than
\* it needs is parsed into the nodes the author had in mind.
TemplatesParseBack == focus = "parser" => Parser!TemplatesParseBack

\* An error that evaluation left in the context is not lost in the bodies, loops,
\* macros and includes it passes through: a rendering that succeeds has read no
\* unknown variable, except in the base of a `default` or in the arguments of a
\* macro.  Left out are renderings in which a `default` took the error of
\* something that came before it.
UnknownVariablesAreErrors == focus = "renderer" => Renderer!UnknownVariablesAreErrors

\* Natively called functions see the arguments that they were given, in their
\* order and as the numbers they are, whatever types stand before them, and never
\* an argument that their type cannot hold; packed arguments keep their order
\* within each list.  A function that returns its only argument gives back the
\* value, a pointer as a signed integer.  A call has left an error exactly when it
\* failed, and its own text, whatever calls were made inside it.
CallsKeepTheirValues == focus = "calls" => Ffi!CallsKeepTheirValues
=============================================================================
