---------------------------- MODULE NativeCalls ----------------------------
(***************************************************************************)
(* The engine of native calls (rust/ffi/src/lib.rs) and the arguments that *)
(* callNativeInternal (ast.cpp) hands it: a signature is parsed, the       *)
(* arguments are checked and stored by type, the callee reads them where   *)
(* the plan says, and its result is turned into a Lynxer value.  A callee  *)
(* may call back into Lynxer code, which calls natively again on the same  *)
(* thread.  Target pointers are as wide as int64.                          *)
(***************************************************************************)
EXTENDS Integers, Sequences, FiniteSets, SequencesExt

CONSTANTS
    Calls,              \* [signature, args, address]: what a program calls,
    Inner,              \* and what a function that it called calls
    Returns,            \* what callees return: [bits, sound]
    Windows,            \* whether stdcall is known
    MAX_INT64,          \* the largest int64, scaled down, and so on
    MAX_INT32,
    MAX_EXACT,          \* the integers up to here are doubles
    MAX_PACKED_ARGS,
    MAX_STRUCT_DEPTH,
    MaxDepth,           \* bound: calls in calls
    None                \* no call has ended since the last one began

\* The type that each word of a signature stands for.
Words == [int32 |-> "int32", uint32 |-> "uint32", uintptr |-> "pointer", handle |-> "pointer",
          utf16 |-> "utf16", int64 |-> "int64", uint64 |-> "int64", int8 |-> "int64",
          float64 |-> "float64", double |-> "float64", cstring |-> "cstring",
          bytes |-> "bytes", value |-> "value"]

\* A token is a word, or a struct of tokens; a Lynxer value is a number, the name
\* of a text or a buffer, or a list.
Token(word) == [word |-> word, fields |-> <<>>]
Struct(fields) == [word |-> "struct", fields |-> fields]
Number(kind, n) == [kind |-> kind, n |-> n, of |-> <<>>]
List(of) == [kind |-> "list", n |-> 0, of |-> of]
Kinds == {"int", "float", "bool", "string", "uint64", "bytes", "list", "none"}

\* What the constants are.
CallsAssumption ==
    /\ \A c \in Calls : \A i \in DOMAIN c.args : c.args[i].kind \in Kinds
    /\ Inner \subseteq Calls
    /\ Returns \subseteq [bits : 0 .. 2 * MAX_INT64 + 1, sound : BOOLEAN]
    /\ {MAX_INT64, MAX_INT32, MAX_EXACT, MAX_PACKED_ARGS} \subseteq Nat
    /\ MAX_INT32 < MAX_INT64

VARIABLES
    calls,            \* the calls of a thread, innermost last, with what the callee sees
    last_error,       \* LAST_ERROR is not empty
    result_string,    \* RESULT_STRING
    answered          \* how the last call ended

vars == <<calls, last_error, result_string, answered>>

-----------------------------------------------------------------------------
(* Signatures.                                                             *)

TypeOf(token) == IF token.word = "struct" THEN "struct" ELSE Words[token.word]

\* A struct has numbers and structs in it.
RECURSIVE parse_parameter(_, _)
parse_parameter(token, depth) ==
    IF token.word # "struct" THEN token.word \in DOMAIN Words
    ELSE /\ depth < MAX_STRUCT_DEPTH /\ token.fields # <<>>
         /\ \A k \in DOMAIN token.fields :
               /\ parse_parameter(token.fields[k], depth + 1)
               /\ TypeOf(token.fields[k]) \notin {"bytes", "value", "utf16", "cstring"}

Packed(s) == s.tokens = <<Token("...")>>
PackedBuffers(s) == s.tokens = <<Token("..."), Token("bytes")>>
Fixed(s) == ~Packed(s) /\ ~PackedBuffers(s)

parse_signature(s) ==
    /\ s.result \in DOMAIN Words \cup {"void"}
    /\ Fixed(s) => \A i \in DOMAIN s.tokens : parse_parameter(s.tokens[i], 0)
    /\ s.v2 => Fixed(s)
    /\ ~s.v2 => s.result # "value" /\ \A i \in DOMAIN s.tokens : s.tokens[i].word # "value"

-----------------------------------------------------------------------------
(* Arguments.                                                              *)

\* Numbers at their widths, and the nearest double, the even one of two.
Wrapped(n, largest) == n % (2 * (largest + 1))
Signed(n, largest) ==
    LET bits == Wrapped(n, largest) IN IF bits > largest THEN bits - 2 * (largest + 1) ELSE bits
Double(n) ==
    LET size == IF n < 0 THEN -n ELSE n
        step == IF size <= MAX_EXACT THEN 1 ELSE IF size <= 2 * MAX_EXACT THEN 2 ELSE 4
        low == (size \div step) * step
        up == 2 * (size - low) > step \/ (2 * (size - low) = step /\ (low \div step) % 2 = 1)
        near == IF up THEN low + step ELSE low
    IN  IF n < 0 THEN -near ELSE near

\* A mistake: the width of an integer is not checked.
Accepts_any_width(token, v) ==
    LET type == TypeOf(token) IN
    CASE type \in {"int64", "int32"} -> v.kind = "int"
      [] type = "uint32" -> v.kind \in {"int", "uint64"}
      [] type = "pointer" -> v.kind \in {"int", "uint64"}
      [] type = "float64" -> v.kind \in {"int", "float", "uint64"}
      [] type \in {"cstring", "utf16"} -> v.kind = "string"
      [] type = "bytes" -> v.kind = "bytes"
      [] type = "struct" -> v.kind = "list" /\ Len(v.of) = Len(token.fields)
      [] type = "value" -> TRUE

\* Whether a parameter takes a value; a struct takes a list with one value for
\* each field, and none for a pointer.
RECURSIVE Accepts(_, _)
Accepts(token, v) ==
    LET type == TypeOf(token) IN
    CASE type = "int64" -> v.kind = "int"
      [] type = "int32" -> v.kind = "int" /\ v.n \in -MAX_INT32 - 1 .. MAX_INT32
      [] type = "uint32" -> v.kind \in {"int", "uint64"} /\ v.n \in 0 .. 2 * MAX_INT32 + 1
      [] type = "pointer" -> v.kind \in {"int", "uint64"}
      [] type = "float64" -> v.kind \in {"int", "float", "uint64"}
      [] type \in {"cstring", "utf16"} -> v.kind = "string"
      [] type = "bytes" -> v.kind = "bytes"
      [] type = "struct" ->
            /\ v.kind = "list" /\ Len(v.of) = Len(token.fields)
            /\ \A k \in DOMAIN v.of : \/ Accepts(token.fields[k], v.of[k])
                                      \/ TypeOf(token.fields[k]) = "pointer" /\ v.of[k].kind = "none"
      [] type = "value" -> TRUE

\* What is stored for it: a number; a buffer and its length; the fields.
RECURSIVE Stored(_, _)
Stored(token, v) ==
    LET type == TypeOf(token) IN
    CASE type = "int32" -> <<Signed(v.n, MAX_INT32)>>
      [] type = "uint32" -> <<Wrapped(v.n, MAX_INT32)>>
      [] type = "pointer" -> <<Wrapped(v.n, MAX_INT64)>>
      [] type = "float64" -> <<Double(v.n)>>
      [] type = "bytes" -> <<v.n, v.n>>
      [] type = "struct" -> FlattenSeq([k \in DOMAIN v.of |-> Stored(token.fields[k], v.of[k])])
      [] OTHER -> <<v.n>>

\* Each type has a storage of its own; the plan says, for each parameter, where in
\* the storage of its type its argument is.
Storage(s, args, type) ==
    LET positions == SelectSeq([i \in DOMAIN args |-> i], LAMBDA i : TypeOf(s.tokens[i]) = type)
    IN  [k \in DOMAIN positions |-> Stored(s.tokens[positions[k]], args[positions[k]])]
Plan(s, i) == Cardinality({j \in 1 .. i : TypeOf(s.tokens[j]) = TypeOf(s.tokens[i])})
call_fixed(s, args) ==
    FlattenSeq([i \in DOMAIN args |-> Storage(s, args, TypeOf(s.tokens[i]))[Plan(s, i)]])

\* The packed forms: the numbers as doubles, the strings and the buffers.
Numeric(v) == v.kind \in {"int", "float", "bool"}
OfKind(args, test(_)) == LET kept == SelectSeq(args, test) IN [k \in DOMAIN kept |-> kept[k].n]
numbers(args) == LET of == OfKind(args, Numeric) IN [k \in DOMAIN of |-> Double(of[k])]
strings(args) == OfKind(args, LAMBDA v : v.kind = "string")
buffers(args) == OfKind(args, LAMBDA v : v.kind = "bytes")
call_packed(args) == numbers(args) \o strings(args)
call_packed_buffers(args) == numbers(args) \o strings(args) \o buffers(args)

\* The engine calls nothing that it does not take.
Callable(c) ==
    LET s == c.signature IN
    /\ parse_signature(s) /\ c.address /\ (s.stdcall => Windows)
    /\ IF Fixed(s)
       THEN Len(c.args) = Len(s.tokens) /\ \A i \in DOMAIN c.args : Accepts(s.tokens[i], c.args[i])
       ELSE /\ Len(c.args) <= MAX_PACKED_ARGS
            /\ \A i \in DOMAIN c.args :
                  \/ Numeric(c.args[i]) \/ c.args[i].kind = "string"
                  \/ PackedBuffers(s) /\ c.args[i].kind = "bytes"
Seen(c) ==
    CASE Fixed(c.signature) -> call_fixed(c.signature, c.args)
      [] Packed(c.signature) -> call_packed(c.args)
      [] PackedBuffers(c.signature) -> call_packed_buffers(c.args)

-----------------------------------------------------------------------------
(* Results.                                                                *)

\* A callee returns a register; the text that it points at ends, or the length of
\* the buffer is one, if it is sound.
ResultType(s) == IF s.result = "void" THEN "void" ELSE Words[s.result]
Usable(type, raw) == type \in {"utf16", "bytes"} => raw.bits = 0 \/ raw.sound
Result(type, raw) ==
    CASE type = "void" -> 0
      [] type \in {"int64", "pointer"} -> Signed(raw.bits, MAX_INT64)
      [] type = "int32" -> Signed(raw.bits, MAX_INT32)
      [] type = "uint32" -> Wrapped(raw.bits, MAX_INT32)
      [] OTHER -> raw.bits

-----------------------------------------------------------------------------
TypeOK ==
    /\ Len(calls) <= MaxDepth /\ \A k \in DOMAIN calls : calls[k].call \in Calls
    /\ last_error \in BOOLEAN /\ result_string \in Nat

Init == calls = <<>> /\ last_error = FALSE /\ result_string = 0 /\ answered = None

Answer(failed, type, result, echoed) ==
    [failed |-> failed, type |-> type, result |-> result, echoed |-> echoed]
Reachable(c) == c \in (IF calls = <<>> THEN Calls ELSE Inner)

\* A call that is refused reaches no callee.
Refuse(c) ==
    /\ Reachable(c) /\ ~Callable(c)
    /\ last_error' = TRUE
    /\ answered' = Answer(TRUE, "void", 0, 0)
    /\ UNCHANGED <<calls, result_string>>

Begin(c) ==
    /\ Reachable(c) /\ Callable(c)
    /\ Len(calls) < MaxDepth
    /\ calls' = Append(calls, [call |-> c, seen |-> Seen(c)])
    /\ answered' = None
    /\ UNCHANGED <<last_error, result_string>>

\* The callee returns, perhaps its argument; a result that is not one fails the
\* call, too.
Echoes(frame, raw) ==
    LET s == frame.call.signature IN
    /\ Fixed(s) /\ Len(s.tokens) = 1 /\ ResultType(s) = TypeOf(s.tokens[1])
    /\ ResultType(s) \in {"int64", "int32", "uint32", "pointer"}
    /\ raw.bits = Wrapped(frame.seen[1], MAX_INT64)
End(raw) ==
    /\ calls # <<>>
    /\ LET frame == Last(calls)
           type == ResultType(frame.call.signature)
           result == Result(type, raw)
           fails == ~Usable(type, raw)
       IN  /\ last_error' = fails
           /\ result_string' = IF type \in {"cstring", "utf16"} /\ ~fails THEN result
                               ELSE result_string
           /\ answered' =
                 IF fails THEN Answer(TRUE, "void", 0, 0)
                 ELSE Answer(FALSE, type, result,
                             IF Echoes(frame, raw) THEN frame.call.args[1].n ELSE result)
    /\ calls' = Front(calls)

Next == \/ \E c \in Calls : Refuse(c) \/ Begin(c)
        \/ \E raw \in Returns : End(raw)

Spec == Init /\ [][Next]_vars

-----------------------------------------------------------------------------
\* A number that a parameter sees is the argument's: an integer is never cut off
\* or turned around, a pointer has the argument's bits, a double is the integer
\* up to 2^53 and keeps the order of the larger ones.
Whole(token, v, seen) ==
    LET type == TypeOf(token) IN
    CASE type = "pointer" -> seen >= 0 /\ Signed(seen, MAX_INT64) = Signed(v.n, MAX_INT64)
      [] type = "float64" -> v.n \in -MAX_EXACT .. MAX_EXACT => seen = v.n
      [] OTHER -> seen = v.n

\* Natively called functions see the arguments that they were given, in their
\* order and as the numbers they are, whatever types stand before them, and never
\* an argument that their type cannot hold; packed arguments keep their order
\* within each list.  A function that returns its only argument gives back the
\* value, a pointer as a signed integer.  A call has left an error exactly when it
\* failed, and its own text, whatever calls were made inside it.
CallsKeepTheirValues ==
    /\ \A k \in DOMAIN calls :
          LET s == calls[k].call.signature
              args == calls[k].call.args
              seen == calls[k].seen
              simple == \A i \in DOMAIN s.tokens : TypeOf(s.tokens[i]) \notin {"struct", "bytes"}
          IN  /\ Fixed(s) /\ simple =>
                    /\ Len(seen) = Len(args)
                    /\ \A i \in DOMAIN args : Whole(s.tokens[i], args[i], seen[i])
              /\ Fixed(s) /\ Len(args) = 1 /\ TypeOf(s.tokens[1]) = "struct" =>
                    \A i \in DOMAIN args[1].of : s.tokens[1].fields[i].fields = <<>> =>
                        Whole(s.tokens[1].fields[i], args[1].of[i], seen[i])
              /\ ~Fixed(s) =>
                    \A i, j \in DOMAIN args : i < j /\ Numeric(args[i]) /\ Numeric(args[j]) =>
                        \E m, n \in DOMAIN seen : /\ m < n
                                                  /\ seen[m] = Double(args[i].n)
                                                  /\ seen[n] = Double(args[j].n)
    /\ answered # None =>
          /\ last_error = answered.failed
          /\ ~answered.failed /\ answered.type \in {"cstring", "utf16"} =>
                result_string = answered.result
          /\ answered.type \in {"int64", "int32", "uint32", "pointer"} =>
                answered.result = Signed(answered.echoed, MAX_INT64)
=============================================================================
