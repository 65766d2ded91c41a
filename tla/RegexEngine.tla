----------------------------- MODULE RegexEngine -----------------------------
(***************************************************************************)
(* The operations of the re and regex modules on a subject                 *)
(* (rust/regex_engine/src/lib.rs, rust/re/src/lib.rs,                      *)
(* rust/regex/src/lib.rs).  fancy-regex is external: a pattern is where a  *)
(* match that starts at a position ends.  A subject is its bytes, and a    *)
(* character that takes several bytes continues with `Continuation`.       *)
(***************************************************************************)
EXTENDS Integers, Sequences, FiniteSets, SequencesExt, FiniteSetsExt

CONSTANTS
    Bytes,        \* what texts consist of
    Characters,   \* the characters of subjects, each the sequence of its bytes
    MaxLength,    \* bound: characters of a subject
    Replacements, \* replacement texts, each the sequence of its parts
    Continuation, \* a byte that continues a character
    None          \* no match; a pattern that does not compile

\* A replacement's parts: text, the number of a group, or the name of one (the
\* patterns here name none, so that the name itself is left with a dollar).
Part == [kind : {"literal", "group", "name"}, number : Nat, byte : Bytes]
Group(number) == [kind |-> "group", number |-> number, byte |-> "$"]

\* What the constants are: a character starts with a byte of its own.
RegexAssumption ==
    /\ \A c \in Characters : /\ c \in Seq(Bytes) /\ c # <<>> /\ c[1] # Continuation
                             /\ \A i \in 2 .. Len(c) : c[i] = Continuation
    /\ Replacements \subseteq Seq(Part)
    /\ "$" \in Bytes /\ MaxLength \in Nat /\ None \notin Nat

VARIABLES
    regex,        \* what is called: [subject, pattern, groups]
    call,         \* the operation and its arguments
    result

vars == <<regex, call, result>>

-----------------------------------------------------------------------------
(* A pattern on a subject, `re`: the subject's bytes; where a match ends,  *)
(* by the position at which it starts; the number of groups.  Group 1 is   *)
(* the whole pattern.                                                      *)

End(re) == Len(re.subject)
Positions(re) == 0 .. End(re)
is_char_boundary(re, i) ==
    i \in {0, End(re)} \/ (i < End(re) /\ re.subject[i + 1] # Continuation)
Boundaries(re) == {i \in Positions(re) : is_char_boundary(re, i)}
Slice(re, from, to) == SubSeq(re.subject, from + 1, to)

\* The next character boundary behind a position.
advance(re, i) == IF i >= End(re) THEN End(re) ELSE Min({j \in Boundaries(re) : j > i})

\* captures_from_pos: the first match at the position or behind it, in the whole
\* subject.
Span(start, end) == [start |-> start, end |-> end]
StartsFrom(re, position) == {s \in Boundaries(re) : s >= position /\ re.pattern[s] # None}
Matches(re, position) == StartsFrom(re, position) # {}
find_from_pos(re, position) ==
    LET start == Min(StartsFrom(re, position)) IN Span(start, re.pattern[start])
IsEmpty(span) == span.start = span.end
Text(re, span) == Slice(re, span.start, span.end)

\* A scan goes on behind a match, and an empty match consumes a character.
next_position(re, m) == IF IsEmpty(m) THEN advance(re, m.end) ELSE m.end
IsLast(re, m) == IsEmpty(m) /\ m.end >= End(re)

\* Every match.  An empty one is reported also where the one before it ended.
matches(re) ==
    LET from[position \in Positions(re)] ==
            IF ~Matches(re, position) THEN <<>>
            ELSE LET m == find_from_pos(re, position)
                 IN  IF IsLast(re, m) THEN <<m>> ELSE <<m>> \o from[next_position(re, m)]
    IN  from[0]

Texts(re, spans) == [i \in DOMAIN spans |-> Text(re, spans[i])]
Distinct(texts) ==
    FoldLeft(LAMBDA seen, t : IF Contains(seen, t) THEN seen ELSE Append(seen, t), <<>>, texts)

\* A search that restarts one character behind the last start.
overlapping(re) ==
    LET from[position \in Positions(re)] ==
            IF ~Matches(re, position) THEN <<>>
            ELSE LET m == find_from_pos(re, position)
                 IN  IF m.start >= End(re) THEN <<m>>
                     ELSE <<m>> \o from[advance(re, m.start)]
    IN  from[0]

\* What the parts of a replacement stand for.
expand_part(re, part, m) ==
    CASE part.kind = "literal" -> <<part.byte>>
      [] part.kind = "group" -> IF part.number <= re.groups THEN Text(re, m) ELSE <<>>
      [] part.kind = "name" -> <<"$", part.byte>>
expand(re, replacement, m) ==
    FlattenSeq([i \in DOMAIN replacement |-> expand_part(re, replacement[i], m)])

\* No more replacements or splits are wanted.
Reached(limit, count) == limit >= 0 /\ count >= limit

\* A mistake: the character behind an empty match is passed over, not copied.
replace_skips(re, replacement, limit) ==
    LET from[at \in Positions(re) \X Nat] ==
            LET position == at[1]
                count == at[2]
            IN
            IF Reached(limit, count) \/ ~Matches(re, position)
            THEN [text |-> Slice(re, position, End(re)), count |-> count]
            ELSE LET m == find_from_pos(re, position)
                     head == Slice(re, position, m.start) \o expand(re, replacement, m)
                 IN  IF IsLast(re, m)
                     THEN [text |-> head, count |-> count + 1]
                     ELSE LET rest == from[<<next_position(re, m), count + 1>>]
                          IN  [text |-> head \o rest.text, count |-> rest.count]
    IN  from[<<0, 0>>]

\* At most `limit` replacements, all of them if it is negative, and their number.
replace(re, replacement, limit) ==
    LET from[at \in Positions(re) \X Nat] ==
            LET position == at[1]
                count == at[2]
            IN
            IF Reached(limit, count) \/ ~Matches(re, position)
            THEN [text |-> Slice(re, position, End(re)), count |-> count]
            ELSE LET m == find_from_pos(re, position)
                     head == Slice(re, position, m.start) \o expand(re, replacement, m)
                 IN  IF IsLast(re, m)
                     THEN [text |-> head, count |-> count + 1]
                     ELSE LET next == next_position(re, m)
                              rest == from[<<next, count + 1>>]
                          IN  [text |-> head \o Slice(re, m.end, next) \o rest.text,
                               count |-> rest.count]
    IN  from[<<0, 0>>]

\* The pieces between the matches, with the groups of each match behind its piece.
split(re, group_count, max_split) ==
    LET from[at \in Positions(re) \X Positions(re) \X Nat] ==
            LET position == at[1]
                segment == at[2]
                splits == at[3]
            IN
            IF Reached(max_split, splits) \/ ~Matches(re, position)
            THEN <<Slice(re, segment, End(re))>>
            ELSE LET m == find_from_pos(re, position)
                     items == <<Slice(re, segment, m.start)>>
                              \o [i \in 1 .. group_count |-> Text(re, m)]
                 IN  IF IsLast(re, m)
                     THEN items \o <<Slice(re, m.end, End(re))>>
                     ELSE items \o from[<<next_position(re, m), m.end, splits + 1>>]
    IN  from[<<0, 0, 0>>]

\* Replaces the match `nth`, or all of them if it is negative; a highlight keeps
\* the match between its two marks.
Before(re, i) == IF i = 1 THEN 0 ELSE matches(re)[i - 1].end
replace_manual(re, nth, before, replacement, after, highlight) ==
    LET found == matches(re)
        Put(i) == IF nth >= 0 /\ i # nth THEN Text(re, found[i])
                  ELSE before \o (IF highlight THEN Text(re, found[i]) ELSE replacement) \o after
        pieces == [i \in DOMAIN found |-> Slice(re, Before(re, i), found[i].start) \o Put(i)]
    IN  FlattenSeq(pieces) \o Slice(re, Before(re, Len(found) + 1), End(re))

\* A part of the subject of at most `max_len` bytes, around the first match; its
\* ends move inwards to character boundaries.
truncated_head(re, max_len) == Span(0, Max({i \in Boundaries(re) : i <= max_len}))
truncate_match(re, max_len) ==
    IF ~Matches(re, 0) THEN truncated_head(re, max_len)
    ELSE LET middle == find_from_pos(re, 0).start
             half == max_len \div 2
             start == IF middle < half THEN 0 ELSE middle - half
             end == IF start + max_len > End(re) THEN End(re) ELSE start + max_len
             first == Min({i \in Boundaries(re) : i >= start})
         IN  IF end <= start THEN Span(start, start)
             ELSE Span(first, IF end <= first THEN end
                              ELSE Max({i \in Boundaries(re) : first <= i /\ i <= end}))

\* Characters, not bytes.
character_index(re, offset) == Cardinality({i \in Boundaries(re) : i < offset})
In_characters(re, m) == Span(character_index(re, m.start), character_index(re, m.end))

-----------------------------------------------------------------------------
Compiles == regex.pattern # None
with_pattern(fallback, body) == IF Compiles THEN body ELSE fallback
FirstText(re) == IF Matches(re, 0) THEN Text(re, find_from_pos(re, 0)) ELSE <<>>

Call(op, arguments) == [op |-> op, arguments |-> arguments]
Limits == -1 .. 2

TypeOK ==
    /\ regex.subject \in Seq(Bytes) /\ regex.groups \in {0, 1}
    /\ Compiles => \A s \in Boundaries(regex) :
                      regex.pattern[s] = None \/ regex.pattern[s] \in Boundaries(regex)

\* A subject, and a pattern that matches what it likes.
Subjects == {FlattenSeq(characters) :
                characters \in UNION {[1 .. n -> Characters] : n \in 0 .. MaxLength}}
Regexes(subject) ==
    LET boundaries == Boundaries([subject |-> subject])
    IN  {[subject |-> subject, pattern |-> p, groups |-> g] : g \in {0, 1},
           p \in {None} \cup {q \in [boundaries -> boundaries \cup {None}] :
                                 \A s \in boundaries : q[s] # None => q[s] >= s}}

Init ==
    /\ \E subject \in Subjects : regex \in Regexes(subject)
    /\ call = Call("none", <<>>) /\ result = <<>>

Answer(op, arguments, answer) ==
    /\ call' = Call(op, arguments)
    /\ result' = answer
    /\ UNCHANGED regex

test == Answer("test", <<>>, with_pattern(FALSE, Matches(regex, 0)))
match == Answer("match", <<>>,
    with_pattern(<<>>, IF Matches(regex, 0) /\ find_from_pos(regex, 0).start = 0
                       THEN FirstText(regex) ELSE <<>>))
search == Answer("search", <<>>, with_pattern(<<>>, FirstText(regex)))
findall == Answer("findall", <<>>, with_pattern(<<>>, Texts(regex, matches(regex))))
count_matches == Answer("count", <<>>, with_pattern(0, Len(matches(regex))))
findSpans == Answer("findSpans", <<>>, with_pattern(<<>>, matches(regex)))
findSpansChar == Answer("findSpansChar", <<>>, with_pattern(<<>>,
    [i \in DOMAIN matches(regex) |-> In_characters(regex, matches(regex)[i])]))
matchStart == Answer("matchStart", <<>>,
    with_pattern(-1, IF Matches(regex, 0) THEN find_from_pos(regex, 0).start ELSE -1))
matchEnd == Answer("matchEnd", <<>>,
    with_pattern(-1, IF Matches(regex, 0) THEN find_from_pos(regex, 0).end ELSE -1))
sub(replacement, limit) == Answer("sub", <<replacement, limit>>,
    with_pattern([text |-> <<>>, count |-> 0], replace(regex, replacement, limit)))
re_split(limit) == Answer("split", <<limit>>,
    with_pattern(<<>>, split(regex, regex.groups, limit)))
splitKeep == Answer("splitKeep", <<>>,
    with_pattern(<<>>, split(regex, regex.groups + 1, -1)))
unique == Answer("unique", <<>>,
    with_pattern(<<>>, Distinct(Texts(regex, matches(regex)))))
lastMatch == Answer("lastMatch", <<>>,
    with_pattern(<<>>, IF matches(regex) = <<>> THEN <<>>
                       ELSE Text(regex, matches(regex)[Len(matches(regex))])))
findallOverlapping == Answer("findallOverlapping", <<>>,
    with_pattern(<<>>, overlapping(regex)))
replaceNth(nth, text) == Answer("replaceNth", <<nth, text>>,
    with_pattern(regex.subject, replace_manual(regex, nth, <<>>, text, <<>>, FALSE)))
highlight(before, after) == Answer("highlight", <<before, after>>,
    with_pattern(regex.subject, replace_manual(regex, -1, before, <<>>, after, TRUE)))
truncateMatch(max_len) == Answer("truncateMatch", <<max_len>>,
    with_pattern(truncated_head(regex, max_len), truncate_match(regex, max_len)))

\* The operations that take flags are the same ones, on another pattern.
Next ==
    /\ call.op = "none"
    /\ \/ test \/ match \/ search \/ findall \/ count_matches
       \/ findSpans \/ findSpansChar \/ matchStart \/ matchEnd
       \/ \E replacement \in Replacements, limit \in Limits : sub(replacement, limit)
       \/ \E limit \in Limits : re_split(limit)
       \/ splitKeep \/ unique \/ lastMatch \/ findallOverlapping
       \/ \E nth \in Limits : replaceNth(nth, <<>>)
       \/ \E after \in {<<>>, <<"$">>} : highlight(<<>>, after)
       \/ \E max_len \in 0 .. End(regex) + 1 : truncateMatch(max_len)

Spec == Init /\ [][Next]_vars

-----------------------------------------------------------------------------
Rebuilt(texts) == FlattenSeq(texts)
Replaced(re, limit) ==
    IF limit < 0 \/ limit > Len(matches(re)) THEN Len(matches(re)) ELSE limit
Removed(re, nth) ==
    IF nth \in DOMAIN matches(re) THEN Text(re, matches(re)[nth])
    ELSE IF nth < 0 THEN Rebuilt(Texts(re, matches(re))) ELSE <<>>

\* No operation loses or doubles a part of the subject: every match put in its
\* own place, all of them or only some, gives the subject back, and so do the
\* pieces of a split with the separators that it keeps.  Replacing matches by
\* nothing leaves the pieces that a split makes of the subject, and as many
\* matches are replaced as are counted.  Whatever is taken out of the subject
\* starts and ends between two characters, also at an empty match behind a
\* character of several bytes and at the ends of a truncated text.
SubjectIsKept ==
    Compiles =>
    /\ call.op = "sub" =>
         /\ result.count = Replaced(regex, call.arguments[2])
         /\ call.arguments[1] = <<Group(0)>> => result.text = regex.subject
         /\ call.arguments[1] = <<>> /\ regex.groups = 0 =>
              result.text = Rebuilt(split(regex, 0, call.arguments[2]))
    /\ call.op = "split" /\ regex.groups = 1 => Rebuilt(result) = regex.subject
    /\ call.op = "splitKeep" /\ regex.groups = 0 => Rebuilt(result) = regex.subject
    /\ call.op = "highlight" /\ call.arguments[2] = <<>> => result = regex.subject
    /\ call.op = "replaceNth" =>
         Len(result) = End(regex) - Len(Removed(regex, call.arguments[1]))
    /\ call.op = "findallOverlapping" => Len(result) = Cardinality(StartsFrom(regex, 0))
    /\ call.op = "truncateMatch" =>
         /\ result.start <= result.end /\ result.end - result.start <= call.arguments[1]
         /\ result.start # result.end =>
              {result.start, result.end} \subseteq Boundaries(regex)
    /\ call.op = "findSpans" =>
         \A i, j \in DOMAIN result :
            /\ {result[i].start, result[i].end} \subseteq Boundaries(regex)
            /\ i < j => result[i].end <= result[j].start
=============================================================================
