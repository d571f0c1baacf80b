------------------------------ MODULE JsonText ------------------------------
(***************************************************************************)
(* The text side of cJSON (cJSON.c): the printer, which grows its buffer   *)
(* or fills one it is given, the parser, cJSON_Minify and cJSON_Compare.   *)
(* The configuration daemons parse every command and print every answer    *)
(* with them.                                                              *)
(*                                                                         *)
(* A character is its code.  A value is a tuple: <<"null">>, <<"true">>,   *)
(* <<"false">>, <<"num", n>>, <<"str", chars>>, <<"arr", values>> or       *)
(* <<"obj", members>> with members <<name, value>>.  Numbers are integers: *)
(* sprintf and strtod are taken to be exact on them.  A text to parse ends *)
(* with the NUL character, which counts in its length.                     *)
(***************************************************************************)
EXTENDS Integers, SequencesExt

CONSTANTS
    Values,         \* the values to print
    Codes,          \* the Unicode code points to parse as \uXXXX literals
    Lengths,        \* the buffers to start with
    NestingLimit    \* CJSON_NESTING_LIMIT

VARIABLES job, text

textVars == <<job, text>>

Quote == 34
Slash == 92
Comma == 44
Colon == 58
Null  == <<110, 117, 108, 108>>
True  == <<116, 114, 117, 101>>
False == <<102, 97, 108, 115, 101>>

\* The characters with an escape of two characters, and their letters.
Short == [c \in {8, 9, 10, 12, 13, Quote, Slash} |->
            CASE c = 8 -> 98 [] c = 9 -> 116 [] c = 10 -> 110
              [] c = 12 -> 102 [] c = 13 -> 114 [] OTHER -> c]
Hex(d) == IF d < 10 THEN 48 + d ELSE 87 + d

-----------------------------------------------------------------------------
(***************************************************************************)
(* The printer.  A print buffer has the text so far, its length, whether   *)
(* every write (with its NUL) has ended inside it, and whether it has      *)
(* failed.  Memory is there, and no text comes near INT_MAX.               *)
(***************************************************************************)
Buffer(n, fixed) == [text |-> <<>>, len |-> n, inside |-> TRUE, fixed |-> fixed,
                     ok |-> TRUE]

Ensure(p, needed) ==
    LET want == needed + Len(p.text) + 1 IN
    IF (p.len > 0 /\ Len(p.text) >= p.len) \/ (want > p.len /\ p.fixed)
    THEN [p EXCEPT !.ok = FALSE]
    ELSE [p EXCEPT !.len = IF want <= p.len THEN @ ELSE 2 * want]

\* Write chars, and a NUL when nul is 1, after asking for needed bytes.
Put(p, needed, chars, nul) ==
    LET q == Ensure(p, needed) IN
    IF ~p.ok \/ ~q.ok THEN [p EXCEPT !.ok = FALSE]
    ELSE [q EXCEPT !.text = @ \o chars,
                   !.inside = @ /\ Len(q.text) + Len(chars) + nul <= q.len]

\* Fault: of the escapes, only those of the quote and of controls are made.
EscapedQuote(c) ==
    CASE c = Quote -> <<Slash, Quote>>
      [] c < 32 -> <<Slash, 117, 48, 48, Hex(c \div 16), Hex(c % 16)>>
      [] OTHER  -> <<c>>

\* print_string_ptr
Escaped(c) ==
    CASE c \in DOMAIN Short -> <<Slash, Short[c]>>
      [] c < 32 /\ c \notin DOMAIN Short ->
            <<Slash, 117, 48, 48, Hex(c \div 16), Hex(c % 16)>>
      [] OTHER -> <<c>>
PrintString(p, s) ==
    LET chars == FlattenSeq([i \in DOMAIN s |-> Escaped(s[i])])
    IN  Put(p, Len(chars) + 3, <<Quote>> \o chars \o <<Quote>>, 1)

RECURSIVE Digits(_)
Digits(n) == IF n < 0 THEN <<45>> \o Digits(-n)
             ELSE IF n < 10 THEN <<48 + n>>
             ELSE Digits(n \div 10) \o <<48 + (n % 10)>>

RECURSIVE PrintValue(_, _, _, _)
PrintArray(p, items, depth, fmt) ==
    LET comma == IF fmt THEN <<Comma, 32>> ELSE <<Comma>>
        Item(q, i) ==
            LET r == PrintValue(q, items[i], depth + 1, fmt)
            IN  IF i = Len(items) THEN r ELSE Put(r, Len(comma) + 1, comma, 1)
        all == FoldLeft(Item, Put(p, 1, <<91>>, 0), [i \in DOMAIN items |-> i])
    IN  Put(all, 2, <<93>>, 1)

Tabs(n) == [i \in 1..n |-> 9]
PrintObject(p, members, depth, fmt) ==
    LET inner == depth + 1
        open  == IF fmt THEN <<123, 10>> ELSE <<123>>
        colon == IF fmt THEN <<Colon, 9>> ELSE <<Colon>>
        After(i) == (IF i < Len(members) THEN <<Comma>> ELSE <<>>)
                    \o (IF fmt THEN <<10>> ELSE <<>>)
        Member(q, i) ==
            LET a == IF fmt THEN Put(q, inner, Tabs(inner), 0) ELSE q
                b == Put(PrintString(a, members[i][1]), Len(colon), colon, 0)
                c == PrintValue(b, members[i][2], inner, fmt)
            IN  Put(c, Len(After(i)) + 1, After(i), 1)
        all == FoldLeft(Member, Put(p, Len(open) + 1, open, 0),
                        [i \in DOMAIN members |-> i])
    IN  IF fmt THEN Put(all, inner + 1, Append(Tabs(inner - 1), 125), 1)
        ELSE Put(all, 2, <<125>>, 1)

PrintValue(p, v, depth, fmt) ==
    CASE v[1] = "null"  -> Put(p, 5, Null, 1)
      [] v[1] = "true"  -> Put(p, 5, True, 1)
      [] v[1] = "false" -> Put(p, 6, False, 1)
      [] v[1] = "num"   -> Put(p, Len(Digits(v[2])), Digits(v[2]), 1)
      [] v[1] = "str"   -> PrintString(p, v[2])
      [] v[1] = "arr"   -> PrintArray(p, v[2], depth, fmt)
      [] v[1] = "obj"   -> PrintObject(p, v[2], depth, fmt)

\* cJSON_PrintBuffered; cJSON_Print and cJSON_PrintUnformatted, which take a
\* buffer of 256 but leave its length at 0, so that it is replaced at the
\* first piece; cJSON_PrintPreallocated.
PrintBuffered(v, n, fmt) == PrintValue(Buffer(n, FALSE), v, 0, fmt)
Printed(v, fmt) == PrintBuffered(v, 0, fmt).text
Preallocated(v, n, fmt) == PrintValue(Buffer(n, TRUE), v, 0, fmt)

-----------------------------------------------------------------------------
(***************************************************************************)
(* The parser.  Every operator takes the text and a position, and returns  *)
(* a record with ok, the value and the position after it.                  *)
(***************************************************************************)
Failed == [ok |-> FALSE, val |-> <<"none">>, at |-> 0]
Parsed(v, at) == [ok |-> TRUE, val |-> v, at |-> at]
StartsWith(t, at, word) ==
    at + Len(word) - 1 <= Len(t) /\ SubSeq(t, at, at + Len(word) - 1) = word

\* buffer_skip_whitespace runs over the final NUL and steps back on it.
RECURSIVE Skip(_, _)
Skip(t, at) == IF at > Len(t) THEN Len(t)
               ELSE IF t[at] <= 32 THEN Skip(t, at + 1) ELSE at

RECURSIVE StringEnd(_, _)
StringEnd(t, at) ==
    IF at > Len(t) THEN 0
    ELSE IF t[at] = Quote THEN at
    ELSE IF t[at] = Slash THEN IF at + 1 > Len(t) THEN 0
                               ELSE StringEnd(t, at + 2)
    ELSE StringEnd(t, at + 1)

\* parse_hex4: a digit that is not one makes the number 0.
Nibble(c) == CASE c \in 48..57  -> c - 48
               [] c \in 65..70  -> c - 55
               [] c \in 97..102 -> c - 87
               [] OTHER         -> -1
Hex4(t, at) ==
    LET n == [i \in 1..4 |-> Nibble(t[at + i - 1])]
    IN  IF \E i \in 1..4 : n[i] < 0 THEN 0
        ELSE ((n[1] * 16 + n[2]) * 16 + n[3]) * 16 + n[4]

Utf8(c) ==
    CASE c < 128   -> <<c>>
      [] c \in 128..2047 -> <<192 + c \div 64, 128 + (c % 64)>>
      [] c \in 2048..65535 ->
            <<224 + c \div 4096, 128 + ((c \div 64) % 64), 128 + (c % 64)>>
      [] OTHER -> <<240 + c \div 262144, 128 + ((c \div 4096) % 64),
                    128 + ((c \div 64) % 64), 128 + (c % 64)>>

\* utf16_literal_to_utf8: the bytes and how many characters they took, 0
\* for an error.  A surrogate needs its second half before the quote.
Literal(t, at, end) ==
    LET first  == Hex4(t, at + 2)
        second == Hex4(t, at + 8)
        bad    == [bytes |-> <<>>, took |-> 0]
    IN  IF end - at < 6 \/ first \in 56320..57343 THEN bad
        ELSE IF first \notin 55296..56319 THEN [bytes |-> Utf8(first), took |-> 6]
        ELSE IF end - at < 12 \/ ~StartsWith(t, at + 6, <<Slash, 117>>)
                \/ second \notin 56320..57343 THEN bad
        ELSE [bytes |-> Utf8(65536 + (first % 1024) * 1024 + (second % 1024)),
              took |-> 12]

RECURSIVE Unescape(_, _, _, _)
Unescape(t, at, end, out) ==
    IF at >= end THEN Parsed(<<"str", out>>, end + 1)
    ELSE IF t[at] # Slash THEN Unescape(t, at + 1, end, Append(out, t[at]))
    ELSE LET c   == t[at + 1]
             lit == Literal(t, at, end)
             of  == {x \in DOMAIN Short : Short[x] = c}
                    \cup (IF c = 47 THEN {47} ELSE {})
         IN  IF c = 117
             THEN IF lit.took = 0 THEN Failed
                  ELSE Unescape(t, at + lit.took, end, out \o lit.bytes)
             ELSE IF of = {} THEN Failed
             ELSE Unescape(t, at + 2, end, Append(out, CHOOSE x \in of : TRUE))

ParseString(t, at) ==
    LET end == StringEnd(t, at + 1) IN
    IF t[at] # Quote \/ end = 0 THEN Failed
    ELSE Unescape(t, at + 1, end, <<>>)

RECURSIVE Run(_, _)
Run(t, at) == IF at <= Len(t) /\ t[at] \in 48..57 THEN 1 + Run(t, at + 1) ELSE 0
ParseNumber(t, at) ==
    LET minus == t[at] = 45
        from  == IF minus THEN at + 1 ELSE at
        n     == Run(t, from)
        Up(a, c) == 10 * a + c - 48
        val   == FoldLeft(Up, 0, SubSeq(t, from, from + n - 1))
    IN  IF n = 0 THEN Failed
        ELSE Parsed(<<"num", IF minus THEN -val ELSE val>>, from + n)

RECURSIVE ParseValue(_, _, _), Items(_, _, _, _), Members(_, _, _, _)
Items(t, at, depth, done) ==
    LET one  == ParseValue(t, Skip(t, at + 1), depth)
        next == Skip(t, one.at)
        all  == Append(done, one.val)
    IN  IF ~one.ok THEN Failed
        ELSE IF t[next] = Comma THEN Items(t, next, depth, all)
        ELSE IF t[next] = 93 THEN Parsed(<<"arr", all>>, next + 1)
        ELSE Failed
ParseArray(t, at, depth) ==
    LET first == Skip(t, at + 1) IN
    IF depth >= NestingLimit THEN Failed
    ELSE IF t[first] = 93 THEN Parsed(<<"arr", <<>>>>, first + 1)
    ELSE Items(t, first - 1, depth + 1, <<>>)

Members(t, at, depth, done) ==
    LET name  == ParseString(t, Skip(t, at + 1))
        colon == Skip(t, name.at)
        one   == ParseValue(t, Skip(t, colon + 1), depth)
        next  == Skip(t, one.at)
        all   == Append(done, <<name.val[2], one.val>>)
    IN  IF ~name.ok \/ t[colon] # Colon THEN Failed
        ELSE IF ~one.ok THEN Failed
        ELSE IF t[next] = Comma THEN Members(t, next, depth, all)
        ELSE IF t[next] = 125 THEN Parsed(<<"obj", all>>, next + 1)
        ELSE Failed
ParseObject(t, at, depth) ==
    LET first == Skip(t, at + 1) IN
    IF depth >= NestingLimit THEN Failed
    ELSE IF t[first] = 125 THEN Parsed(<<"obj", <<>>>>, first + 1)
    ELSE Members(t, first - 1, depth + 1, <<>>)

ParseValue(t, at, depth) ==
    IF StartsWith(t, at, Null) THEN Parsed(<<"null">>, at + 4)
    ELSE IF StartsWith(t, at, False) THEN Parsed(<<"false">>, at + 5)
    ELSE IF StartsWith(t, at, True) THEN Parsed(<<"true">>, at + 4)
    ELSE CASE t[at] = Quote -> ParseString(t, at)
           [] t[at] \in 48..57 \cup {45} -> ParseNumber(t, at)
           [] t[at] = 91  -> ParseArray(t, at, depth)
           [] t[at] = 123 -> ParseObject(t, at, depth)
           [] OTHER -> Failed

\* cJSON_Parse: what follows the value is not looked at.
Parse(t) ==
    LET bom == Len(t) > 4 /\ SubSeq(t, 1, 3) = <<239, 187, 191>>
    IN  ParseValue(t, Skip(t, IF bom THEN 4 ELSE 1), 0)

-----------------------------------------------------------------------------
(***************************************************************************)
(* cJSON_Minify, without its comments, and cJSON_Compare.                  *)
(***************************************************************************)
RECURSIVE Minified(_, _, _, _)
Minified(t, at, quoted, out) ==
    IF at > Len(t) THEN out
    ELSE IF quoted /\ t[at] = Slash
         THEN Minified(t, at + 2, TRUE, out \o SubSeq(t, at, at + 1))
    ELSE IF ~quoted /\ t[at] \in {32, 9, 13, 10}
         THEN Minified(t, at + 1, FALSE, out)
    ELSE Minified(t, at + 1, quoted # (t[at] = Quote), Append(out, t[at]))
Minify(t) == Minified(t, 1, FALSE, <<>>)

Lower(s) == [i \in DOMAIN s |-> IF s[i] \in 65..90 THEN s[i] + 32 ELSE s[i]]
\* get_object_item: the first member whose name matches.
Found(members, name, cased) ==
    LET same == {i \in DOMAIN members :
                    IF cased THEN members[i][1] = name
                    ELSE Lower(members[i][1]) = Lower(name)}
    IN  IF same = {} THEN <<"none">>
        ELSE members[CHOOSE i \in same : \A j \in same : i <= j][2]

RECURSIVE Compare(_, _, _)
Compare(a, b, cased) ==
    LET Covers(x, y) == \A i \in DOMAIN x :
                            Compare(x[i][2], Found(y, x[i][1], cased), cased)
    IN  /\ a[1] = b[1] /\ a[1] # "none"
        /\ CASE a[1] \in {"null", "true", "false"} -> TRUE
             [] a[1] \in {"num", "str"} -> a[2] = b[2]
             [] a[1] = "arr" -> /\ Len(a[2]) = Len(b[2])
                                /\ \A i \in DOMAIN a[2] :
                                      Compare(a[2][i], b[2][i], cased)
             [] OTHER -> Covers(a[2], b[2]) /\ Covers(b[2], a[2])

-----------------------------------------------------------------------------
(***************************************************************************)
(* The jobs: a value is printed, in a buffer that grows or in one of a     *)
(* given size, or a \u literal is parsed.                                  *)
(***************************************************************************)
Jobs == [kind : {"print"}, value : Values, fmt : BOOLEAN, size : Lengths]
        \cup [kind : {"literal"}, code : Codes]

Hexed(u) == <<Slash, 117>> \o [i \in 1..4 |-> Hex((u \div 16^(4 - i)) % 16)]
LiteralOf(c) ==
    IF c < 65536 THEN Hexed(c)
    ELSE Hexed(55296 + (c - 65536) \div 1024) \o Hexed(56320 + ((c - 65536) % 1024))

TextInit == job = [kind |-> "none"] /\ text = <<>>
TextNext ==
    /\ job.kind = "none"
    /\ job' \in Jobs
    /\ text' = IF job'.kind = "print" THEN Printed(job'.value, job'.fmt)
               ELSE <<Quote>> \o LiteralOf(job'.code) \o <<Quote>>

TextSpec == TextInit /\ [][TextNext]_textVars

-----------------------------------------------------------------------------
RECURSIVE Depth(_)
Depth(v) ==
    LET inner == CASE v[1] = "arr" -> {Depth(v[2][i]) : i \in DOMAIN v[2]}
                   [] v[1] = "obj" -> {Depth(v[2][i][2]) : i \in DOMAIN v[2]}
                   [] OTHER -> {}
    IN  IF v[1] \notin {"arr", "obj"} THEN 0 ELSE 1 + Max(inner \cup {0})

\* Every value nested no deeper than the parser's limit comes back from its
\* text, formatted or not, the formatted text minified is the unformatted
\* one, and cJSON_Compare tells the two values equal (cJSON_Print,
\* cJSON_Parse, cJSON_Minify, cJSON_Compare).
ComesBack ==
    job.kind = "print" =>
        LET back == Parse(Append(text, 0)) IN
        IF Depth(job.value) > NestingLimit THEN ~back.ok
        ELSE /\ back.ok /\ back.val = job.value /\ back.at = Len(text) + 1
             /\ Compare(job.value, back.val, TRUE)
             /\ Minify(text) = Printed(job.value, FALSE)

\* Whichever buffer the printer starts with, no piece is written past the end
\* that the buffer has at that moment.  One that may grow, which
\* cJSON_Print starts at a length of 0, always takes the whole text; one that
\* may not takes it when it is five bytes larger than the text needs, as
\* cJSON.h promises, and never takes another text (ensure, print,
\* cJSON_PrintBuffered, cJSON_PrintPreallocated).
StaysInTheBuffer ==
    job.kind = "print" =>
        LET given == Preallocated(job.value, job.size, job.fmt)
        IN  /\ \A n \in {0, job.size} :
                LET grown == PrintBuffered(job.value, n, job.fmt)
                IN  grown.ok /\ grown.inside /\ grown.text = text
            /\ given.inside
            /\ given.ok => given.text = text
            /\ job.size >= Len(text) + 1 + 5 => given.ok

\* A \u literal, of one code unit or of a surrogate pair, becomes the UTF-8
\* bytes of its code point (utf16_literal_to_utf8, parse_hex4).
Decoded(b) ==
    CASE Len(b) = 1 -> b[1]
      [] Len(b) = 2 -> (b[1] % 32) * 64 + (b[2] % 64)
      [] Len(b) = 3 -> ((b[1] % 16) * 64 + (b[2] % 64)) * 64 + (b[3] % 64)
      [] Len(b) = 4 -> (((b[1] % 8) * 64 + (b[2] % 64)) * 64 + (b[3] % 64)) * 64
                       + (b[4] % 64)
LiteralsDecode ==
    job.kind = "literal" =>
        LET got == Parse(Append(text, 0)) IN
        /\ got.ok /\ Decoded(got.val[2]) = job.code
        /\ \A i \in 2..Len(got.val[2]) : got.val[2][i] \in 128..191
=============================================================================
