-------------------------------- MODULE Json --------------------------------
(***************************************************************************)
(* runtime/src/json.c as operators on byte sequences: the parser            *)
(* (json_get_str, json_get_int) reads an event, the serializer (json_open,  *)
(* json_write_str, json_write_int, json_close) writes the response; pos is  *)
(* the length of the buffer so far.  Positions count from zero as in the    *)
(* code.  int64_t is W bits wide; the signed overflow of json_get_int       *)
(* wraps, as the compiled code does.  Strings are not escaped either way.   *)
(***************************************************************************)
EXTENDS Integers, Sequences, FiniteSetsExt, SequencesExt

CONSTANT W     \* width of int64_t

ASSUME JsonAssumption == W \in Nat \ {0}

QUOTE == "\""
WS == {" ", "\t", "\r", "\n"}
Digit == <<"0", "1", "2", "3", "4", "5", "6", "7", "8", "9">>
Digits == {Digit[d] : d \in 1 .. 10}

INT_MIN == -(2^(W - 1))
INT_MAX == 2^(W - 1) - 1

-----------------------------------------------------------------------------
(* The parser.                                                               *)

At(json, i) == json[i + 1]

skip_ws(json, pos) == Min({q \in pos .. Len(json) : q = Len(json) \/ At(json, q) \notin WS})

\* Seeded fault: the closing quote is not compared, so a longer key matches.
find_key_prefix(json, key) ==
    LET hits == {i \in 0 .. Len(json) - Len(key) - 2 :
                    /\ At(json, i) = QUOTE
                    /\ SubSeq(json, i + 2, i + 1 + Len(key)) = key}
    IN  IF key = <<>> \/ hits = {} THEN Len(json) ELSE Min(hits)

\* The first place where the quoted key stands, or the length of the document.
find_key(json, key) ==
    LET hits == {i \in 0 .. Len(json) - Len(key) - 2 :
                    /\ At(json, i) = QUOTE
                    /\ SubSeq(json, i + 2, i + 1 + Len(key)) = key
                    /\ At(json, i + 1 + Len(key)) = QUOTE}
    IN  IF key = <<>> \/ hits = {} THEN Len(json) ELSE Min(hits)

\* Where the value of the key begins: Len(json) when there is none, because the
\* key is not found, no ':' follows it, or the document ends there.
value_pos(json, key) ==
    LET at == find_key(json, key)
        colon == skip_ws(json, at + Len(key) + 2)
    IN  IF at = Len(json) THEN Len(json)
        ELSE IF colon >= Len(json) THEN Len(json)
        ELSE IF At(json, colon) # ":" THEN Len(json)
        ELSE skip_ws(json, colon + 1)

None == [found |-> FALSE]
Found(v) == [found |-> TRUE, val |-> v]

\* The bytes between the quotes, or NULL (None).
json_get_str(json, key) ==
    LET pos == value_pos(json, key)
        ends == {q \in pos + 1 .. Len(json) - 1 : At(json, q) = QUOTE}
    IN  IF pos = Len(json) THEN None
        ELSE IF At(json, pos) # QUOTE \/ ends = {} THEN None
        ELSE Found(SubSeq(json, pos + 2, Min(ends)))

\* int64_t arithmetic
Wrap(x) == ((x + 2^(W - 1)) % 2^W) - 2^(W - 1)

\* result = result * 10 + (json[pos] - '0')
accumulate(digits) ==
    FoldLeft(LAMBDA result, c : Wrap(result * 10 + (CHOOSE d \in 0 .. 9 : Digit[d + 1] = c)),
             0, digits)

\* The number, or exit(1) (None).
json_get_int(json, key) ==
    LET start == value_pos(json, key)
        negative == start < Len(json) /\ json[start + 1] = "-"
        pos == IF negative THEN start + 1 ELSE start
        end == Min({q \in pos .. Len(json) : q = Len(json) \/ At(json, q) \notin Digits})
        result == accumulate(SubSeq(json, pos + 1, end))
    IN  IF start = Len(json) \/ end = pos THEN None
        ELSE Found(IF negative THEN Wrap(-result) ELSE result)

-----------------------------------------------------------------------------
(* The serializer.                                                           *)

\* Seeded fault: the position is compared with the wrong bound.
separator_off_by_one(b) == IF Len(b) > 0 THEN <<",">> ELSE <<>>

\* if (pos > 1): past the '{'
separator(b) == IF Len(b) > 1 THEN <<",">> ELSE <<>>

\* The digits of uval, none when it is zero.
decimal(uval) ==
    LET tmp[k \in 0 .. uval] ==
            IF k = 0 THEN <<>> ELSE Append(tmp[k \div 10], Digit[(k % 10) + 1])
    IN  tmp[uval]

\* INT64_MIN is negated through uint64_t.
number(val) ==
    IF val = 0 THEN <<"0">>
    ELSE IF val > 0 THEN decimal(val)
    ELSE <<"-">> \o decimal(IF val = INT_MIN THEN INT_MAX + 1 ELSE -val)

quoted(s) == <<QUOTE>> \o s \o <<QUOTE>>

json_open(buf) == Append(buf, "{")
json_write_str(buf, k, v) == buf \o separator(buf) \o quoted(k) \o <<":">> \o quoted(v)
json_write_int(buf, k, v) == buf \o separator(buf) \o quoted(k) \o <<":">> \o number(v)
json_close(buf) == Append(buf, "}")
=============================================================================
