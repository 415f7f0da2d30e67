------------------------------- MODULE Entry --------------------------------
(***************************************************************************)
(* lambpie_handle, the entry point the compiler synthesizes (compiler.py,   *)
(* _synthesize_lambda_entry), with json.c on both sides of it and the       *)
(* response buffer that runtime.c maps in front of a guard page.  The       *)
(* service writes an event, field by field, with fields missing or of the   *)
(* wrong type; the event struct is filled field by field; the handler of    *)
(* tests/echo.pie answers; the response is serialized field by field.       *)
(***************************************************************************)
EXTENDS Json

CONSTANTS Keys,          \* field names, as byte sequences
          Strings,       \* string values, as byte sequences without '"'
          Ints,          \* integer values
          Blanks,        \* the white space the service may put between tokens
          MaxFields,     \* bound: fields of an event
          EventType,     \* fields of the event class in index order: [key, kind]
          ResponseType,  \* fields of the response class
          Ok,            \* the string literal of the handler
          response_cap,  \* capacity of the response buffer
          Page           \* getpagesize()

ASSUME EntryAssumption ==
    /\ Ints \subseteq INT_MIN .. INT_MAX
    /\ {MaxFields, response_cap} \subseteq Nat /\ Page \in Nat \ {0}

VARIABLES
    pc,        \* "event", "deserialize", "serialize", "posted", "exit" or "fault"
    request,   \* the fields of the event, in the order the service wrote them
    json,      \* event_ptr: the bytes of the event
    event,     \* the event struct: the fields filled in so far, by position
    response,  \* the response struct, by position
    field,     \* fields of the response written so far
    out        \* response_ptr: the bytes written so far; pos is Len(out)

vars == <<pc, request, json, event, response, field, out>>

StrField(k, v) == [key |-> k, kind |-> "str", str |-> v, int |-> 0]
IntField(k, v) == [key |-> k, kind |-> "int", str |-> <<>>, int |-> v]

Init ==
    /\ pc = "event" /\ request = <<>> /\ json = <<"{">>
    /\ event = <<>> /\ response = <<>> /\ field = 0 /\ out = <<>>

-----------------------------------------------------------------------------
(* The service.                                                              *)

\* A field of the event, with white space as the service likes.
service_writes(f, ws) ==
    /\ pc = "event" /\ Len(request) < MaxFields
    /\ \A i \in DOMAIN request : request[i].key # f.key
    /\ json' = json \o (IF request = <<>> THEN <<>> ELSE <<",">> \o ws)
                    \o quoted(f.key) \o ws \o <<":">> \o ws
                    \o (IF f.kind = "int" THEN number(f.int) ELSE quoted(f.str))
    /\ request' = Append(request, f)
    /\ UNCHANGED <<pc, event, response, field, out>>

service_sends ==
    /\ pc = "event"
    /\ json' = Append(json, "}")
    /\ pc' = "deserialize"
    /\ UNCHANGED <<request, event, response, field, out>>

-----------------------------------------------------------------------------
(* lambpie_handle.                                                           *)

\* A str struct: its bytes; or a NULL buffer, with the len an uninitialized variable
\* held, zero or not.
Str(bytes) == [null |-> FALSE, bytes |-> bytes, len |-> Len(bytes)]
Null(len) == [null |-> TRUE, bytes |-> <<>>, len |-> len]

\* Seeded fault: a missing string points into the event, with the undefined length.
get_str_into_event(key) ==
    LET r == json_get_str(json, key)
    IN  IF r.found THEN {Str(r.val)} ELSE {Str(SubSeq(json, 1, len)) : len \in 0 .. 1}

\* json_get_str does not set *out_len when it returns NULL; what is loaded is undefined.
get_str(key) ==
    LET r == json_get_str(json, key)
    IN  IF r.found THEN {Str(r.val)} ELSE {Null(len) : len \in 0 .. 1}

\* The next field of the event struct; json_get_int ends the process without one.
deserialize ==
    /\ pc = "deserialize" /\ Len(event) < Len(EventType)
    /\ LET f == EventType[Len(event) + 1]
           int == json_get_int(json, f.key)
       IN  \/ f.kind = "str" /\ UNCHANGED pc
              /\ \E s \in get_str(f.key) : event' = Append(event, s)
           \/ f.kind = "int" /\ int.found /\ UNCHANGED pc
              /\ event' = Append(event, int.val)
           \/ f.kind = "int" /\ ~ int.found /\ pc' = "exit" /\ UNCHANGED event
    /\ UNCHANGED <<request, json, response, field, out>>

\* tests/echo.pie: Response("ok", event.message, event.number + event.number); json_open.
handle ==
    /\ pc = "deserialize" /\ Len(event) = Len(EventType)
    /\ response' = <<Str(Ok), event[1], Wrap(event[2] + event[2])>>
    /\ out' = json_open(out)
    /\ pc' = "serialize"
    /\ UNCHANGED <<request, json, event, field>>

\* Seeded fault: the guard page is taken from the buffer instead of put behind it.
mapalloc_guards_inside(size) == (size \div Page) * Page

\* Where the guard page of a buffer begins: (size | (pagesize - 1)) + 1.
mapalloc(size) == (size \div Page) * Page + Page

\* Bytes are written upwards from pos: the first one past the mapping touches the
\* guard page.  response_cap is not looked at.
Write(bytes, next) ==
    IF Len(bytes) > mapalloc(response_cap)
    THEN pc' = "fault" /\ UNCHANGED out
    ELSE pc' = next /\ out' = bytes

\* The next field of the response; memcpy from NULL faults unless len is 0.
serialize ==
    /\ pc = "serialize" /\ field < Len(ResponseType)
    /\ LET f == ResponseType[field + 1]
           v == response[field + 1]
       IN  \/ f.kind = "str" /\ v.null /\ v.len > 0 /\ pc' = "fault" /\ UNCHANGED out
           \/ f.kind = "str" /\ (v.null => v.len = 0)
              /\ Write(json_write_str(out, f.key, v.bytes), "serialize")
           \/ f.kind = "int" /\ Write(json_write_int(out, f.key, v), "serialize")
    /\ field' = field + 1
    /\ UNCHANGED <<request, json, event, response>>

\* json_close; the length is returned and the bytes go to send_response.
post ==
    /\ pc = "serialize" /\ field = Len(ResponseType)
    /\ Write(json_close(out), "posted")
    /\ UNCHANGED <<request, json, event, response, field>>

Next ==
    \/ \E k \in Keys : \E ws \in Blanks :
           \/ \E v \in Strings : service_writes(StrField(k, v), ws)
           \/ \E v \in Ints : service_writes(IntField(k, v), ws)
    \/ service_sends
    \/ deserialize \/ handle \/ serialize \/ post

Spec == Init /\ [][Next]_vars

-----------------------------------------------------------------------------
(* Properties.                                                               *)

\* What a document with these fields should give for a key.
Lookup(fields, key, kind) ==
    LET hits == {i \in DOMAIN fields : fields[i].key = key /\ fields[i].kind = kind}
        f == fields[CHOOSE i \in hits : TRUE]
    IN  IF hits = {} THEN None ELSE Found(IF kind = "str" THEN f.str ELSE f.int)

\* The fields of the response that are in out.
Written ==
    [i \in 1 .. field |-> IF ResponseType[i].kind = "str"
                          THEN StrField(ResponseType[i].key, response[i].bytes)
                          ELSE IntField(ResponseType[i].key, response[i])]

Agrees(text, fields) ==
    \A key \in Keys : /\ json_get_str(text, key) = Lookup(fields, key, "str")
                      /\ json_get_int(text, key) = Lookup(fields, key, "int")

(* Asked for any key of an event or of a response, at any point of writing   *)
(* it, json_get_str and json_get_int return the value written under exactly  *)
(* that key, NULL or exit(1) when there is none or when it is of the other   *)
(* type: whatever the order of the fields, the white space, keys that are    *)
(* prefixes of one another, empty strings, strings of punctuation, and       *)
(* INT64_MIN, whose digits overflow on the way.                              *)
ReadsBack ==
    /\ Agrees(json, request)
    /\ pc \in {"serialize", "posted"} => Agrees(out, Written)

\* The grammar of a flat object as an automaton over bytes.
Accept(q, c) ==
    CASE q = "start"  /\ c = "{"           -> "open"
      [] q = "open"   /\ c = "}"           -> "done"
      [] q = "open"   /\ c = QUOTE         -> "key"
      [] q = "key"                         -> IF c = QUOTE THEN "keyed" ELSE "key"
      [] q = "keyed"  /\ c = ":"           -> "value"
      [] q = "value"  /\ c = QUOTE         -> "string"
      [] q = "value"  /\ c = "-"           -> "minus"
      [] q = "value"  /\ c = "0"           -> "valued"
      [] q \in {"value", "minus"} /\ c \in Digits \ {"0"} -> "digits"
      [] q = "digits" /\ c \in Digits      -> "digits"
      [] q = "string"                      -> IF c = QUOTE THEN "valued" ELSE "string"
      [] q \in {"valued", "digits"} /\ c = "," -> "next"
      [] q \in {"valued", "digits"} /\ c = "}" -> "done"
      [] q = "next"   /\ c = QUOTE         -> "key"
      [] q \in {"keyed", "value", "next"} /\ c \in WS -> q
      [] OTHER                                 -> "error"

(* A response that is posted is a flat JSON object: one comma between two    *)
(* fields and none before the first or after the last, numbers without       *)
(* leading zeros, nothing after the closing brace.                           *)
WellFormed == pc = "posted" => FoldLeft(Accept, "start", out) = "done"

Message == Lookup(request, EventType[1].key, "str")
Number == Lookup(request, EventType[2].key, "int")

(* What is posted is computed from the event that was sent, as verify.py     *)
(* expects it: the literal, the message and the doubled number (wrapped).    *)
(* A missing number is never answered; for a missing message the answer is   *)
(* an empty string, if the undefined length happens to be zero, and never    *)
(* other bytes of the process.                                               *)
AnswersFromEvent ==
    pc = "posted" =>
        /\ Number.found
        /\ json_get_str(out, ResponseType[1].key) = Found(Ok)
        /\ json_get_str(out, ResponseType[2].key) = (IF Message.found THEN Message ELSE Found(<<>>))
        /\ json_get_int(out, ResponseType[3].key) = Found(Wrap(2 * Number.val))

(* A complete event is answered: lambpie_handle ends the process only for a  *)
(* missing field or when the response is longer than its buffer.             *)
CompleteIsAnswered ==
    pc \in {"exit", "fault"} /\ Message.found /\ Number.found =>
        /\ pc = "fault"
        /\ LET size == Len(<<"{", "}">>) + Len(json_write_int(json_write_str(json_write_str(<<>>,
                           ResponseType[1].key, Ok), ResponseType[2].key, Message.val),
                           ResponseType[3].key, Wrap(2 * Number.val)))
           IN  size > response_cap

(* The comment in mapalloc() on the guard page: "PROT_NONE so overflows      *)
(* SIGSEGV loudly": a response longer than its buffer is never posted.        *)
OverflowIsLoud == pc = "posted" => Len(out) <= response_cap
=============================================================================
