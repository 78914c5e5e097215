----------------------------- MODULE PlainBody -----------------------------
(***************************************************************************)
(* The body of curl -d (web.rs): a content, bare or as a field, and after  *)
(* it any number of options, which are taken from the end.  Fields are     *)
(* written as curl --data-urlencode does.                                  *)
(***************************************************************************)
EXTENDS CreateInput

\* An escape is three characters here.  Values of options have no need of any.
Bytes == Chars \ {"%20", "%A0", "%ZW"}
Solid == Bytes \ (White \cup {"%", "&"})
Named == [name : {"ttl=", "uses="}, value : Seq(Solid)]

CONSTANTS Written,   \* the bytes that contents are written in
          Options    \* the options that are sent

ASSUME SentAssumption == Written \subseteq Bytes /\ Options \subseteq Named

VARIABLE given       \* a content and the options it is sent with

GivenInit == given = [content |-> <<>>, options |-> <<>>]
Write     == \E b \in Written : given' = [given EXCEPT !.content = Append(@, b)]
Add       == \E o \in Options : given' = [given EXCEPT !.options = Append(@, o)]
GivenSpec == GivenInit /\ [][Write \/ Add]_given
-----------------------------------------------------------------------------
Hex == {"2", "5", "6", "F"}
Byte(h, l) == CASE <<h, l>> = <<"2", "5">> -> "%" [] <<h, l>> = <<"2", "6">> -> "&"
                [] h = "F" -> "no UTF-8" [] OTHER -> "c"

\* One pass from the left, where an escape is `%` and `digits` more; a value that
\* decodes to no UTF-8 is handed back untouched.
Decode(v, digits) ==
  LET hex(i) == i + digits <= Len(v) /\ v[i] = "%" /\ {v[i + 1], v[i + 2]} \subseteq Hex
      out[i \in 1..Len(v) + 3] ==
        IF i > Len(v) THEN <<>>
        ELSE IF hex(i) THEN <<Byte(v[i + 1], v[i + 2])>> \o out[i + 3]
                       ELSE <<v[i]>> \o out[i + 1]
  IN  IF Has(out[1], {"no UTF-8"}) THEN v ELSE out[1]

\* Mutated: an escape that ends the value is not seen.
DecodeShort(v) == Decode(v, 3)

percent_decode(v) == Decode(v, 2)

Option(s) == LET t == trim_end(s)
                 a == SelectLastInSeq(t, LAMBDA c : c = "&")
             IN  [rest |-> SubSeq(t, 1, a - 1), last |-> SubSeq(t, a + 1, Len(t)), found |-> a > 0]

\* One turn of the loop: the last pair, if it is an option, leaves the body.
Taken(p, o) ==
  IF o.found /\ o.last # <<>> /\ Head(o.last) \in {"ttl=", "uses="} /\ ~ p.done
  THEN LET v == percent_decode(trim(Tail(o.last))) IN
       IF Head(o.last) = "ttl=" THEN [p EXCEPT !.rest = o.rest, !.ttl = <<v>>]
                                ELSE [p EXCEPT !.rest = o.rest, !.uses = <<v>>]
  ELSE [p EXCEPT !.done = TRUE]

TakeOption(p) == Taken(p, Option(p.rest))

\* A body that names its field is a form's, any other is the content.
PlainFields(p) ==
  LET named == p.rest # <<>> /\ Head(p.rest) = "url="
  IN  [content |-> IF named THEN percent_decode(Tail(p.rest)) ELSE p.rest, ttl |-> p.ttl, uses |-> p.uses]

parse_plain_body(body) ==
  LET turn[n \in 0..Len(body)] ==
        IF n = 0 THEN [rest |-> body, ttl |-> <<>>, uses |-> <<>>, done |-> FALSE] ELSE TakeOption(turn[n - 1])
  IN  PlainFields(turn[Len(body)])
-----------------------------------------------------------------------------
(* What curl sends: a body from a file may end in white space. *)
Urlencoded(c) ==
  FlattenSeq([i \in DOMAIN c |-> CASE c[i] = "%" -> <<"%", "2", "5">> [] c[i] = "&" -> <<"%", "2", "6">>
                                   [] OTHER -> <<c[i]>>])
Base(content, named) == IF named THEN <<"url=">> \o Urlencoded(content) ELSE content
Appended(options) == FlattenSeq([i \in DOMAIN options |-> <<"&", options[i].name>> \o options[i].value])

Sent(g, named, end) ==
  Base(g.content, named) \o Appended(g.options) \o (IF g.options = <<>> THEN <<>> ELSE end)

\* Without a name a body is a file's bytes, and what looks like a field or an option is one.
Clear(content, named) == named \/ ~ Has(content, {"url=", "ttl=", "uses="})

\* Of an option given twice the first counts.
Counts(options, name) ==
  LET places == {i \in DOMAIN options : options[i].name = name}
  IN  IF places = {} THEN <<>> ELSE <<options[Min(places)].value>>

Meant(g) == [content |-> g.content, ttl |-> Counts(g.options, "ttl="), uses |-> Counts(g.options, "uses=")]

(***************************************************************************)
(* A body gives back its content and the options appended to it, whatever  *)
(* bytes the content has: escapes, and options of its own if it came as an *)
(* encoded field.  A body without a field name is kept byte for byte.      *)
(***************************************************************************)
PlainBodyIsExact ==
  \A named \in BOOLEAN, end \in {<<>>, <<" ", "nl">>} :
    Clear(given.content, named) => parse_plain_body(Sent(given, named, end)) = Meant(given)
=============================================================================
