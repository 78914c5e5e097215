------------------------------- MODULE UriView -------------------------------
(***************************************************************************)
(* A stored address cut into verbatim slices, and each value read for      *)
(* display (urlview.rs).  An address is a sequence of characters: a        *)
(* scheme's name is one of them, "x" and "y" are letters that are no hex   *)
(* digits, "q" is punctuation without a part in an address, "nb" is a      *)
(* no-break space, "ct" a control character, "vs" the variation selector   *)
(* registered with the digits and with "#", "fffd" the replacement         *)
(* character.                                                              *)
(***************************************************************************)
EXTENDS Integers, Sequences, SequencesExt, FiniteSetsExt

WebSchemes  == {"http", "https"}
HostSchemes == WebSchemes \cup {"ftp", "irc"}
Handoff     == {"ftp", "irc", "mailto", "tel", "sms", "magnet", "xmpp", "spotify"}

FirstOf(s, chars) == Min({i \in DOMAIN s : s[i] \in chars} \cup {Len(s) + 1})
LastOf(s, chars)  == Max({i \in DOMAIN s : s[i] \in chars} \cup {0})
Before(s, chars)  == SubSeq(s, 1, FirstOf(s, chars) - 1)
Since(s, chars)   == SubSeq(s, FirstOf(s, chars), Len(s))
After(s, chars)   == SubSeq(s, FirstOf(s, chars) + 1, Len(s))

\* The pieces between the separators.
Split(s, c) ==
  LET cuts == <<0>> \o SelectSeq([i \in DOMAIN s |-> i], LAMBDA i : s[i] = c) \o <<Len(s) + 1>>
  IN  [k \in 1..Len(cuts) - 1 |-> SubSeq(s, cuts[k] + 1, cuts[k + 1] - 1)]

Slice(role, delim, value, removable) ==
  [role |-> role, delim |-> delim, keyed |-> FALSE, key |-> <<>>, equals |-> FALSE,
   value |-> value, removable |-> removable]

\* split_pair: the "=" is there or it is not.
Pair(role, delim, pair, removable) ==
  [Slice(role, delim, After(pair, {"="}), removable)
     EXCEPT !.keyed = TRUE, !.key = Before(pair, {"="}), !.equals = Contains(pair, "=")]

\* Slice::raw and UriView::raw.
raw(slice) == slice.delim \o slice.key \o (IF slice.equals THEN <<"=">> ELSE <<>>) \o slice.value
Raw(view)  == view.prefix \o FlattenSeq([k \in DOMAIN view.slices |-> raw(view.slices[k])])
-----------------------------------------------------------------------------
(* The slices. *)
Pairs(role, body, lead) ==
  LET parts == Split(body, "&")
  IN  [k \in DOMAIN parts |-> Pair(role, IF k = 1 THEN lead ELSE <<"&">>, parts[k], TRUE)]

query_slices(query) ==
  IF query = <<>> THEN <<>>
  ELSE Pairs("query", IF Head(query) = "?" THEN Tail(query) ELSE query, <<"?">>)

fragment_slices(fragment) ==
  IF fragment = <<>> THEN <<>>
  ELSE IF Contains(fragment, "=") THEN Pairs("fragment", Tail(fragment), <<"#">>)
  ELSE <<Slice("fragment", <<"#">>, Tail(fragment), TRUE)>>

\* Each segment parameter is a slice of its own; what is between is whole.
path_slices(path) ==
  LET segments == Split(path, "/")
      plain(st, text) == [st EXCEPT !.plain = @ \o text]
      flush(st) == IF st.plain = <<>> THEN st
                   ELSE [out |-> Append(st.out, Slice("path", <<>>, st.plain, FALSE)), plain |-> <<>>]
      param(st, p) == LET f == flush(st) IN
                      [f EXCEPT !.out = Append(@, Pair("pathparam", <<";">>, p, TRUE))]
      segment(st, k) ==
        LET bits == Split(segments[k], ";") IN
        FoldLeft(param, plain(st, (IF k > 1 THEN <<"/">> ELSE <<>>) \o bits[1]), Tail(bits))
  IN  flush(FoldLeftDomain(segment, [out |-> <<>>, plain |-> <<>>], segments)).out

Digits == {"0", "2", "3", "5"}

\* The authority: userinfo to its last "@", and a port of digits after the host.
authority_slices(authority) ==
  LET at   == LastOf(authority, {"@"})
      rest == SubSeq(authority, at + 1, Len(authority))
      colon == LastOf(rest, {":"})
      port == SubSeq(rest, colon + 1, Len(rest))
      ported == colon > Max({LastOf(rest, {"]"}), 1}) /\ port # <<>> /\ ToSet(port) \subseteq Digits
  IN  (IF at > 0 THEN <<Slice("user", <<>>, SubSeq(authority, 1, at), TRUE)>> ELSE <<>>)
      \o <<Slice("host", <<>>, IF ported THEN SubSeq(rest, 1, colon - 1) ELSE rest, FALSE)>>
      \o (IF ported THEN <<Slice("port", <<":">>, port, FALSE)>> ELSE <<>>)

\* stored.get(n..): nothing at all when the address is shorter than its prefix.
Beyond(stored, n) == SubSeq(stored, n + 1, Len(stored))

hierarchical(stored, scheme) ==
  LET prefix == <<scheme, ":", "/", "/">>
      rest   == Beyond(stored, 4)
      tail   == Since(rest, {"/", "?", "#"})
      before == Before(tail, {"#"})
  IN  [prefix |-> prefix,
       slices |-> authority_slices(Before(rest, {"/", "?", "#"}))
                  \o path_slices(Before(before, {"?"}))
                  \o query_slices(Since(before, {"?"}))
                  \o fragment_slices(Since(tail, {"#"}))]

recipient_slices(body) ==
  IF body = <<>> THEN <<>>
  ELSE LET each == Split(body, ",") IN
       [k \in DOMAIN each |-> Slice("recipient", IF k = 1 THEN <<>> ELSE <<",">>, each[k], TRUE)]

Addressed(rest) == recipient_slices(Before(rest, {"?"})) \o query_slices(Since(rest, {"?"}))

tel(rest) ==
  LET bits == Split(rest, ";")
  IN  <<Slice("opaque", <<>>, bits[1], FALSE)>>
      \o [k \in 1..Len(bits) - 1 |-> Pair("pathparam", <<";">>, bits[k + 1], FALSE)]

\* Only `xt` identifies the data.
magnet(rest) ==
  LET slices == query_slices(rest)
  IN  [k \in DOMAIN slices |-> [slices[k] EXCEPT !.removable = slices[k].key # <<"xt">>]]

opaque(rest) == <<Slice("opaque", <<>>, Before(rest, {"?"}), FALSE)>> \o query_slices(Since(rest, {"?"}))

Parsed(scheme, parts) == [scheme |-> scheme, prefix |-> parts.prefix, slices |-> parts.slices]

parse_uri(stored) ==
  LET scheme == Head(stored)
      rest   == Beyond(stored, 2)
  IN  Parsed(scheme,
        IF scheme \in HostSchemes THEN hierarchical(stored, scheme)
        ELSE [prefix |-> <<scheme, ":">>,
              slices |-> CASE scheme \in {"mailto", "sms"} -> Addressed(rest)
                           [] scheme = "tel"    -> tel(rest)
                           [] scheme = "magnet" -> magnet(rest)
                           [] OTHER             -> opaque(rest)])
-----------------------------------------------------------------------------
(* Reading a value: its characters, each with the escapes it came from. *)
HexDigits == {"0", "2", "3", "5", "6", "8", "A", "B", "C", "E", "F"}
Spell(c) == CASE c = "nb" -> <<"%", "C", "2", "%", "A", "0">>
              [] c = "vs" -> <<"%", "E", "F", "%", "B", "8", "%", "8", "F">>
              [] c = "ct" -> <<"%", "0", "2">> [] c = " " -> <<"%", "2", "0">>
              [] c = "%"  -> <<"%", "2", "5">> [] c = "&" -> <<"%", "2", "6">>
              [] c = "/" -> <<"%", "2", "F">>
              [] c = "#"  -> <<"%", "2", "3">> [] c = "?" -> <<"%", "3", "F">>
              [] c = "0"  -> <<"%", "3", "0">> [] c = "2" -> <<"%", "3", "2">>
              [] c = "5"  -> <<"%", "3", "5">> [] OTHER   -> <<"%", "A", "0">>
Encoded == {"nb", "vs", "ct", " ", "%", "&", "/", "#", "?", "0", "2", "5"}

\* A valid character is taken whole; a byte that starts none stands for itself.
is_escape(v, i) == /\ i + 2 <= Len(v) /\ v[i] = "%" /\ {v[i + 1], v[i + 2]} \subseteq HexDigits
Spelt(v, i) == {c \in Encoded : /\ i + Len(Spell(c)) - 1 <= Len(v)
                                /\ SubSeq(v, i, i + Len(Spell(c)) - 1) = Spell(c)}
\* An escape that spells none of Encoded: a control character, punctuation, a letter
\* (no hex digit, where the runs look), or a byte of no character.
Other(high) == CASE high = "0" -> "ct" [] high \in {"2", "3"} -> "q" [] high \in {"5", "6"} -> "x" [] OTHER -> "fffd"
Unescaped(v, i, spelt) ==
  IF spelt = {} THEN [c |-> Other(v[i + 1]), esc |-> SubSeq(v, i, i + 2)]
  ELSE LET c == CHOOSE c \in spelt : TRUE IN [c |-> c, esc |-> Spell(c)]

decode_chars(v) ==
  LET next(i) == IF is_escape(v, i) THEN Unescaped(v, i, Spelt(v, i)) ELSE [c |-> v[i], esc |-> <<>>]
      from[i \in 1..Len(v) + 1] ==
        IF i > Len(v) THEN <<>> ELSE <<next(i)>> \o from[i + Max({1, Len(next(i).esc)})]
  IN  from[1]

Invisibles == {"nb", "ct", "vs"}
completes_seq(prev, c) == c = "vs" /\ prev \in Digits \cup {"#"}
STRUCTURE == {"&", "=", "#", "%"}

Completes(chars, i) == i > 1 /\ completes_seq(chars[i - 1].c, chars[i].c)

\* A space beside another, or at an edge.  (A run of two or more has a neighbour each.)
padding_mask(chars) ==
  {i \in DOMAIN chars : chars[i].c = " " /\ \E j \in {i - 1, i + 1} : j \notin DOMAIN chars \/ chars[j].c = " "}

Piece(dress, text) == [dress |-> dress, text |-> text]
push_merged(out, p) ==
  IF out # <<>> /\ Last(out).dress = p.dress /\ p.dress \in {"text", "padding", "escape", "bad"}
  THEN Append(Front(out), Piece(p.dress, Last(out).text \o p.text)) ELSE Append(out, p)

\* The base leaves the text it ended; only plain text gives it up.
take_base(out, base) == out # <<>> /\ Last(out).dress = "text" /\ Last(Last(out).text) = base
WithoutBase(out) == IF Len(Last(out).text) = 1 THEN Front(out)
                    ELSE Append(Front(out), Piece("text", Front(Last(out).text)))

Shown(pieces) == FlattenSeq([k \in DOMAIN pieces |-> pieces[k].text])

\* One pass; `plain` says how a character that shows is drawn.
ReadWith(chars, plain(_, _)) ==
  FoldLeftDomain(LAMBDA out, i :
      LET c == chars[i].c  esc == chars[i].esc IN
      IF c = "fffd" THEN push_merged(out, Piece("escape", esc))
      ELSE IF Completes(chars, i) /\ take_base(out, chars[i - 1].c)
           THEN Append(WithoutBase(out), Piece("variant", <<chars[i - 1].c, c>>))
      ELSE IF c \in Invisibles THEN push_merged(out, Piece("bad", IF esc = <<>> THEN Spell(c) ELSE esc))
      ELSE push_merged(out, plain(c, i)),
    <<>>, chars)

Spaced(chars, c, i) ==
  IF i \in padding_mask(chars) THEN Piece("padding", <<c>>)
  ELSE IF c = " " /\ chars[i].esc # <<>> THEN Piece("space", <<c>>) ELSE Piece("text", <<c>>)

ReadValue(chars) ==
  ReadWith(chars, LAMBDA c, i :
    IF chars[i].esc # <<>> /\ c \in STRUCTURE THEN Piece("escape", chars[i].esc) ELSE Spaced(chars, c, i))

decode_for_reading(v) == ReadValue(decode_chars(v))

\* A whole address inside a value gets its structure back.
Letters_ == {"x", "y"} \cup WebSchemes

Place(auth, at) ==
  LET port == SubSeq(auth, at + 1, Len(auth)) IN
  IF at > 0 /\ port # <<>> /\ ToSet(port) \subseteq Digits
  THEN [host |-> SubSeq(auth, 1, at - 1), port |-> <<Piece("delim", <<":">>), Piece("text", port)>>]
  ELSE [host |-> auth, port |-> <<>>]

AddressPieces(scheme, place, tail) ==
  <<Piece("text", scheme), Piece("delim", <<":", "/", "/">>), Piece("domain", place.host)>> \o place.port
  \o FoldLeft(LAMBDA out, c : push_merged(out, Piece(IF c \in {"/", "?", "&", "=", "#"} THEN "delim" ELSE "text", <<c>>)),
              <<>>, tail)

uri_value_pieces(text) ==
  LET colon == FirstOf(text, {":"})
      rest  == SubSeq(text, colon + 3, Len(text))
      auth  == Before(rest, {"/", "?", "#", "&", "="})
      place == Place(auth, LastOf(auth, {":"}))
  IN  IF /\ 1 < colon /\ colon + 2 < Len(text) /\ text[1] \in Letters_
         /\ \A i \in 1..colon - 1 : text[i] \in Letters_ \cup Digits
         /\ SubSeq(text, colon, colon + 2) = <<":", "/", "/">> /\ place.host # <<>>
      THEN AddressPieces(SubSeq(text, 1, colon - 1), place, Since(rest, {"/", "?", "#", "&", "="}))
      ELSE <<>>

OrElse(some, other) == IF some # <<>> THEN some ELSE other

Structured(pieces, dresses) ==
  IF \A k \in DOMAIN pieces : pieces[k].dress \in dresses
  THEN OrElse(uri_value_pieces(Shown(pieces)), pieces) ELSE pieces

\* Mutated: the digits are looked for in storage, where an escape may spell them.
HexInStorage(chars, i) == /\ {i + 1, i + 2} \subseteq DOMAIN chars
                          /\ \A j \in {i + 1, i + 2} : chars[j].c \in HexDigits /\ chars[j].esc = <<>>

\* A "%" before two hex digits of the reading would spell a false escape.
hex_follows(chars, i) == /\ {i + 1, i + 2} \subseteq DOMAIN chars
                         /\ \A j \in {i + 1, i + 2} : chars[j].c \in HexDigits

ReadWeb(chars, in_path) ==
  ReadWith(chars, LAMBDA c, i :
    IF c = "%" /\ hex_follows(chars, i) THEN Piece("escape", Spell("%"))
    ELSE IF c = "#" /\ in_path THEN Piece("escape", IF chars[i].esc = <<>> THEN Spell(c) ELSE chars[i].esc)
    ELSE IF ~ in_path /\ c \in {"&", "=", "?", "#"} THEN Piece("delim", <<c>>)
    ELSE Spaced(chars, c, i))

\* A path keeps its own structure.
WebPieces(out, in_path) == IF in_path THEN out ELSE Structured(out, {"text", "delim"})

web_reading(v, in_path) == WebPieces(ReadWeb(decode_chars(v), in_path), in_path)

carries_an_address(pieces) ==
  LET text == Shown(pieces)
      solid == {i \in DOMAIN text : text[i] # " "}
      t == IF solid = {} THEN <<>> ELSE SubSeq(text, Min(solid), Max(solid))
  IN  Len(t) > 4 /\ t[1] \in WebSchemes /\ SubSeq(t, 2, 4) = <<":", "/", "/">> /\ t[5] \in Letters_ \cup Digits

needs_capsule(pieces) ==
  \/ \E k \in DOMAIN pieces : \/ pieces[k].dress = "domain"
                              \/ pieces[k].dress = "delim" /\ pieces[k].text \in {<<"&">>, <<"=">>, <<"?">>, <<"#">>}
  \/ carries_an_address(pieces)

\* A key shows as it is stored, but for what would not show.
KeyPieces(chars) ==
  FoldLeftDomain(LAMBDA out, i :
      LET c == chars[i].c
          hid == c \in Invisibles /\ ~ Completes(chars, i)
          text == IF chars[i].esc # <<>> THEN chars[i].esc ELSE IF hid THEN Spell(c) ELSE <<c>>
      IN  push_merged(out, Piece(IF hid THEN "bad" ELSE "text", text)),
    <<>>, chars)

key_reading(key) == KeyPieces(decode_chars(key))
-----------------------------------------------------------------------------
(* What each slice shows, and what the card warns of. *)
address_pieces(v) ==
  LET at == LastOf(v, {"@"}) IN
  IF at > 1 /\ at < Len(v)
  THEN <<Piece("local", SubSeq(v, 1, at - 1)), Piece("delim", <<"@">>), Piece("domain", SubSeq(v, at + 1, Len(v)))>>
  ELSE decode_for_reading(v)

display(view, slice) ==
  LET v == slice.value  each == Split(v, ",") IN
  IF slice.role \in {"user", "port", "host"} THEN <<Piece("text", v)>>
  ELSE IF view.scheme \in WebSchemes THEN web_reading(v, slice.role = "path")
  ELSE IF slice.role = "recipient" \/ (slice.role = "opaque" /\ view.scheme = "xmpp") THEN address_pieces(v)
  ELSE IF slice.role = "opaque" /\ view.scheme = "spotify" THEN <<Piece("text", v)>>
  ELSE IF slice.key \in {<<"to">>, <<"cc">>, <<"bcc">>} /\ view.scheme = "mailto" THEN
         FlattenSeq([k \in DOMAIN each |->
           (IF k > 1 THEN <<Piece("delim", <<",">>)>> ELSE <<>>) \o address_pieces(each[k])])
  ELSE IF slice.role = "query" THEN Structured(decode_for_reading(v), {"text"})
  ELSE decode_for_reading(v)

HasDress(pieces, dress) == \E k \in DOMAIN pieces : pieces[k].dress = dress

Hides(value, key) == HasDress(value, "bad") \/ HasDress(key, "bad")

\* The slices' values and keys as they are read: what follows is told from these.
Values(view) == [k \in DOMAIN view.slices |-> display(view, view.slices[k])]
Keys(view)   == [k \in DOMAIN view.slices |-> key_reading(view.slices[k].key)]

detect_hazards(view, values, keys) ==
  LET some(Is(_)) == \E k \in DOMAIN view.slices : Is(k) IN
  (IF view.scheme = "http" THEN {"not encrypted"} ELSE {})
  \cup (IF some(LAMBDA k : view.slices[k].role = "user") THEN {"username"} ELSE {})
  \cup (IF some(LAMBDA k : Hides(values[k], keys[k])) THEN {"hidden"} ELSE {})
  \cup (IF some(LAMBDA k : HasDress(values[k], "padding")) THEN {"padded"} ELSE {})
  \cup (IF some(LAMBDA k : view.slices[k].role = "query" /\ carries_an_address(values[k])) THEN {"carries"} ELSE {})

is_row(slice) == slice.role \notin {"host", "opaque"}
decoding_changed(view, values) == \E k \in DOMAIN values : Shown(values[k]) # view.slices[k].value
fold_is_worth_it(view, values) == \/ \E k \in DOMAIN view.slices : is_row(view.slices[k]) /\ view.slices[k].removable
                                  \/ decoding_changed(view, values)
=============================================================================
