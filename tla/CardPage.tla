------------------------------ MODULE CardPage ------------------------------
(***************************************************************************)
(* The card of an address as it is drawn (views.rs): the headline, the     *)
(* rows, the record of what is stored, the marks on characters that do not *)
(* show, the entries those marks open and the chips.                       *)
(***************************************************************************)
EXTENDS UriView

OneRun == {"irc", "ftp", "spotify"}

\* A character's entry; padding and registered pairs have ids of their own.
MarkId(c) == <<"u", c>>
VariantId(pair) == <<"v">> \o pair

\* What each piece's mark opens: a run is named by its first character.
Tell(p) ==
  CASE p.dress = "space"            -> {MarkId(" ")}
    [] p.dress = "padding"          -> {<<"pad">>}
    [] p.dress \in {"escape", "bad"} -> {MarkId(decode_chars(p.text)[1].c)}
    [] p.dress = "variant"          -> {VariantId(p.text)}
    [] OTHER                        -> {}
Tells(pieces) == UNION {Tell(pieces[k]) : k \in DOMAIN pieces}

\* The places of slice k where hidden characters may stand.
Value(view, values, k) == IF view.slices[k].role \in {"host", "port"} THEN <<>> ELSE values[k]
Drawn(view, values, keys, k) == keys[k] \o Value(view, values, k)
-----------------------------------------------------------------------------
(* cast_entries: one entry for each id, with its kind and how often it is met. *)
EntryKind(p, c) == CASE p.dress = "bad"    -> "hidden"  [] c = "fffd" -> "undecodable"
                     [] p.dress = "escape" -> "kept"    [] OTHER      -> p.dress

\* The ids a piece is noted under, once for each of its characters.
Noted(p) ==
  IF p.dress \in {"escape", "bad"}
  THEN LET chars == decode_chars(p.text) IN
       [i \in DOMAIN chars |-> [id |-> MarkId(chars[i].c), kind |-> EntryKind(p, chars[i].c)]]
  ELSE LET notes == {[id |-> id, kind |-> p.dress] : id \in Tell(p)} IN
       IF notes = {} THEN <<>>
       ELSE [i \in 1..(IF p.dress = "padding" THEN Len(p.text) ELSE 1) |-> CHOOSE n \in notes : TRUE]

Notes(pieces) == FlattenSeq([k \in DOMAIN pieces |-> Noted(pieces[k])])

\* The notes of one id, in the order they were taken.
Cast(notes) ==
  LET of(id) == {i \in DOMAIN notes : notes[i].id = id}
  IN  [id \in {notes[i].id : i \in DOMAIN notes} |->
         [kind |-> notes[Min(of(id))].kind, count |-> Cardinality(of(id))]]

\* Mutated: keys are not walked.
CastOfValues(view, values, keys) ==
  Cast(FlattenSeq([k \in DOMAIN values |-> Notes(Value(view, values, k))]))

cast_entries(view, values, keys) ==
  Cast(FlattenSeq([k \in DOMAIN values |-> Notes(Drawn(view, values, keys, k))]))
-----------------------------------------------------------------------------
(* What is drawn. *)
Drawing(view, Is(_), Draw(_)) ==
  FlattenSeq([k \in DOMAIN view.slices |-> IF Is(view.slices[k]) THEN Draw(k) ELSE <<>>])
All(s) == TRUE

Delim(text) == IF text = <<>> THEN <<>> ELSE <<Piece("delim", text)>>
Equals(s)   == IF s.equals THEN <<Piece("delim", <<"=">>)>> ELSE <<>>
PairPart(s, key, value) == Delim(s.delim) \o key \o Equals(s) \o value

\* url_line_parts: the line a web card and a History row draw.
LinePart(s, key, value) ==
  CASE s.role \in {"host", "user"} -> <<Piece("text", s.value)>>
    [] s.role = "port"             -> <<Piece("delim", <<":">>), Piece("text", s.value)>>
    [] s.role \in {"path", "opaque"} -> value
    [] OTHER -> PairPart(s, key, value)

url_line_parts(view, values, keys) ==
  <<Piece("text", view.prefix)>> \o Drawing(view, All, LAMBDA k : LinePart(view.slices[k], keys[k], values[k]))

\* one_run_body: the host and the path are drawn as they are stored.
RunPart(s, key, value) ==
  CASE s.role = "host" -> <<Piece("delim", <<"/", "/">>), Piece("domain", s.value)>>
    [] s.role = "port" -> <<Piece("delim", <<":">>), Piece("text", s.value)>>
    [] s.role = "path" -> <<Piece("text", s.value)>>
    [] OTHER -> PairPart(s, key, value)

\* A number is formatted by its country's plan: its piece stands for that.
headline(view, values, keys) ==
  CASE view.scheme \in WebSchemes -> url_line_parts(view, values, keys)
    [] view.scheme \in OneRun ->
         <<Piece("text", <<view.scheme, ":">>)>>
         \o Drawing(view, All, LAMBDA k : RunPart(view.slices[k], keys[k], values[k]))
    [] view.scheme \in {"magnet", "tel", "sms"} -> <<>>
    [] view.scheme = "mailto" -> Drawing(view, LAMBDA s : s.role = "recipient", LAMBDA k : values[k])
    [] OTHER -> values[1]

\* The rows of the other schemes, where there is something to act on.
has_rows(view, values) == /\ view.scheme \notin WebSchemes /\ fold_is_worth_it(view, values)
                          /\ \E k \in DOMAIN view.slices : is_row(view.slices[k])
slice_rows(view, values, keys) ==
  IF has_rows(view, values) THEN Drawing(view, is_row, LAMBDA k : Drawn(view, values, keys, k)) ELSE <<>>

has_cast(view, values) == view.scheme \in WebSchemes \/ has_rows(view, values)

\* The record: where the headline is a reading of what is stored.
Respaced(pieces) ==
  FlattenSeq([k \in DOMAIN pieces |-> IF pieces[k].dress = "space" THEN Spell(" ") ELSE pieces[k].text])

decoding_changed_more_than_spaces(view, values) ==
  \E k \in DOMAIN values : Respaced(values[k]) # view.slices[k].value

has_record(view, values) == IF view.scheme \in WebSchemes THEN decoding_changed_more_than_spaces(view, values)
                            ELSE view.scheme \notin OneRun

\* escape_runs: the stored value cut at the edges of its escapes.
escape_runs(value) ==
  LET from[i \in 1..Len(value) + 1] ==
        IF i > Len(value) THEN <<>>
        ELSE IF is_escape(value, i) THEN <<Piece("escape", SubSeq(value, i, i + 2))>> \o from[i + 3]
        ELSE <<Piece("text", <<value[i]>>)>> \o from[i + 1]
  IN  FoldLeft(push_merged, <<>>, from[1])

StoredPart(s) == Delim(s.delim) \o <<Piece("text", s.key)>> \o Equals(s) \o escape_runs(s.value)
stored_markup(view) == <<Piece("text", view.prefix)>> \o Drawing(view, All, LAMBDA k : StoredPart(view.slices[k]))

\* The ids a warning's chip steps through.
chip_ids(cast, hazard) ==
  CASE hazard = "hidden" -> {id \in DOMAIN cast : cast[id].kind = "hidden"}
    [] hazard = "padded" -> {id \in DOMAIN cast : cast[id].kind = "padding"}
    [] OTHER             -> {}
variant_ids(cast) == {id \in DOMAIN cast : cast[id].kind = "variant"}
=============================================================================
