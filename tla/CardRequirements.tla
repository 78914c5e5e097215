-------------------------- MODULE CardRequirements --------------------------
(***************************************************************************)
(* What a reader may rely on of a preview: that editing only removes, that *)
(* the two programs that label the button agree, and that what is read on  *)
(* screen is what is stored.                                               *)
(***************************************************************************)
EXTENDS PreviewCard, CardPage

\* An address in the shape its scheme is written in, with no empty recipient.
WellFormed ==
  /\ View.scheme \in HostSchemes => Len(stored) > 4 /\ SubSeq(stored, 3, 4) = <<"/", "/">>
  /\ View.scheme = "magnet" => Len(stored) > 2 /\ stored[3] = "?"
  /\ \A k \in DOMAIN Parts : Parts[k].role = "recipient" => Parts[k].value # <<>>

\* An address told apart without its slices: where it goes, and what it carries.
Told(view) ==
  LET of(role) == SelectSeq(view.slices, LAMBDA s : s.role = role)
      spelled(role) == FlattenSeq([k \in DOMAIN of(role) |-> of(role)[k].value])
      keys(role) == [k \in DOMAIN of(role) |-> <<of(role)[k].key, of(role)[k].equals, of(role)[k].value>>]
  IN  [place |-> <<view.prefix, spelled("host"), spelled("port"), spelled("path"), spelled("opaque")>>,
       user |-> spelled("user"), params |-> keys("pathparam"), queries |-> keys("query"),
       fragment |-> Tail(<<"">> \o FlattenSeq([k \in DOMAIN of("fragment") |->
                          (IF k > 1 THEN <<"&">> ELSE <<>>) \o Tail(raw(of("fragment")[k]))])),
       recipients |-> keys("recipient")]

Left(out) == [View EXCEPT !.slices =
  FlattenSeq([k \in DOMAIN Parts |-> IF k \in out THEN <<>> ELSE <<Parts[k]>>])]

(***************************************************************************)
(* Whatever is unticked, in whatever order: the button carries an address  *)
(* that, read afresh, goes to the same host, port and path and holds just  *)
(* the parts still ticked, in their order; a message to a number keeps a   *)
(* number; with all ticked the button carries the stored string and the    *)
(* line "After Your Edits" is there only when it does not.                 *)
(***************************************************************************)
OnlyTicked(now) == /\ Told(now) = Told(Left(off))
                   /\ Floor /\ Recipients(Parts) # <<>> => Recipients(now.slices) # <<>>

EditOnlyRemoves ==
  WellFormed =>
    /\ OnlyTicked(parse_uri(href))
    /\ line <=> href # stored
    /\ off = {} => href = stored

(***************************************************************************)
(* The script's words for the button are the server's for the same         *)
(* address, so that the page does not change as it loads and says of an    *)
(* edited link what it would say of that link.  They part over blind       *)
(* copies, a second cc and a message to no number.                         *)
(***************************************************************************)
Differing ==
  \/ View.scheme = "mailto" /\ \/ Keyed(Parts, {<<"bcc">>}) # <<>>
                               \/ Len(Keyed(Parts, {<<"cc">>})) > 1
  \/ View.scheme = "sms" /\ Recipients(Parts) = <<>>

LabelsAgree == WellFormed /\ ~ Differing => label = action(parse_uri(href))

Decoded(v) == LET chars == decode_chars(v) IN [i \in DOMAIN chars |-> chars[i].c]

(***************************************************************************)
(* A web address's value on screen decodes to the characters stored, so    *)
(* that "%" and two hex digits are an escape wherever they show; nothing   *)
(* hidden is drawn bare but a selector on the character it was registered  *)
(* with; and a value that shows "&", "=", "?" or "#" of its own is fenced. *)
(***************************************************************************)
RealPieces(v, in_path, pieces) ==
  LET shown == Shown(pieces) IN
  /\ Decoded(shown) = Decoded(v)
  /\ \A i \in DOMAIN shown : shown[i] \in Invisibles => i > 1 /\ completes_seq(shown[i - 1], shown[i])
  /\ \A k \in DOMAIN pieces : pieces[k].dress # "escape" /\ ToSet(pieces[k].text) \cap {"&", "=", "?", "#"} # {} =>
        in_path \/ needs_capsule(pieces)
  /\ in_path => ~ Contains(shown, "#")

ReadingIsReal(v, in_path) == RealPieces(v, in_path, web_reading(v, in_path))

\* Characters of a slice that would not show where it is drawn decoded.
Hidden(chars) == {i \in DOMAIN chars : chars[i].c \in Invisibles /\ ~ Completes(chars, i)}
ReadBare(view, slice) ==
  \/ slice.role \in {"user", "host", "port"}
  \/ slice.role = "opaque" /\ view.scheme \in {"xmpp", "spotify"}
  \/ Contains(slice.value, "@") /\ (slice.role = "recipient" \/ slice.key \in {<<"to">>, <<"cc">>, <<"bcc">>})

(***************************************************************************)
(* Wherever an address hides a character, in a value or in a key, raw or   *)
(* escaped, the card warns of it, and warns only then or where a selector  *)
(* stands on a character kept escaped.  Parts drawn as they are stored,    *)
(* with their escapes, are left out: userinfo, mail addresses and bodies   *)
(* that have no query.                                                     *)
(***************************************************************************)
Flagged(view, warned) ==
  LET hides(s) == Hidden(decode_chars(s.value)) # {} \/ Hidden(decode_chars(s.key)) # {}
      some == \E k \in DOMAIN view.slices : ~ ReadBare(view, view.slices[k]) /\ hides(view.slices[k])
      all  == \E k \in DOMAIN view.slices : \/ hides(view.slices[k])
                                            \/ Contains(Decoded(view.slices[k].value), "vs")
  IN  /\ some => warned
      /\ warned => all

FlaggedOn(view) == Flagged(view, "hidden" \in detect_hazards(view, Values(view), Keys(view)))
HiddenIsFlagged(address) == FlaggedOn(parse_uri(address))

(***************************************************************************)
(* Where the card lists its marked characters, each mark in the headline   *)
(* or a row opens an entry of the list; an entry counts every place where  *)
(* its character hides, keys included; and a warning of hidden characters  *)
(* or of padding steps through entries, and is there when there are some.  *)
(***************************************************************************)
HiddenAs(chars, c) == Cardinality({i \in Hidden(chars) : chars[i].c = c})

Answered(view, values, keys, cast, warned) ==
  LET met(s, c) == HiddenAs(decode_chars(s.value), c) + HiddenAs(decode_chars(s.key), c)
  IN  has_cast(view, values) =>
        /\ Tells(headline(view, values, keys)) \cup Tells(slice_rows(view, values, keys)) \subseteq DOMAIN cast
        /\ \A h \in {"hidden", "padded"} : h \in warned <=> chip_ids(cast, h) # {}
        /\ \A c \in {"nb", "ct"} :
             LET n == MapThenSumSet(LAMBDA k : met(view.slices[k], c),
                                    {k \in DOMAIN view.slices : ~ ReadBare(view, view.slices[k])})
             IN  IF n = 0 THEN MarkId(c) \notin DOMAIN cast
                 ELSE MarkId(c) \in DOMAIN cast /\ cast[MarkId(c)].count = n

AnsweredBy(view, values, keys) ==
  Answered(view, values, keys, cast_entries(view, values, keys), detect_hazards(view, values, keys))
AnsweredOn(view) == AnsweredBy(view, Values(view), Keys(view))
MarksAnswer(address) == AnsweredOn(parse_uri(address))

(***************************************************************************)
(* Every character of the stored address is on the card: in the record     *)
(* where there is one, and in a headline whose dotted spaces stand for     *)
(* "%20" where there is none.  An address that is one run with a username  *)
(* or a query that reads differently is drawn out of order or decoded; and *)
(* a key with a raw hidden character, which no create stores, has it shown *)
(* as an escape.                                                           *)
(***************************************************************************)
OutOfOrder(view, values) == /\ view.scheme \in OneRun
                            /\ \E k \in DOMAIN values : \/ view.slices[k].role = "user"
                                                       \/ Shown(values[k]) # view.slices[k].value

SeenWhole(view, values, keys, address) ==
  /\ Raw(view) = address /\ ~ OutOfOrder(view, values)
  /\ \A k \in DOMAIN view.slices : ToSet(view.slices[k].key) \cap Invisibles = {}
  =>
    IF has_record(view, values) THEN Shown(stored_markup(view)) = address
    ELSE Respaced(headline(view, values, keys)) = address

SeenOn(view, address) == SeenWhole(view, Values(view), Keys(view), address)
NothingUnseen(address) == SeenOn(parse_uri(address), address)
=============================================================================
