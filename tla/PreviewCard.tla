----------------------------- MODULE PreviewCard -----------------------------
(***************************************************************************)
(* The preview's card as an editor (preview.js, with the model the page    *)
(* hands it): the reader unticks parts of the address, and the button, its *)
(* label and the line "After Your Edits" follow.                           *)
(***************************************************************************)
EXTENDS UriView

CONSTANT Stored   \* the addresses a link may hold

VARIABLES
  stored, model,            \* the link's address, and the parts the page hands the script
  off, locked,              \* parts unticked, and a last number that cannot be
  href, label, line         \* the button, its words, and whether the edited line shows

card_vars == <<stored, model, off, locked, href, label, line>>

View  == model
Parts == model.slices

\* The page carries the model where there is something to act on.
HasModel ==
  IF View.scheme \in WebSchemes THEN \E k \in DOMAIN Parts : Parts[k].removable
  ELSE (\E k \in DOMAIN Parts : is_row(Parts[k])) /\ fold_is_worth_it(View, Values(View))

\* Numbers keep one recipient (RFC 5724); an address list may lose them all.
Floor == View.scheme = "sms"
-----------------------------------------------------------------------------
\* Mutated: each part keeps the delimiter it was cut with.
build_verbatim(kept) ==
  View.prefix \o FlattenSeq([k \in DOMAIN Parts |-> IF k \in kept THEN raw(Parts[k]) ELSE <<>>])

\* build: the first of its kind that is left brings the leading delimiter.
build(kept) ==
  LET lead == [recipient |-> <<>>, query |-> <<"?">>, fragment |-> <<"#">>]
      join == [recipient |-> <<",">>, query |-> <<"&">>, fragment |-> <<"&">>]
      first(k) == \A j \in 1..k - 1 : j \in kept => Parts[j].role # Parts[k].role
      delim(k) == IF Parts[k].role \notin DOMAIN lead THEN Parts[k].delim
                  ELSE IF first(k) THEN lead[Parts[k].role] ELSE join[Parts[k].role]
  IN  View.prefix \o FlattenSeq([k \in DOMAIN Parts |->
        IF k \in kept THEN raw([Parts[k] EXCEPT !.delim = delim(k)]) ELSE <<>>])

\* applyFloor: the last recipient standing cannot be unticked.
apply_floor(out) ==
  LET left == {k \in DOMAIN Parts : Parts[k].role = "recipient" /\ k \notin out}
  IN  IF Floor /\ Cardinality(left) = 1 THEN left ELSE {}
-----------------------------------------------------------------------------
(* What the button says: the server's words and the script's. *)
Says(lead, of) == [lead |-> lead, of |-> of]

Keyed(slices, keys) == SelectSeq(slices, LAMBDA s : s.role = "query" /\ s.key \in keys)
Recipients(slices)  == SelectSeq(slices, LAMBDA s : s.role = "recipient")

Mailing(to, copies) ==
  LET n == Len(to) + Len(copies) IN
  CASE n = 0 -> Says("draft", <<>>)
    [] n = 1 -> Says("write to", Head(to \o copies).value)
    [] OTHER -> Says("write to addresses", n)

Messaging(to) == IF Len(to) = 1 THEN Says("message", to[1].value) ELSE Says("message numbers", Len(to))
Chatting(room) == Says(IF room # <<>> THEN "a chat room" ELSE "a chat address", <<>>)

\* action (views.rs)
action(view) ==
  LET to == Recipients(view.slices)  cc == Keyed(view.slices, {<<"cc">>}) IN
  CASE view.scheme = "mailto" -> Mailing(to, SubSeq(cc, 1, Min({1, Len(cc)})))
    [] view.scheme = "sms"    -> IF to = <<>> THEN Says("message", <<>>) ELSE Messaging(to)
    [] view.scheme = "xmpp"   -> Chatting(Keyed(view.slices, {<<"join">>}))
    [] OTHER                  -> Says("open", <<>>)

\* Mutated: the label stays what the server wrote.
RelabelStored(kept) == action(View)

\* relabelAction (preview.js)
relabel(kept) ==
  LET live == SelectSeq([k \in DOMAIN Parts |-> [n |-> k, part |-> Parts[k]]], LAMBDA p : p.n \in kept)
      parts == [k \in DOMAIN live |-> live[k].part]
  IN  CASE View.scheme = "mailto" -> Mailing(Recipients(parts), Keyed(parts, {<<"cc">>, <<"bcc">>}))
        [] View.scheme = "sms"    -> Messaging(Recipients(parts))
        [] View.scheme = "xmpp"   -> Chatting(Keyed(parts, {<<"join">>}))
        [] OTHER                  -> Says("open", <<>>)
-----------------------------------------------------------------------------
(* The page as it loads, and a click on a part. *)
Shows(out) ==
  LET kept == DOMAIN Parts \ out IN
  [locked |-> apply_floor(out), href |-> build(kept), label |-> relabel(kept), line |-> build(kept) # Raw(View)]

Plain == [locked |-> {}, href |-> stored, label |-> action(View), line |-> FALSE]

Loads(now) == locked = now.locked /\ href = now.href /\ label = now.label /\ line = now.line

CardInit ==
  /\ stored \in Stored /\ model = parse_uri(stored) /\ off = {}
  /\ Loads(IF HasModel THEN Shows({}) ELSE Plain)

Turns(now) == locked' = now.locked /\ href' = now.href /\ label' = now.label /\ line' = now.line

\* A box or a part of the headline, struck or restored.
Toggle(k) ==
  /\ HasModel /\ Parts[k].removable /\ k \notin locked
  /\ off' = IF k \in off THEN off \ {k} ELSE off \cup {k}
  /\ Turns(Shows(off'))
  /\ UNCHANGED <<stored, model>>

CardNext == \E k \in DOMAIN Parts : Toggle(k)

CardSpec == CardInit /\ [][CardNext]_card_vars
=============================================================================
