-------------------------- MODULE TextRequirements --------------------------
(* What a reader may rely on of a text's marks, its row and its Remove. *)
EXTENDS HiddenText

Restored(p) == IF "cp" \in DOMAIN p /\ p.cp THEN <<"nul">> ELSE p.text
Spelling(pieces) == FlattenSeq([k \in DOMAIN pieces |-> Restored(pieces[k])])

\* A parser's text of a piece: a carriage return survives alone (`&#13;`), a NUL nowhere.
Parsed(text) == IF text = <<"cr">> THEN text ELSE
  [i \in DOMAIN text |-> CASE text[i] = "cr" -> "nl" [] text[i] = "nul" -> "fffd" [] OTHER -> text[i]]
Copied(html) == Spelling([k \in DOMAIN html |-> [html[k] EXCEPT !.text = Parsed(@)]])

Spans(pieces) == SelectSeq(pieces, LAMBDA p : "inner" \in DOMAIN p)
Told(pieces) == FlattenSeq([k \in DOMAIN Spans(pieces) |-> Spans(pieces)[k].inner])
Occurs(s, x) == Cardinality({k \in DOMAIN s : s[k] = x})

\* The page's text in the units a script counts by, a NUL's mark being empty.
InUnits(t) == FlattenSeq([i \in DOMAIN t |-> [k \in 1..Units(t[i]) |-> t[i]]])

(***************************************************************************)
(* The marked page holds every character of the text once and in order,    *)
(* so that a copy is what is stored; each marked character is told of by   *)
(* one span, whose entry counts it, and no entry is left without a mark;   *)
(* and a joiner left as plain text is where the page's list says, in the   *)
(* units a script counts by, with NULs and emoji before it.                *)
(***************************************************************************)
PageTold(t, r, page, cast) ==
  LET told == Told(page.html)
      list == {page.words[k] : k \in DOMAIN page.words}
  IN
  /\ Copied(page.html) = t
  /\ \A id \in DOMAIN cast : id[1] = "u" => Occurs(told, id) = cast[id]
  /\ \A k \in DOMAIN told : told[k] \in DOMAIN cast
  /\ \A l \in list :
       /\ l.id \in DOMAIN cast
       /\ \E g \in mark_clusters(t, r) \cup {[from |-> i, to |-> i + 1] : i \in DOMAIN t} :
            /\ l.id[2] \in ToSet(SubSeq(t, g.from, g.to - 1))
            /\ l.to <= Len(InUnits(t))
            /\ SubSeq(InUnits(t), l.from + 1, l.to) = InUnits(SubSeq(t, g.from, g.to - 1))
  /\ Cardinality(list) = Len(page.words)
  /\ (DOMAIN cast = {}) => Len(page.html) <= 1 + Cardinality({i \in DOMAIN t : t[i] = "cr"}) * 2

PageTellsAll(t, address) ==
  LET r == Reading(t, address) IN PageTold(t, r, marked_text(t, r, "Listed"), text_cast(t, r))

(***************************************************************************)
(* After Remove no address holds a hidden character, but for a selector    *)
(* that draws; a text keeps every joiner of an emoji and of a word where   *)
(* it was and loses the others.  Nothing that stays is hidden then, unless *)
(* a joiner that goes stood beside one that stays: between two letters     *)
(* that join anyway, the one that stayed now says nothing.                 *)
(***************************************************************************)
Stays(t, i, r) == spelled(t, i, r) \/ (~ r.address /\ in_emoji(t, i)) \/ completes(Prev(t, i), t[i])
Joiners == {"zj", "zn"}
Crowded(t, r) == \E i \in DOMAIN t, j \in DOMAIN t :
  /\ {t[i], t[j]} \subseteq Joiners /\ spelled(t, i, r) /\ ~ Stays(t, j, r)
  /\ \A k \in (i + 1..j - 1) \cup (j + 1..i - 1) : t[k] \in Transparent \cup Joiners

RemoveIsThorough(t, address) ==
  LET r    == Reading(t, address)
      left == without_hidden(t, address)
  IN
  /\ address => ToSet(left) \cap Invisible \subseteq {"nb", "nl", "vs"}
  /\ \A c \in Invisible \ {"nb", "nl", "cr"} :
       Occurs(left, c) = Cardinality({i \in DOMAIN t : t[i] = c /\ Stays(t, i, r)})
  /\ hidden_counts(left, address).hard = 0 \/ Crowded(t, r)

(***************************************************************************)
(* A History row spells the opening of the text, escapes and all; each of  *)
(* its marks opens an entry the row carries, and each entry has a mark.    *)
(***************************************************************************)
RowTellsAll(t, whole) ==
  LET s == IF whole THEN t ELSE history_snippet(t)
      d == text_display(t, whole)
  IN  IF d = <<>> THEN Marked(s, Reading(s, FALSE)) = {}
      ELSE LET told == Told(d[1].tree) IN
           /\ Spelling(d[1].tree) = s
           /\ ToSet(told) = d[1].cast
           /\ whole \/ Len(s) <= DISPLAY_MAX_CHARS
=============================================================================
