----------------------------- MODULE HiddenText -----------------------------
(***************************************************************************)
(* How a text is read for characters that do not show: which are marked,   *)
(* which of those spelling puts there, which stay with an emoji, what the  *)
(* page's markup says of each, what Remove takes out, and the row History  *)
(* draws (views.rs, joining.rs, emoji.rs, variation.rs).  A text is a      *)
(* sequence of atoms, one for each class of characters the rules tell      *)
(* apart:                                                                  *)
(*   "a" a letter; "ar" a letter that joins on both sides and "al" one     *)
(*   that joins back only; "tm" a vowel sign over it; "ka" a letter and    *)
(*   "vi" the virama of one script; "zj" and "zn" the joiner and the       *)
(*   non-joiner; "em" an emoji, "st" a skin tone, "vs" the selector        *)
(*   registered with "em"; "fl" the black flag, "tag" and "ct" a tag and   *)
(*   the cancel tag; "zs" a zero-width space, "nb" a no-break space, "ls"  *)
(*   a line separator; "nl", "cr", "nul".                                  *)
(***************************************************************************)
EXTENDS Integers, Sequences, SequencesExt, FiniteSetsExt

CONSTANTS SNIPPET_LINES, DISPLAY_MAX_CHARS

\* The character before and after place i, and the nearest that is not skipped.
Prev(t, i) == IF i > 1 THEN t[i - 1] ELSE "none"
Next_(t, i) == IF i < Len(t) THEN t[i + 1] ELSE "none"
Back(t, i, skip) == LET at == {j \in 1..i - 1 : t[j] \notin skip} IN IF at = {} THEN "none" ELSE t[Max(at)]
Ahead(t, i, skip) == LET at == {j \in i + 1..Len(t) : t[j] \notin skip} IN IF at = {} THEN "none" ELSE t[Min(at)]
-----------------------------------------------------------------------------
(* joining.rs *)
Transparent == {"tm", "vi", "vs", "zs", "tag", "ct"}
joins_forward(c) == c = "ar"
joins_back(c)    == c \in {"ar", "al"}

spells(t, i) ==
  LET forward == joins_forward(Back(t, i, Transparent))
      back    == joins_back(Ahead(t, i, Transparent))
  IN  \/ t[i] \in {"zj", "zn"} /\ Prev(t, i) = "vi"
      \/ t[i] = "zn" /\ forward /\ back
      \/ t[i] = "zj" /\ Next_(t, i) = "vi" /\ Back(t, i, Transparent) = "ka"
      \/ t[i] = "zj" /\ forward # back

(* emoji.rs *)
Pictographic == {"em", "fl"}

in_emoji(t, i) ==
  CASE t[i] = "zj"  -> Back(t, i, {"vs", "st"}) \in Pictographic /\ Next_(t, i) \in Pictographic
    [] t[i] = "tag" -> Back(t, i, {"tag"}) = "fl" /\ Ahead(t, i, {"tag"}) = "ct"
    [] t[i] = "ct"  -> Back(t, i, {"tag"}) = "fl" /\ Prev(t, i) = "tag"
    [] OTHER        -> FALSE

(* variation.rs *)
completes(prev, c) == c = "vs" /\ prev = "em"
-----------------------------------------------------------------------------
(* views.rs: the reading of a text, and what it marks. *)
Invisible == {"zj", "zn", "zs", "nb", "ls", "vs", "tag", "ct", "nl", "cr", "nul"}
is_soft(c) == c = "nb"

uniform_crlf(t) == /\ \E i \in DOMAIN t : t[i] = "nl"
                   /\ \A i \in DOMAIN t : t[i] = "nl" => Prev(t, i) = "cr"

Reading(t, address) == [crlf |-> uniform_crlf(t), address |-> address]

\* Mutated: an address is read like a text.
MarkInWords(t, i, r) ==
  /\ t[i] \in Invisible \ {"nl"}
  /\ ~ (t[i] = "cr" /\ r.crlf /\ Next_(t, i) = "nl")
  /\ ~ completes(Prev(t, i), t[i])
  /\ ~ in_emoji(t, i)

text_mark(t, i, r) ==
  /\ t[i] \in Invisible \ {"nl"}
  /\ ~ (t[i] = "cr" /\ r.crlf /\ Next_(t, i) = "nl")
  /\ ~ completes(Prev(t, i), t[i])
  /\ r.address \/ ~ in_emoji(t, i)

spelled(t, i, r) == ~ r.address /\ spells(t, i)

\* An entry is named by its tier and its character.
Id(t, i, r) == <<IF spelled(t, i, r) THEN "w" ELSE "u", t[i]>>
VariantId(base, c) == <<"v", base, c>>

Marked(t, r)   == {i \in DOMAIN t : text_mark(t, i, r)}
Variants(t, r) == {i \in DOMAIN t \ Marked(t, r) : completes(Prev(t, i), t[i])}

\* text_cast: an entry for each id, with how often the text holds it.
text_cast(t, r) ==
  LET told == {<<i, Id(t, i, r)>> : i \in Marked(t, r)}
              \cup {<<i, VariantId(t[i - 1], t[i])>> : i \in Variants(t, r)}
  IN  [id \in {p[2] : p \in told} |-> Cardinality({p \in told : p[2] = id})]

hidden_counts(t, address) ==
  LET r     == Reading(t, address)
      loud  == {i \in Marked(t, r) : ~ spelled(t, i, r)}
      quiet == {i \in loud : is_soft(t[i])}
  IN  [hard |-> Cardinality(loud \ quiet), soft |-> Cardinality(quiet)]

without_hidden(t, address) ==
  LET r == Reading(t, address) IN
  FlattenSeq([i \in DOMAIN t |->
    IF is_soft(t[i]) \/ ~ text_mark(t, i, r) \/ spelled(t, i, r) THEN <<t[i]>>
    ELSE IF t[i] = "ls" THEN <<"nl">> ELSE <<>>])
-----------------------------------------------------------------------------
(***************************************************************************)
(* Graphemes, as the segmentation crate cuts them: marks, joiners, tags    *)
(* and skin tones stay with what is before them; a joiner holds two emoji, *)
(* a virama and a joiner two letters of its script.                        *)
(***************************************************************************)
Control == {"zs", "ls", "nl", "cr", "nul"}
Extend  == {"tm", "vi", "vs", "st", "tag", "ct", "zj", "zn"}

Holds(t, i) ==
  LET run(skip) == Back(t, i, skip) IN
  \/ t[i - 1] = "cr" /\ t[i] = "nl"
  \/ t[i - 1] \notin Control /\ t[i] \in Extend
  \/ t[i] \in Pictographic /\ t[i - 1] = "zj" /\ Back(t, i - 1, Extend \ {"zj", "zn"}) \in Pictographic
  \/ /\ t[i] = "ka" /\ run({"vi", "zj", "tm", "st", "vs", "tag", "ct"}) = "ka"
     /\ LET from == Max({j \in 1..i - 1 : t[j] = "ka"}) IN \E j \in from..i - 1 : t[j] = "vi"

Starts(t) == {i \in DOMAIN t : i = 1 \/ ~ Holds(t, i)}
Graphemes(t) ==
  {[from |-> i, to |-> Min({j \in Starts(t) : j > i} \cup {Len(t) + 1})] : i \in Starts(t)}

\* Those that hold a mark with something drawn after it.
mark_clusters(t, r) ==
  {g \in Graphemes(t) :
     LET marks == {i \in g.from..g.to - 1 : text_mark(t, i, r)} IN
     /\ marks # {} /\ Max(marks) < g.to - 1
     /\ \A i \in g.from..g.to - 1 : t[i] # "cr"}
-----------------------------------------------------------------------------
(* marked_text: pieces of the page, each a slice of the text in its dress. *)
Raw(t, from, to) == IF from < to THEN <<[dress |-> "none", text |-> SubSeq(t, from, to - 1)]>> ELSE <<>>

\* A NUL cannot travel: its mark is empty and names the code point.
Unsent(t, from, to) == to = from + 1 /\ t[from] = "nul"

Labelled(dress, t, from, to, ids, first) ==
  LET red == SelectSeq(ids, LAMBDA id : id[1] = "u")
      nul == Unsent(t, from, to)
  IN  <<[dress |-> dress, text |-> IF nul THEN <<>> ELSE SubSeq(t, from, to - 1), inner |-> ids,
         tell |-> IF red # <<>> THEN red[1] ELSE ids[1], label |-> first, cp |-> nul]>>

Span(dress, t, from, to, r, first) ==
  LET at == SelectSeq([k \in 1..to - from |-> from + k - 1], LAMBDA i : text_mark(t, i, r))
  IN  Labelled(dress, t, from, to, [k \in DOMAIN at |-> Id(t, at[k], r)], first)

\* Where place i falls in the page's text, in the units a script counts by.
Units(c) == CASE c = "nul" -> 0 [] c \in {"em", "st", "fl", "tag", "ct"} -> 2 [] OTHER -> 1
Dom(t, i) == FoldLeft(LAMBDA n, c : n + Units(c), 0, SubSeq(t, 1, i - 1))

Listing(st, t, from, to, id) ==
  [st EXCEPT !.listed = Append(@, [from |-> Dom(t, from), to |-> Dom(t, to), id |-> id]), !.run_end = 0]

Emit(st, t, upto, piece, next) ==
  [st EXCEPT !.out = @ \o Raw(t, st.start, upto) \o piece, !.start = next]

\* A grapheme with a mark inside is one span; words that only spell are listed.
VisitCluster(st, t, g, quiet, words, span) ==
  LET done == [st EXCEPT !.skip = g.to, !.prev = 0, !.run_end = 0]
  IN  IF quiet /\ words = "Listed" THEN Listing(done, t, g.from, g.to, span[1].tell)
      ELSE Emit(done, t, g.from, span, g.to)

Cluster(st, t, g, r, words) ==
  LET quiet == \A j \in g.from..g.to - 1 : text_mark(t, j, r) => spelled(t, j, r)
  IN  VisitCluster(st, t, g, quiet, words,
                   Span(IF quiet THEN "cluster word" ELSE "cluster", t, g.from, g.to, r, TRUE))

VisitAt(st, t, i, r, words, clusters) ==
  LET word == spelled(t, i, r)
      seen == [st EXCEPT !.prev = i]
  IN
  IF i < st.skip THEN st
  ELSE IF clusters # {} THEN Cluster(st, t, CHOOSE g \in clusters : TRUE, r, words)
  ELSE IF st.prev >= st.start /\ st.prev > 0 /\ completes(t[st.prev], t[i]) THEN
    [Emit(st, t, st.prev, <<[dress |-> "var", text |-> SubSeq(t, st.prev, i), tell |-> VariantId(t[st.prev], t[i])]>>, i + 1)
       EXCEPT !.prev = 0]
  ELSE IF ~ text_mark(t, i, r) THEN
    IF t[i] = "cr" THEN Emit(seen, t, i, Raw(t, i, i + 1), i + 1) ELSE seen
  ELSE IF word /\ words = "Listed" THEN Listing(seen, t, i, i + 1, Id(t, i, r))
  ELSE [Emit(seen, t, i, Span(IF word THEN "word" ELSE "mark", t, i, i + 1, r, word \/ i # st.run_end), i + 1)
          EXCEPT !.run_end = IF word THEN 0 ELSE i + 1]

Visit(st, t, i, r, words) == VisitAt(st, t, i, r, words, {g \in mark_clusters(t, r) : g.from = i})

Closed(end, t) == [html |-> end.out \o Raw(t, end.start, Len(t) + 1), words |-> end.listed]

Opening == [out |-> <<>>, start |-> 1, prev |-> 0, run_end |-> 0, skip |-> 0, listed |-> <<>>]

marked_text(t, r, words) ==
  Closed(FoldLeftDomain(LAMBDA st, i : Visit(st, t, i, r, words), Opening, t), t)
-----------------------------------------------------------------------------
(* History: the snippet, and the page's own markup read back into a tree. *)
White == {"nl", "cr", "nb", "ls"}
Solid(t) == {i \in DOMAIN t : t[i] \notin White}
trim(t) == IF Solid(t) = {} THEN <<>> ELSE SubSeq(t, Min(Solid(t)), Max(Solid(t)))

history_snippet(t) ==
  LET s     == trim(t)
      line(i) == Cardinality({j \in 1..i - 1 : s[j] = "nl"})
      kept  == {i \in DOMAIN s : /\ line(i) < SNIPPET_LINES
                                 /\ ~ (s[i] = "nl" /\ line(i) = SNIPPET_LINES - 1)
                                 /\ ~ (s[i] = "cr" /\ (i = Len(s) \/ s[i + 1] = "nl"))}
      lines == FlattenSeq([i \in DOMAIN s |-> IF i \in kept THEN <<s[i]>> ELSE <<>>])
  IN  SubSeq(lines, 1, Min({Len(lines), DISPLAY_MAX_CHARS}))

\* maud's escapes and their undoing: "&" and the names after it are atoms here.
Names == <<<<"#13;", "cr">>, <<"lt;", "<">>, <<"gt;", ">">>, <<"quot;", "\"">>, <<"amp;", "&">>>>
Escaped(t) == FlattenSeq([i \in DOMAIN t |->
  LET n == SelectSeq(Names, LAMBDA p : p[2] = t[i]) IN IF n = <<>> THEN <<t[i]>> ELSE <<"&", n[1][1]>>])

Replace(s, name, c) == FlattenSeq([i \in DOMAIN s |->
  IF s[i] = "&" /\ Next_(s, i) = name THEN <<c>> ELSE IF s[i] = name /\ Prev(s, i) = "&" THEN <<>> ELSE <<s[i]>>])

\* Mutated: the ampersand comes back first.
AmpFirst(s) == FoldLeft(LAMBDA u, p : Replace(u, p[1], p[2]), s, Reverse(Names))

unescape_html(s) == FoldLeft(LAMBDA u, p : Replace(u, p[1], p[2]), s, Names)

\* A node for each span that is kept, plain text for the rest, until the budget is spent.
markup_tree(html, budget) ==
  FoldLeft(LAMBDA st, p :
      IF st.left = 0 THEN st
      ELSE LET whole == unescape_html(Escaped(p.text))
               text  == SubSeq(whole, 1, Min({st.left, Len(whole)})) IN
           [left |-> st.left - Len(text),
            out  |-> Append(st.out, IF p.dress \in {"none", "var"} THEN [text |-> text]
                                    ELSE [text |-> text, tell |-> p.tell, inner |-> p.inner, cp |-> p.cp])],
    [left |-> budget, out |-> <<>>], html).out

text_display(t, whole) ==
  LET s    == IF whole THEN t ELSE history_snippet(t)
      r    == Reading(s, FALSE)
      cast == {id \in DOMAIN text_cast(s, r) : id[1] # "v"}
  IN  IF cast = {} THEN <<>>
      ELSE <<[tree |-> markup_tree(marked_text(s, r, "Wrapped").html, Len(s)), cast |-> cast]>>
=============================================================================
