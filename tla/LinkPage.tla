------------------------------ MODULE LinkPage ------------------------------
(***************************************************************************)
(* What each page and picture of a link gives away (views.rs, web.rs): the *)
(* title, the tags a chat server unfurls, the share card and the body, for *)
(* a visitor who has spent nothing and for the one who revealed the link.  *)
(* The title decides by the words it can read in the name's casing.  A     *)
(* name is a sequence of characters "a", "A" and "-".                      *)
(***************************************************************************)
EXTENDS Integers, Sequences, SequencesExt

CONSTANTS LIMITED_WORDS,
          NameWords        \* the words names are made of

\* A word is of small letters, with hyphens inside only (words.rs).
ASSUME NameWordsAssumption ==
  /\ LIMITED_WORDS \in Nat
  /\ \A w \in NameWords : w \in Seq({"a", "-"}) /\ w # <<>> /\ w[1] = "a" /\ w[Len(w)] = "a"

VARIABLE picked    \* the words picked for a name so far

PickInit == picked = <<>>
Pick == \E w \in NameWords : picked' = Append(picked, w)
PickSpec == PickInit /\ [][Pick]_picked

\* alternating_case: the first word in small letters, the next in capitals.
Upper(word) == [i \in DOMAIN word |-> IF word[i] = "a" THEN "A" ELSE word[i]]
Cased(words) == [k \in DOMAIN words |-> IF k % 2 = 1 THEN words[k] ELSE Upper(words[k])]
alternating_case(words) == FlattenSeq(Cased(words))

\* name_words: a word ends where the case of two letters differs.
name_words(chars) ==
  LET read[i \in 0..Len(chars)] ==
        IF i = 0 THEN <<>>
        ELSE LET out == read[i - 1] IN
             IF i > 1 /\ {chars[i - 1], chars[i]} # {"a", "A"}
             THEN Append(Front(out), Append(Last(out), chars[i]))
             ELSE Append(out, <<chars[i]>>)
  IN  read[Len(chars)]

\* highlight_name: two halves, each word in one of two colours.
highlight_name(chars) ==
  LET words == name_words(chars)
      split == (Len(words) + 1) \div 2
  IN  <<[i \in 1..split |-> [word |-> words[i], colour |-> (i - 1) % 2]],
        [i \in 1..Len(words) - split |-> [word |-> words[split + i], colour |-> (split + i - 1) % 2]]>>

is_plausible_name(chars) == chars # <<>> /\ Head(chars) # "-" /\ Last(chars) # "-"
-----------------------------------------------------------------------------
(* How much of what is stored a surface tells. *)
Levels == {"nothing", "kind", "domain", "all"}

\* Mutated: one word too many counts as public.
TitleOfFour(l) == IF l.kind = "redirect" /\ Len(name_words(l.name)) <= LIMITED_WORDS THEN "domain" ELSE "kind"

link_title(l) == IF l.kind = "redirect" /\ Len(name_words(l.name)) < LIMITED_WORDS THEN "domain" ELSE "kind"

interstitial_head(l) == IF l.kind = "redirect" /\ ~ l.once THEN "domain" ELSE "kind"

\* card_image: there is one for redirects only.
card_content(l) == IF l.once THEN "nothing" ELSE "domain"
card_image(l)   == IF l.kind = "redirect" THEN card_content(l) ELSE "nothing"

\* What is stored and no longer allowed is printed and has no button.
redirect_card(l) == [tells |-> "all", href |-> l.linkable, button |-> "none"]
blind_reveal_block(l) == [tells |-> "kind", href |-> FALSE, button |-> "reveal"]

interstitial_page(l) ==
  LET body == IF l.once \/ l.kind = "text" THEN blind_reveal_block(l) ELSE redirect_card(l)
  IN  [title |-> link_title(l), head |-> interstitial_head(l), body |-> body]

text_view_page(l) ==
  [title |-> link_title(l), head |-> "nothing", body |-> [tells |-> "all", href |-> FALSE, button |-> "none"]]

revealed_page(l) ==
  [title |-> link_title(l), head |-> "nothing",
   body  |-> IF l.kind = "redirect" THEN redirect_card(l) ELSE text_view_page(l).body]

\* resolve, for a link that is live and a visitor without its cookie.
resolve(l) == IF l.kind = "text" /\ ~ l.once THEN text_view_page(l) ELSE interstitial_page(l)
-----------------------------------------------------------------------------
\* The hero and the title read the words the name was made of, hyphens inside.
NameReadsBack(words) ==
  LET spelt  == alternating_case(words)
      halves == highlight_name(spelt)
      shown  == halves[1] \o halves[2]
  IN  /\ name_words(spelt) = Cased(words)
      /\ Len(halves[1]) \in {Len(halves[2]), Len(halves[2]) + 1}
      /\ FlattenSeq([k \in DOMAIN shown |-> shown[k].word]) = spelt
      /\ \A k \in 2..Len(shown) : shown[k].colour # shown[k - 1].colour
      /\ is_plausible_name(spelt)

TellsNothingEarly(l) ==
  LET seen == resolve(l) IN
  /\ l.once => /\ {seen.title, seen.head, seen.body.tells, card_image(l)} \subseteq {"nothing", "kind"}
               /\ ~ seen.body.href /\ seen.body.button = "reveal"
  /\ l.secret => seen.title # "domain"
  /\ l.kind = "text" => {seen.title, seen.head, card_image(l)} \subseteq {"nothing", "kind"}
  /\ \A p \in {seen, revealed_page(l)} : p.body.href => p.body.tells = "all" /\ l.linkable
  /\ ~ l.once /\ ~ l.secret /\ l.kind = "redirect" /\ l.words < LIMITED_WORDS => seen.title = "domain"

\* The links that may have these words for a name, a private one by its tier (NameAllocation).
LinksNamed(words) ==
  {l \in [kind : {"redirect", "text"}, once : BOOLEAN, secret : BOOLEAN, linkable : BOOLEAN,
          words : {Len(words)}, name : {alternating_case(words)}] :
     l.once \/ l.secret => l.words >= LIMITED_WORDS}

(***************************************************************************)
(* Nobody learns from a one-time link what it holds without spending its   *)
(* use: no title, tag, share card or page names the domain or more, though *)
(* the title goes by the number of words it reads in the name.  A secret   *)
(* link's domain is not in the title that outlives the glance.  A text is  *)
(* never told by a tag or a card, and a page that shows no address to the  *)
(* reader offers none to click.                                            *)
(***************************************************************************)
OneTimeIsBlind ==
  picked # <<>> => NameReadsBack(picked) /\ \A l \in LinksNamed(picked) : TellsNothingEarly(l)
=============================================================================
