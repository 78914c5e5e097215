----------------------------- MODULE ShareCard -----------------------------
(***************************************************************************)
(* The line of a share card that names the destination (card.rs): a domain *)
(* as a sequence of characters, each drawn in a bundled face that has it,  *)
(* at a size it fits the card at, or cut.  A character is one of a small   *)
(* set; a width is a sum of advances at 100 px, and a size follows from    *)
(* it, except that a size found by dividing may round to one too wide.     *)
(***************************************************************************)
EXTENDS Integers, Sequences, SequencesExt, FiniteSetsExt

CONSTANTS
  Alphabet, \* what domains are written with
  AVAIL,    \* the width of the line on the card, in px
  MAX,      \* characters of a domain shown at most (40)
  Over      \* widths whose scaled size rounds to more than AVAIL

ASSUME CardAssumption == AVAIL \in Nat \ {0} /\ MAX \in Nat /\ MAX > 1

VARIABLE hero    \* the line to draw, written so far

HeroInit == hero = <<>>
Letter   == \E c \in Alphabet : hero' = Append(hero, c)
HeroSpec == HeroInit /\ [][Letter]_hero

MIN_SIZE == 28
full_size(blind) == IF blind THEN 72 ELSE 92

\* Latin letters, one that only the wider mono has, and the label jp; Han and
\* kana; two scripts with a face each and one without; an emoji, a symbol that
\* is text; an accent, an ignorable joiner.
Scripts == [a |-> "Latin", w |-> "Latin", jp |-> "Latin", han |-> "Han", ka |-> "Kana", th |-> "Thai", lo |-> "Lao",
            xx |-> "Lost", em |-> "Common", st |-> "Common", ac |-> "Inherited", zj |-> "Inherited"]
script(c) == IF c \in DOMAIN Scripts THEN Scripts[c] ELSE "Common"

ExtendedPictographic == {"em", "st"}
Ignorable    == {"zj"}

Cjk(region) == IF region = "JP" THEN "cjk JP" ELSE "cjk SC"
Glyphs(face) ==
  CASE face = "mono"      -> {"a", "jp", ".", "-", "...", "st", "ac"}
    [] face = "mono_wide" -> {"a", "w", "jp", ".", "-", "...", "ac"}
    [] face = "noto_sans" -> {"a", "w", "jp", ".", "-", "...", "ac"}
    [] face = "emoji"     -> {"em", "st"}
    [] face = "Thai"      -> {"th"}
    [] face = "Lao"       -> {"lo", "."}
    [] face = "sans"      -> {"a", "jp", ".", "-", "...", "th"}
    [] OTHER              -> {"han", "ka", "a", "jp", ".", "..."}
scripts == <<"Thai", "Lao">>

Advance(face, c) == IF c \in Ignorable THEN 0 ELSE IF c \in {"han", "ka"} THEN 12 ELSE IF c = "em" THEN 14 ELSE 6

has(face, c) == c \in Glyphs(face)
Drawn(face, c) == c \in Ignorable \/ has(face, c)
-----------------------------------------------------------------------------
(* Which face. *)
EndsIn(domain, label) == LET n == Len(domain) IN n > 0 /\ domain[n] = label /\ (n = 1 \/ domain[n - 1] = ".")

RegionOf(domain) ==
  IF \E i \in DOMAIN domain : script(domain[i]) = "Kana" \/ EndsIn(domain, "jp") THEN "JP" ELSE "SC"

Neutral == "neutral"
kind(c) ==
  IF c \in ExtendedPictographic /\ ~ has("mono", c) /\ has("emoji", c) THEN "Emoji"
  ELSE CASE script(c) = "Latin"                   -> "Lgc"
         [] script(c) \in {"Han", "Kana"}         -> "Cjk"
         [] script(c) \in {"Common", "Inherited"} -> Neutral
         [] OTHER                                 -> script(c)

\* A neutral character goes with the one before it, at the start with the first that is not.
Resolved(text) ==
  LET own == {i \in DOMAIN text : kind(text[i]) # Neutral}
  IN  [i \in DOMAIN text |-> IF own = {} THEN "Lgc"
                             ELSE LET at == own \cap 1..i IN kind(text[IF at = {} THEN Min(own) ELSE Max(at)])]

\* The stretch of one kind around a place.
Group(kinds, i) == {j \in DOMAIN kinds : \A k \in DOMAIN kinds : (i <= k /\ k <= j) \/ (j <= k /\ k <= i) => kinds[k] = kinds[i]}

Candidates(k, region) ==
  CASE k = "Lgc"   -> <<"mono", "mono_wide">>
    [] k = "Cjk"   -> <<Cjk(region)>>
    [] k = "Emoji" -> <<"emoji">>
    [] OTHER       -> scripts

\* Mutated: the first letter of the stretch decides.
CoversFirst(face, text, group) == Drawn(face, text[Min(group)])

Covers(face, text, group) == \A j \in group : kind(text[j]) = Neutral \/ Drawn(face, text[j])

Lacking == "none"
FirstOf(faces, Test(_)) == LET n == SelectInSeq(faces, Test) IN IF n = 0 THEN Lacking ELSE faces[n]
FirstCovering(faces, text, group) == FirstOf(faces, LAMBDA f : Covers(f, text, group))
FirstHaving(faces, c) == FirstOf(faces, LAMBDA f : has(f, c))

\* The face of a character; a neutral one may step aside into Latin.
Beside(k) == IF k \in {"Lgc", "Emoji"} THEN <<"mono">> ELSE <<"noto_sans", "mono">>
StepAside(c, k, face) ==
  IF face = Lacking \/ Drawn(face, c) THEN face
  ELSE IF kind(c) # Neutral THEN Lacking ELSE FirstHaving(Beside(k), c)

FaceAt(text, kinds, i) ==
  StepAside(text[i], kinds[i], FirstCovering(Candidates(kinds[i], RegionOf(text)), text, Group(kinds, i)))

\* The face of each character, one run for each stretch of one face; none if a character has none.
Runs(faces) == IF \E i \in DOMAIN faces : faces[i] = Lacking THEN <<>> ELSE faces
FacesOf(text, kinds) == [i \in DOMAIN text |-> FaceAt(text, kinds, i)]
hero_runs(text) == Runs(FacesOf(text, Resolved(text)))
-----------------------------------------------------------------------------
(* Which size. *)
cap_chars(domain) == IF Len(domain) > MAX THEN Append(SubSeq(domain, 1, MAX - 1), "...") ELSE domain

hero_width(text, faces) == SumFunction([i \in DOMAIN text |-> Advance(faces[i], text[i])])

FitsAtSize(width, size) == size * width <= 100 * AVAIL

\* AVAIL / width, clamped.
Size(width, full) ==
  IF FitsAtSize(width, full) THEN "full" ELSE IF ~ FitsAtSize(width, MIN_SIZE) THEN "min" ELSE "scaled"

Fits(width, full) == Size(width, full) = "full" \/ (Size(width, full) = "scaled" /\ width \notin Over)

Ascii(domain) == FlattenSeq([i \in DOMAIN domain |->
  IF domain[i] \in {"a", "jp", ".", "-"} THEN <<domain[i]>> ELSE <<"a", "-", "a">>])

\* The line at its size, or the length to try next.
Fitted(n, text, faces, blind) ==
  LET width == hero_width(text, faces)
      size  == Size(width, full_size(blind))
      keep  == (n * AVAIL * 100) \div (width * MIN_SIZE)
  IN  IF faces = <<>> THEN [next |-> 0, drawn |-> FALSE]
      ELSE IF Fits(width, full_size(blind)) \/ n <= 1
           THEN [next |-> 0, drawn |-> TRUE, text |-> text, faces |-> faces, size |-> size]
      ELSE [next |-> Max({Min({keep, n - 1}), 1})]

Cut(text, n) == IF n = Len(text) THEN text ELSE Append(SubSeq(text, 1, n), "...")
FacesFor(text, blind) == IF blind THEN [i \in DOMAIN text |-> "sans"] ELSE hero_runs(text)

Line(start, n, blind) == Fitted(n, Cut(start, n), FacesFor(Cut(start, n), blind), blind)

FitFrom(start, blind) ==
  LET fit[n \in 1..Len(start)] ==
        IF Line(start, n, blind).next = 0 THEN Line(start, n, blind) ELSE fit[Line(start, n, blind).next]
  IN  fit[Len(start)]

fit_hero(text, blind) ==
  LET capped == IF blind THEN text ELSE cap_chars(text)
  IN  FitFrom(IF blind \/ hero_runs(capped) # <<>> THEN capped ELSE cap_chars(Ascii(text)), blind)

\* The arrow points at a destination.
build_svg(text, blind) == [line |-> fit_hero(text, blind), arrow |-> ~ blind]
-----------------------------------------------------------------------------
Bundled == {"mono", "mono_wide", "noto_sans", "emoji", Cjk("SC")} \cup ToSet(scripts)
HasFace(c) == c \in Ignorable \/ \E face \in Bundled : has(face, c)

Legible(whole, card) ==
  LET line == card.line IN
  /\ card.arrow /\ line.drawn
  /\ \E n \in 1..Len(whole) : line.text = Cut(whole, n)
  /\ line.text # whole =>
       \/ Len(whole) > MAX
       \/ LET width == hero_width(whole, hero_runs(whole)) IN ~ FitsAtSize(width, MIN_SIZE) \/ width \in Over
  /\ \A i \in DOMAIN line.text : Drawn(line.faces[i], line.text[i])
  /\ \A i, j \in DOMAIN line.text :
       kind(line.text[i]) = kind(line.text[j]) /\ kind(line.text[i]) # Neutral /\ j \in Group(Resolved(line.text), i)
       => line.faces[i] = line.faces[j]
  /\ Len(line.text) > 2 => FitsAtSize(hero_width(line.text, line.faces), MIN_SIZE)
  /\ Len(line.text) <= MAX

\* A domain, or its punycode where a letter of it has no face.
Shown(domain) == IF \A i \in DOMAIN cap_chars(domain) : HasFace(cap_chars(domain)[i]) THEN domain ELSE Ascii(domain)

WholeOn(card, sentence) ==
  LET width == hero_width(sentence, [i \in DOMAIN sentence |-> "sans"])
  IN  /\ ~ card.arrow
      /\ FitsAtSize(width, MIN_SIZE) /\ width \notin Over => card.line.text = sentence

(***************************************************************************)
(* A card draws a domain that has a face for each letter as it is, and     *)
(* any other in punycode; whole, or its first characters and one ellipsis, *)
(* and it is cut for its length, its width, or a size that rounded.  No    *)
(* character is a box, the letters of one script keep one face, and what   *)
(* is drawn fits.  A sentence in place of a domain is drawn whole if it    *)
(* fits, and points nowhere.                                               *)
(***************************************************************************)
CardIsLegible ==
  hero # <<>> => Legible(Shown(hero), build_svg(hero, FALSE)) /\ WholeOn(build_svg(hero, TRUE), hero)
=============================================================================
