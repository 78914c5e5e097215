------------------------------ MODULE MCInputs ------------------------------
(***************************************************************************)
(* What is typed, drawn, stored and shown, on samples: a client that       *)
(* creates links, a word list that names are drawn from, a card that is    *)
(* edited, and texts, values and names that grow by one piece a step.  One *)
(* of them moves in a behaviour and the others rest.                       *)
(***************************************************************************)
EXTENDS CreateRequirements, Statistics, NameDraw, LinkPage, ShareCard, Expiry, TLC

CONSTANTS MaxAtoms, SNIPPET_LINES, DISPLAY_MAX_CHARS, Stored

VARIABLES stored, model, off, locked, href, label, line
VARIABLE sample    \* which of them moves, and what has grown

Text == INSTANCE TextRequirements
Card == INSTANCE CardRequirements

card_vars == <<stored, model, off, locked, href, label, line>>
vars == <<create_vars, draw_vars, card_vars, stat_vars, time_vars, picked, given, hero, sample>>

-----------------------------------------------------------------------------
(* Forms, requests and bodies. *)
Atoms == {"http", "tel", "ab", ".ab", ":", "//", "8", " ", "nb", "nl", "zw"}
Typed == BoundedSeq(Atoms, MaxAtoms) \cup
  {<<"ab", ".ab", ":", "8">>, <<"ab", ".ab", "//", "zw">>, <<"http", ":", "//", "ab", "zw">>,
   <<"http", ":", "//", "zw", "//">>, <<"tel", ":", "//", "zw", "8">>, <<"nl", "ab", "zw", ".ab">>,
   <<"nl", "nl", "ab", "zw">>, <<"tel", ":", "8", " ", "8">>, <<"http", ":", "ab", "//", " ">>}

Ladder == <<2, 4, 8, 60>>

Form(text, form, custom, unit, stop, seconds, type, ttl) ==
  [fields |-> [index_page EXCEPT !.content = text, !.kind = form, !.ttl_custom = custom, !.ttl_unit = unit,
                                 !.ttl_stop = stop, !.ttl_seconds = seconds, !.link_type = type],
   wish |-> [content |-> text, kind |-> form, ttl |-> ttl, once |-> type = "once",
             secret |-> type = "secret", answer |-> "none", via |-> "form"]]

Blank == Field("blank", 0)
LinkTypes == {"public", "secret", "once"}

\* Every text at the slider's last stop; every lifetime for a few texts.
MCForms ==
  {Form(text, form, Blank, "h", Number(3), Absent, "public", 60) : text \in Typed, form \in {"auto"}}
  \cup {Form(text, form, Blank, "h", Number(3), Absent, type, 60) :
          text \in {<<"ab", ".ab">>, <<"nl", "zw", "ab">>, <<"ab", "zw", ".ab">>, <<"ab", ":">>, <<"http", ":", "ab", "//", "zw">>},
          form \in {"auto", "redirect", "text"}, type \in LinkTypes}
  \cup {Form(<<"ab", ".ab">>, "auto", Number(n), unit, Number(3), Absent, "once", n * Unit(unit)) :
          n \in -130..130, unit \in {"m", "h", "d"}}
  \cup {Form(<<"zw", "ab">>, "auto", Number(n), unit, Number(3), Absent, "secret", n * Unit(unit)) :
          n \in 1..8, unit \in {"m", "h", "d"}}
  \cup {Form(<<"ab", "zw">>, "auto", Blank, "h", Number(i), Absent, "secret",
             IF i \in 0..3 THEN Ladder[i + 1] ELSE IF i < 0 THEN 24 ELSE 24) : i \in -1..5}
  \cup {Form(<<"ab">>, "auto", Absent, "m", Absent, Number(n), "once", n) : n \in {-1, 1, 2, 60, 61, 127}}
  \cup {Form(<<"ab">>, "auto", custom, "m", Absent, Field("custom", 0), "once", 0) : custom \in {Absent, Blank, Field("junk", 0)}}

MCEdits == {<<"ab">>, <<"nl", "zw">>}

Request(text, form, ttl, uses, secret, unknown) ==
  [content |-> text, kind |-> form, ttl |-> ttl, max_uses |-> uses, secret |-> secret, unknown |-> unknown,
   wish |-> [content |-> text, kind |-> form, ttl |-> ttl, once |-> uses = "1", secret |-> secret,
             answer |-> "keep", via |-> "api"]]
MCRequests == {Request(text, form, ttl, uses, secret, unknown) :
  text \in {<<"ab", ".ab">>, <<"cr", "nl", "zw">>}, form \in {"auto", "redirect", "code"}, ttl \in {1, 24},
  uses \in {"none", "1", "many"}, secret \in BOOLEAN, unknown \in BOOLEAN}

Body(content, named, options, end, ttl, once) ==
  LET g == [content |-> content, options |-> options]
  IN  [given |-> g, named |-> named, end |-> end, text |-> Sent(g, named, end),
       wish |-> [content |-> content, kind |-> "auto", ttl |-> ttl, once |-> once, secret |-> FALSE,
                 answer |-> "keep", via |-> "curl"]]
Says(field, value) == [name |-> field, value |-> value]
MCBodies ==
  {Body(<<"ab", ".ab">>, TRUE, <<Says("ttl=", <<"8", "m">>), Says("uses=", <<"1">>), Says("ttl=", <<"1">>)>>, <<"nl">>, 16, TRUE),
   Body(<<"ab", "&", "ttl=", "8">>, TRUE, <<>>, <<>>, 24, FALSE),
   Body(<<"ab", "%", "2", "6">>, FALSE, <<Says("ttl=", <<"8", "8", "d">>)>>, <<>>, 0, FALSE),
   Body(<<"ab">>, FALSE, <<Says("uses=", <<"8">>)>>, <<>>, 24, FALSE)}

MCWritten == {"%", "&", "2", "5", "6", "F", "ab", " ", "ttl="}
MCOptions == {Says("ttl=", <<"8", "m">>), Says("ttl=", <<>>), Says("uses=", <<"1">>)}
-----------------------------------------------------------------------------
(* Addresses a card may hold, and pieces of values. *)
Web == {<<"https", ":", "/", "/">> \o at[1] \o <<"x">> \o at[2] \o path \o q \o f :
  at \in {<<<<>>, <<>>>>, <<<<"x", "@", "y", "@">>, <<":", "2">>>>, <<<<>>, <<":", "y">>>>},
  path \in {<<>>, <<"/", "y", ";", "x", "=", "2", ";", "y", "/", "x">>, <<"/", ";", "x", "/">>},
  q \in {<<>>, <<"?">>, <<"?", "x", "&", "y", "=", "=", "x">>, <<"?", "x", "=", "&">>},
  f \in {<<>>, <<"#", "x", "?", "y">>, <<"#", "x", "=", "y", "&", "x">>, <<"#", "x", "&", "#">>}}
Mail == {<<"mailto", ":">> \o r \o q :
  r \in {<<>>, <<"x", "@", "y">>, <<"x", ",", "y", "@", "x", ",", "x">>, <<",", "x">>},
  q \in {<<>>, <<"?", "cc", "=", "x">>, <<"?", "y", "&", "cc", "=", "x", "&", "bcc", "=", "y">>, <<"?", "cc", "=", "x", "&", "cc">>}}
Phones == {<<"sms", ":">> \o r \o q : r \in {<<>>, <<"2">>, <<"2", ",", "3">>, <<"2", ",", "3", ",", "2">>}, q \in {<<>>, <<"?", "x", "=", "y">>}}
          \cup {<<"tel", ":", "2", ";", "x", "=", "3">>, <<"tel", ":", "2">>}
Others == {<<"magnet", ":">> \o q : q \in {<<"?", "xt", "=", "x">>, <<"?", "x", "=", "y", "&", "xt", "=", "x", "&", "xt">>, <<"xt", "=", "x">>}}
  \cup {<<"xmpp", ":", "x", "@", "y">> \o q : q \in {<<>>, <<"?", "join">>, <<"?", "join", "&", "x", "=", "y">>}}
  \cup {<<"irc", ":", "/", "/", "x", "/", "y", "?", "x">>, <<"irc", ":", "x", "y", "?", "x">>, <<"ftp", ":", "/", "/", "x", "/", "y", ";", "x">>,
        <<"spotify", ":", "x", ":", "y">>, <<"http", ":", "/", "/", "x", "/">>}
MCStored == Web \cup Mail \cup Phones \cup Others

Variation == <<"%", "E", "F", "%", "B", "8", "%", "8", "F">>
Chunks == <<
  <<{<<"%", "2", "5">>, <<"%", "3", "2">>, <<"%">>, <<"2">>, <<"5">>, <<"%", "3", "5">>}, 4>>,
  <<{<<"%", "2", "3">>, <<"#">>, <<"2">>, Variation, <<"vs">>, <<"%", "2", "5">>, <<"/">>}, 3>>,
  <<{<<"http", ":", "/", "/">>, <<"x">>, <<"?">>, <<"%", "2", "6">>, <<"%", "2", "0">>, <<"=">>, <<":", "2">>}, 4>>,
  <<{<<"%", "C", "2">>, <<"%", "A", "0">>, <<"%", "0", "2">>, <<"nb">>, <<" ">>, <<"%", "2", "0">>, <<"%", "2", "F">>, Variation, <<"A">>}, 3>> >>

Holding(v) == {<<"https", ":", "/", "/", "x", "/">> \o v \o <<"?", "y", "=">> \o v,
               <<"https", ":", "/", "/", "x", "?">> \o v,
               <<"xmpp", ":", "x", "?">> \o v, <<"mailto", ":", "x", ",">> \o v, <<"tel", ":">> \o v,
               <<"ftp", ":", "/", "/", "x", "/", "y", "?">> \o v}
-----------------------------------------------------------------------------
(* Pieces of texts, and the words of a name. *)
Themes == <<<<{"em", "zj", "vs", "st", "zs"}, 5>>, <<{"fl", "tag", "ct", "zs"}, 5>>, <<{"ka", "vi", "zj", "zn", "nul"}, 5>>,
           <<{"ar", "al", "tm", "zj", "zn"}, 5>>, <<{"cr", "nl", "ls", "nb", "nul", "a"}, 4>>,
           <<{"em", "zj", "nul", "ka", "vi"}, 4>>, <<{"&", "lt;", "<", "amp;", "zs"}, 4>>,
           <<{"a", "ar", "tm", "ka", "vi", "zj", "zn", "em", "vs", "fl", "tag", "ct", "zs", "nb", "nl", "cr", "nul"}, 3>>>>

Domains == {<<{"a", "w", ".", "th", "em", "zj", "xx"}, 4>>, <<{"a", ".", "th", "lo", "st", "ac", "han"}, 4>>, <<{"a", ".", "jp", "han", "ka"}, 5>>}
MCAlphabet == UNION {d[1] : d \in Domains}

MCNameWords == {<<"a">>, <<"a", "a">>, <<"a", "-", "a">>}
-----------------------------------------------------------------------------
\* Months go on past the first century that is no leap year.
LastYear == 2102

\* Lengths in seconds around every whole hour and minute that matters.
MCSeconds == {hours * 3600 + s : hours \in 0..200, s \in {-1, 0, 1, 59, 60, 61, 1799, 1800}}

\* Of each way to count one; the types and kinds differ by name only.
Once(metric) == [metric |-> metric, n |-> 1]
MCTraffic ==
  {<<Once("created_public"), Once("created_redirect")>>, <<Once("opened")>>, <<Once("previewed")>>,
   <<Once("opened"), Once("revealed")>>} \cup {<<[metric |-> "expired", n |-> n]>> : n \in 1..2}
-----------------------------------------------------------------------------
AtRest(of) ==
  /\ "create" \notin of =>
       /\ fields = CHOOSE f \in MCForms : TRUE
       /\ page = "idle" /\ sent = fields /\ asked = fields /\ tokens = 0 /\ links = <<>> /\ wishes = <<>>
  /\ "draw" \notin of => list = {<<CHOOSE l \in Letters : TRUE>>} /\ reserved = {} /\ tier = 0 /\ name = <<>> /\ issued = FALSE
  /\ "card" \notin of => /\ stored = <<"http", ":">> /\ model = [slices |-> <<>>] /\ off = {} /\ locked = {}
                         /\ href = stored /\ label = <<>> /\ line = FALSE
  /\ StatInit /\ TimeInit /\ PickInit /\ GivenInit /\ HeroInit

Init ==
  \/ sample = [of |-> "create"] /\ CreateInit /\ AtRest({"create"})
  \/ sample = [of |-> "draw"] /\ DrawInit /\ AtRest({"draw"})
  \/ sample = [of |-> "card"] /\ Card!CardInit /\ AtRest({"card"})
  \/ sample = [of |-> "stats"] /\ AtRest({"stats"})
  \/ sample \in [of : {"value"}, theme : DOMAIN Chunks, v : {<<>>}, n : {0}] /\ AtRest({})
  \/ sample \in [of : {"text"}, theme : DOMAIN Themes, text : {<<>>}, address : BOOLEAN] /\ AtRest({})
  \/ sample \in [of : {"body", "name", "domain", "months", "spans"}] /\ AtRest({})

GrowValue == /\ sample.of = "value" /\ sample.n < Chunks[sample.theme][2]
             /\ \E c \in Chunks[sample.theme][1] : sample' = [sample EXCEPT !.v = @ \o c, !.n = @ + 1]
GrowText  == /\ sample.of = "text" /\ Len(sample.text) < Themes[sample.theme][2]
             /\ \E c \in Themes[sample.theme][1] : sample' = [sample EXCEPT !.text = Append(@, c)]
GrowHero == /\ sample.of = "domain" /\ Letter
            /\ \E d \in Domains : Len(hero) < d[2] /\ ToSet(hero') \subseteq d[1]

Next ==
  \/ sample.of = "create" /\ CreateNext /\ UNCHANGED <<draw_vars, card_vars, stat_vars, time_vars, picked, given, hero, sample>>
  \/ sample.of = "draw" /\ Draw /\ UNCHANGED <<create_vars, card_vars, stat_vars, time_vars, picked, given, hero, sample>>
  \/ sample.of = "card" /\ Card!CardNext /\ UNCHANGED <<create_vars, draw_vars, stat_vars, time_vars, picked, given, hero, sample>>
  \/ sample.of = "stats" /\ StatNext /\ UNCHANGED <<create_vars, draw_vars, card_vars, time_vars, picked, given, hero, sample>>
  \/ /\ sample.of = "body" /\ Len(given.content) + Len(given.options) < 4
     /\ Write \/ (Len(given.options) < 2 /\ Add)
     /\ UNCHANGED <<create_vars, draw_vars, card_vars, stat_vars, time_vars, picked, hero, sample>>
  \/ /\ sample.of = "name" /\ Len(picked) <= LIMITED_WORDS /\ Pick
     /\ UNCHANGED <<create_vars, draw_vars, card_vars, stat_vars, time_vars, given, hero, sample>>
  \/ /\ sample.of = "months" /\ calendar.year < LastYear /\ NewMonth
     /\ UNCHANGED <<create_vars, draw_vars, card_vars, stat_vars, picked, given, hero, sample>>
  \/ sample.of = "spans" /\ left = 0 /\ Opened /\ UNCHANGED <<create_vars, draw_vars, card_vars, stat_vars, picked, given, hero, sample>>
  \/ GrowHero /\ UNCHANGED <<create_vars, draw_vars, card_vars, stat_vars, time_vars, picked, given, sample>>
  \/ (GrowValue \/ GrowText) /\ UNCHANGED <<create_vars, draw_vars, card_vars, stat_vars, time_vars, picked, given, hero>>

Spec == Init /\ [][Next]_vars
-----------------------------------------------------------------------------
\* A text's page and its History row hold every character, and each mark its entry (TextRequirements).
MarksCarryTheText ==
  sample.of = "text" => /\ Text!PageTellsAll(sample.text, sample.address)
                        /\ Text!RowTellsAll(sample.text, sample.address)

\* Remove takes all that is hidden and nothing that is not (TextRequirements); line ends are apart.
RemoveLeavesNothing ==
  sample.of = "text" /\ "cr" \notin ToSet(sample.text) => Text!RemoveIsThorough(sample.text, sample.address)

\* Editing a card takes away what was unticked and nothing else (CardRequirements).
EditOnlyRemoves == sample.of = "card" => Card!EditOnlyRemoves

\* The server and the script word the button alike (CardRequirements).
LabelsAgree == sample.of = "card" => Card!LabelsAgree

\* What is read on a card is what is stored, all of it (CardRequirements).
ReadingIsReal ==
  /\ sample.of = "value" => \A in_path \in BOOLEAN : Card!ReadingIsReal(sample.v, in_path)
  /\ \A a \in IF sample.of = "value" /\ sample.n < 4 THEN Holding(sample.v)
             ELSE IF sample.of = "card" /\ off = {} THEN {stored} ELSE {} : Card!NothingUnseen(a)

\* What hides in an address is warned of, marked and explained (CardRequirements).
NothingHides ==
  sample.of = "value" /\ sample.theme \in {2, 4} /\ sample.v # <<>> =>
    \A a \in Holding(sample.v) : Card!HiddenIsFlagged(a) /\ Card!MarksAnswer(a)
=============================================================================
