----------------------------- MODULE CreateInput -----------------------------
(***************************************************************************)
(* What the server makes of the text, lifetime and body of a create        *)
(* request: kind detection and address checks (core/src/link.rs), the      *)
(* parsers and bounds of web.rs.  Texts are sequences of atoms, each one   *)
(* standing for characters the code treats alike:                          *)
(*   "http" a special allowed scheme's name, "tel" a plain one, "ab" other *)
(*   letters, ".ab" a dot and letters, "8" digits, ":" and "//",           *)
(*   " " a space, "nb" a no-break space, "nl" and "cr" line ends,          *)
(*   "zw" a zero-width space (hidden), "%", "&" and the option names.      *)
(***************************************************************************)
EXTENDS Integers, Sequences, SequencesExt, FiniteSetsExt

CONSTANTS
  Minute, Hour, Day,   \* in seconds
  MIN_TTL_SECS, max_ttl_secs, DEFAULT_TTL_SECS,
  TTL_STOPS,           \* the slider's ladder
  MaxInt,              \* i64::MAX
  MAX_CONTENT_BYTES    \* in atoms

ASSUME InputAssumption ==
  /\ {Minute, Hour, Day, MIN_TTL_SECS} \subseteq Nat \ {0}
  /\ {DEFAULT_TTL_SECS, max_ttl_secs} \subseteq MIN_TTL_SECS..MaxInt - 1
  /\ TTL_STOPS \in Seq(Nat)
  /\ {MaxInt, MAX_CONTENT_BYTES} \subseteq Nat

White == {" ", "nb", "nl", "cr"}
LetterAtoms == {"http", "tel", "ab"}
Chars == White \cup LetterAtoms \cup
  {".ab", "8", ":", "//", "zw", "%", "&", "%20", "%A0", "%ZW", "1", "2", "5", "6", "F", "c",
   "s", "m", "h", "d", "url=", "ttl=", "uses="}
Special == {<<"http">>}
DEFAULT_ALLOWED_SCHEMES == Special \cup {<<"tel">>}

At(s, atoms)   == Min({i \in DOMAIN s : s[i] \in atoms} \cup {Len(s) + 1})
Upto(s, atoms) == SubSeq(s, 1, At(s, atoms) - 1)
From(s, atoms) == SubSeq(s, At(s, atoms), Len(s))
Past(s, atoms) == SubSeq(s, At(s, atoms) + 1, Len(s))
Has(s, atoms)  == \E i \in DOMAIN s : s[i] \in atoms
Without(s, atoms) == FlattenSeq([i \in DOMAIN s |-> IF s[i] \in atoms THEN <<>> ELSE <<s[i]>>])

Edges(s)    == {i \in DOMAIN s : s[i] \notin White}
trim(s)     == IF Edges(s) = {} THEN <<>> ELSE SubSeq(s, Min(Edges(s)), Max(Edges(s)))
trim_end(s) == SubSeq(s, 1, Max(Edges(s) \cup {0}))
-----------------------------------------------------------------------------
(* Detection. *)
has_scheme(s) ==
  LET scheme == Upto(s, {":"}) IN
  /\ Has(s, {":"}) /\ scheme # <<>>
  /\ Head(scheme) \in LetterAtoms
  /\ \A i \in DOMAIN scheme : scheme[i] \in LetterAtoms \cup {".ab", "8"}

HasHost(s) == LET rest == Past(s, {":"}) IN rest # <<>> /\ Head(rest) = "//"

looks_like_url(s) ==
  /\ has_scheme(s) /\ ~ Has(s, White)
  /\ HasHost(s) \/ Upto(s, {":"}) \in DEFAULT_ALLOWED_SCHEMES

\* The labels of a host of at least two, and a last one of letters only.
looks_like_domain(s) ==
  LET host == Upto(Upto(s, {"//"}), {":"})
      dots == {i \in DOMAIN host : host[i] = ".ab"}
  IN  /\ ~ Has(s, White)
      /\ dots # {} /\ 1 \notin dots
      /\ \A i \in DOMAIN host : host[i] \in LetterAtoms \cup {".ab", "8"}
      /\ \A i \in Max(dots)..Len(host) : host[i] # "8"

(* The url crate drops line ends; a host ends at a path, its port is digits. *)
Rest(s) == Without(Past(s, {":"}), {"nl", "cr"})

Authority(s) ==
  LET rest  == Rest(s)
      solid == {i \in DOMAIN rest : rest[i] # "//"}
  IN  SubSeq(rest, Min(solid \cup {Len(rest) + 1}), Len(rest))

Host(a) == Upto(Upto(a, {"//"}), {":"})
Port(a) == Past(Upto(a, {"//"}), {":"})
PortOk(a) == \A i \in DOMAIN Port(a) : Port(a)[i] = "8"

\* A special scheme needs a host, with or without slashes before it.
SpecialParses(a) == Without(Host(a), {"zw"}) # <<>> /\ ~ Has(Host(a), White) /\ PortOk(a)
PlainParses(a)   == /\ ~ Has(Host(a), {" "}) /\ PortOk(a)
                    /\ Has(Upto(a, {"//"}), {":"}) => Host(a) # <<>>
UrlParses(s) ==
  /\ has_scheme(s)
  /\ IF Upto(s, {":"}) \in Special THEN SpecialParses(Authority(s))
     ELSE Rest(s) # <<>> /\ Head(Rest(s)) = "//" => PlainParses(Tail(Rest(s)))

Escape(s) == [i \in DOMAIN s |-> CASE s[i] = " " -> "%20" [] s[i] = "nb" -> "%A0" [] s[i] = "zw" -> "%ZW"
                                   [] OTHER -> s[i]]

\* Its serialization: a special host loses what IDNA ignores and gets a path.
Serial(a) == <<"//">> \o Without(Host(a), {"zw"}) \o From(Upto(a, {"//"}), {":"})
             \o (IF Has(a, {"//"}) THEN Escape(From(a, {"//"})) ELSE <<"//">>)
Canonical(s) ==
  Upto(s, {":"}) \o <<":">> \o
  IF Upto(s, {":"}) \in Special THEN Serial(Authority(s)) ELSE Escape(Rest(s))

validate_redirect(s) == UrlParses(s) /\ Upto(s, {":"}) \in DEFAULT_ALLOWED_SCHEMES

\* Mutated: whatever tries to be an address is a redirect.
DetectAny(s) ==
  LET t == trim(s) IN
  IF t # <<>> /\ ~ Has(t, {"nl"}) /\ (looks_like_url(t) \/ looks_like_domain(t)) THEN "redirect" ELSE "text"

detect_kind(s) ==
  LET t == trim(s) IN
  IF /\ t # <<>> /\ ~ Has(t, {"nl"})
     /\ (looks_like_url(t) /\ validate_redirect(t)) \/ looks_like_domain(t)
  THEN "redirect" ELSE "text"

address_refusal(s) == looks_like_url(trim(s)) /\ ~ validate_redirect(trim(s))

normalize_target(s) == IF has_scheme(s) THEN s ELSE <<"http", ":", "//">> \o s

chosen_kind(choice, s) == IF choice \in {"redirect", "text"} THEN choice ELSE detect_kind(s)
-----------------------------------------------------------------------------
(* Lifetimes.  A field is absent, blank, no number, or a number. *)
Field(is, n) == [is |-> is, n |-> n]
Number(n) == Field("number", n)
Absent    == Field("absent", 0)
Parses(f) == f.is = "number" /\ f.n \in (0 - MaxInt - 1)..MaxInt

Bad    == [ok |-> FALSE, n |-> 0]
Got(n) == [ok |-> TRUE, n |-> n]

Unit(u) == CASE u = "h" -> Hour [] u = "d" -> Day [] u = "s" -> 1 [] OTHER -> Minute

saturating_mul(n, m) == IF n > MaxInt \div m THEN MaxInt
                        ELSE IF n < 0 - (MaxInt \div m) - 1 THEN 0 - MaxInt - 1 ELSE n * m

parse_custom_ttl(value, unit) ==
  IF Parses(value) THEN Got(saturating_mul(value.n, Unit(unit))) ELSE Bad

form_ttl(f) ==
  IF f.ttl_custom.is \in {"junk", "number"} \/ f.ttl_seconds.is = "custom"
  THEN parse_custom_ttl(f.ttl_custom, f.ttl_unit)
  ELSE IF Parses(f.ttl_stop) /\ f.ttl_stop.n >= 0
       THEN Got(IF f.ttl_stop.n < Len(TTL_STOPS) THEN TTL_STOPS[f.ttl_stop.n + 1] ELSE DEFAULT_TTL_SECS)
       ELSE Got(IF Parses(f.ttl_seconds) THEN f.ttl_seconds.n ELSE DEFAULT_TTL_SECS)

\* A decimal of the digits 1 and 8, as i64 reads it.
Decimal(s) ==
  IF s # <<>> /\ ToSet(s) \subseteq {"1", "8"}
  THEN Number(FoldLeft(LAMBDA n, c : 10 * n + (IF c = "1" THEN 1 ELSE 8), 0, s))
  ELSE Field("junk", 0)

\* A count with a unit after it, seconds without one.
parse_duration(s) ==
  LET t     == trim(s)
      named == t # <<>> /\ Last(t) \in {"s", "m", "h", "d"}
      unit  == Unit(IF named THEN Last(t) ELSE "s")
      value == Decimal(IF named THEN trim(Front(t)) ELSE t)
  IN  IF Parses(value) /\ value.n <= MaxInt \div unit THEN Got(value.n * unit) ELSE Bad

check_ttl(t) == t >= MIN_TTL_SECS /\ t <= max_ttl_secs
-----------------------------------------------------------------------------
(***************************************************************************)
(* check_link: every field is checked, and the errors come back together.  *)
(***************************************************************************)
Checked(choice, content, ttl, uses, kind, target, stored) ==
  LET errors == (IF choice \notin {"auto", "redirect", "text"} THEN {"kind"} ELSE {})
           \cup (IF \/ trim(content) = <<>>
                    \/ kind = "redirect" /\ ~ validate_redirect(target)
                    \/ Len(stored) > MAX_CONTENT_BYTES THEN {"content"} ELSE {})
           \cup (IF ttl.ok /\ check_ttl(ttl.n) THEN {} ELSE {"ttl_seconds"})
           \cup (IF uses \in {"none", "1"} THEN {} ELSE {"max_uses"})
  IN  [errors |-> errors, kind |-> kind, content |-> stored, ttl |-> ttl.n, once |-> uses = "1"]

CheckedAs(choice, content, ttl, uses, kind, target) ==
  Checked(choice, content, ttl, uses, kind, target, IF kind = "text" THEN content ELSE Canonical(target))

check_link(choice, content, ttl, uses) ==
  CheckedAs(choice, content, ttl, uses, chosen_kind(choice, content), normalize_target(trim(content)))
=============================================================================
