------------------------- MODULE CreateRequirements -------------------------
(***************************************************************************)
(* What a person who creates a link may rely on, whatever pages lie        *)
(* between the first post and the link.                                    *)
(***************************************************************************)
EXTENDS Create

(***************************************************************************)
(* What a person wants by a form: the number typed times its unit in exact *)
(* arithmetic, else the slider's stop, else the seconds.  What is typed    *)
(* and no number asks for no lifetime that there is.                       *)
(***************************************************************************)
Kinds_ == {"auto", "redirect", "text"}
Field_ == [is : {"absent", "blank", "junk", "number", "custom"}, n : Int]
Fields == [content : Seq(Chars), kind : Kinds_, link_type : {"public", "secret", "once"},
           hidden_chars : {"none", "keep", "remove"}, ttl_seconds : Field_, ttl_custom : Field_,
           ttl_unit : {"m", "h", "d"}, ttl_stop : Field_]
Wish   == [content : Seq(Chars), kind : Kinds_, ttl : Int, once : BOOLEAN, secret : BOOLEAN,
           answer : {"none", "keep", "remove"}, via : {"form", "api", "curl"}]

AsksFor(f, ttl) ==
  IF f.ttl_custom.is = "number" THEN ttl = f.ttl_custom.n * Unit(f.ttl_unit)
  ELSE IF f.ttl_custom.is = "junk" \/ f.ttl_seconds.is = "custom" THEN ttl \notin MIN_TTL_SECS..max_ttl_secs
  ELSE ttl = IF f.ttl_stop.is = "number" /\ f.ttl_stop.n >= 0
             THEN IF f.ttl_stop.n < Len(TTL_STOPS) THEN TTL_STOPS[f.ttl_stop.n + 1] ELSE DEFAULT_TTL_SECS
             ELSE IF f.ttl_seconds.is = "number" THEN f.ttl_seconds.n ELSE DEFAULT_TTL_SECS

ASSUME FormAssumption == \A f \in Forms :
  /\ f.fields \in Fields /\ f.wish \in Wish
  /\ f.fields.hidden_chars = "none"
  /\ {f.fields.ttl_stop.n, f.fields.ttl_seconds.n} \subseteq 0 - MaxInt - 1..MaxInt
  /\ AsksFor(f.fields, f.wish.ttl)
  /\ f.wish = [content |-> f.fields.content, kind |-> f.fields.kind, ttl |-> f.wish.ttl,
               once |-> f.fields.link_type = "once", secret |-> f.fields.link_type = "secret",
               answer |-> "none", via |-> "form"]

\* A request says what it wants, and so does a body (PlainBody).
ASSUME RequestAssumption == \A r \in Requests :
  /\ r.content \in Seq(Chars) /\ r.ttl \in Int /\ r.secret \in BOOLEAN
  /\ r.wish = [content |-> r.content, kind |-> r.kind, ttl |-> r.ttl, once |-> r.max_uses = "1",
               secret |-> r.secret, answer |-> "keep", via |-> "api"]

ASSUME BodyAssumption == \A b \in Bodies :
  /\ b.given \in [content : Seq(Bytes), options : Seq(Named)] /\ b.named \in BOOLEAN /\ b.end \in Seq(White)
  /\ Clear(b.given.content, b.named) /\ b.text = Sent(b.given, b.named, b.end)
  /\ LET ttl == PlainTtl(Meant(b.given).ttl) IN ttl.ok => ttl.n = b.wish.ttl
  /\ b.wish \in Wish
  /\ b.wish = [content |-> b.given.content, kind |-> "auto", ttl |-> b.wish.ttl,
               once |-> PlainUses(Meant(b.given).uses) = "1", secret |-> FALSE, answer |-> "keep", via |-> "curl"]

ASSUME EditAssumption == Edits \subseteq Seq(Chars)
-----------------------------------------------------------------------------
\* The text a wish comes to: less its hidden characters if they were to go.
Wanted(w) == IF w.answer = "remove" THEN Without(w.content, {"zw"}) ELSE w.content

(***************************************************************************)
(* A link has the lifetime, uses and secrecy asked for on the first page,  *)
(* in exact arithmetic, through the hidden-character step, an edit, the    *)
(* offer of a text link and any reload.  A text is kept to the letter,     *)
(* line ends at its start included; an address is kept as the serialized   *)
(* form of what was typed, which a second reading does not change.  What   *)
(* holds hidden characters was asked about first.                          *)
(***************************************************************************)
Meets(l, w) ==
  LET text == Wanted(w) IN
  /\ l.ttl = w.ttl /\ l.once = w.once /\ l.secret = w.secret
  /\ l.kind = chosen_kind(w.kind, text)
  /\ l.kind = "text" => l.content = text
  /\ l.kind = "redirect" =>
       /\ l.content = Canonical(normalize_target(trim(text)))
       /\ validate_redirect(l.content) /\ Canonical(l.content) = l.content
       /\ ~ Has(l.content, White \cup {"zw"})
  /\ w.via = "form" /\ w.answer = "none" => hidden_counts(w.content) = 0

LinkIsAsAsked == \A i \in DOMAIN links : Meets(links[i], wishes[i])

\* What the checks may hold against a form.
Cause(w) ==
  LET text == Wanted(w)  t == trim(text) IN
  \/ t = <<>>
  \/ w.ttl \notin MIN_TTL_SECS..max_ttl_secs
  \/ Len(text) > MAX_CONTENT_BYTES \/ Len(Canonical(normalize_target(t))) > MAX_CONTENT_BYTES
  \/ w.kind = "redirect" /\ ~ validate_redirect(normalize_target(t))
  \/ looks_like_domain(t) /\ Has(Upto(t, {"//"}), {":"})

(***************************************************************************)
(* A form is turned away only for a cause: nothing in it, a lifetime that  *)
(* really lies outside the bounds, its size, or an address no redirect     *)
(* takes although the sender said redirect.  Detection never leads into a  *)
(* refusal: what no redirect takes becomes text, except for a bare host    *)
(* with a colon after it.                                                  *)
(***************************************************************************)
RefusedForCause == page = "error" /\ asked.via = "form" => Cause(asked)
=============================================================================
