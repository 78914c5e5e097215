------------------------------- MODULE Create -------------------------------
(***************************************************************************)
(* The three ways to create a link: the form without JavaScript and the    *)
(* questions its pages ask (form_create), the JSON API and curl -d.        *)
(*                                                                         *)
(* A browser holds a page whose form it can post: `fields` is what it      *)
(* would send and `sent` what it last sent, for a reload.  `asked` is what *)
(* the person wants, kept apart from what the pages carry for them.        *)
(***************************************************************************)
EXTENDS PlainBody

CONSTANTS
  Forms,      \* forms as first filled in, each with what the person wants by it
  Edits,      \* texts a person may change to on the step page
  Requests,   \* requests to the JSON API
  Bodies,     \* bodies sent with curl
  MaxTokens,  \* the rate limiter's burst, for this client
  MaxLinks    \* bound: links made in one sitting

VARIABLES page, fields, sent, asked, tokens, links, wishes

create_vars == <<page, fields, sent, asked, tokens, links, wishes>>

-----------------------------------------------------------------------------
(* The browser: a textarea drops a line end at its start, a post has CRLF. *)
ReadBack(html) == IF html # <<>> /\ Head(html) = "nl" THEN Tail(html) ELSE html
Wire(text) == FlattenSeq([i \in DOMAIN text |-> IF text[i] = "nl" THEN <<"cr", "nl">> ELSE <<text[i]>>])

Unwire(text) ==
  FlattenSeq([i \in DOMAIN text |->
    IF text[i] = "cr" /\ i < Len(text) /\ text[i + 1] = "nl" THEN <<>> ELSE <<text[i]>>])

without_hidden(text) == Without(text, {"zw"})
hidden_counts(text)  == Cardinality({i \in DOMAIN text : text[i] = "zw"})

\* The form as it is first shown: the slider at its last stop, no lifetime typed.
index_page ==
  [content |-> <<>>, kind |-> "auto", link_type |-> "public", hidden_chars |-> "none", ttl_seconds |-> Absent,
   ttl_custom |-> Field("blank", 0), ttl_unit |-> "h", ttl_stop |-> Number(Len(TTL_STOPS) - 1)]

\* Mutated: the page's own line end before the text is left out.
StepBare(f, c) == [f EXCEPT !.content = ReadBack(Unwire(f.content)), !.ttl_seconds = Number(c.ttl),
                            !.ttl_custom = Absent, !.ttl_stop = Absent]

\* What the hidden-character step posts back.
hidden_step_page(f, c) ==
  [f EXCEPT !.content = ReadBack(<<"nl">> \o Unwire(f.content)), !.ttl_seconds = Number(c.ttl),
            !.ttl_custom = Absent, !.ttl_stop = Absent]

\* The offer of a text link instead; it answers the question about hidden characters.
result_page(f, content, ttl) ==
  [f EXCEPT !.content = content, !.kind = "text", !.ttl_seconds = ttl,
            !.ttl_custom = Absent, !.ttl_stop = Absent, !.hidden_chars = "keep"]
-----------------------------------------------------------------------------
store_link(c, secret, token, wish) ==
  /\ links' = Append(links, [kind |-> c.kind, content |-> c.content, ttl |-> c.ttl, once |-> c.once,
                             secret |-> secret, token |-> token])
  /\ wishes' = Append(wishes, wish)
  /\ page' = "result"

Answer(p) == page' = p /\ UNCHANGED <<links, wishes>>

Asks(hidden, f) == hidden > 0 /\ f.hidden_chars \notin {"keep", "remove"}

\* The limiter and the store: a create is paid for, made or not.
PaidStore(c, secret, token, wish) ==
  /\ tokens > 0 /\ tokens' = tokens - 1
  /\ store_link(c, secret, token, wish) \/ Answer("broken")

FormAnswer(f, content, c, wish) ==
  LET asks == Asks(hidden_counts(content), f) IN
  /\ asked' = wish
  /\ \/ c.errors # {} /\ Answer("error") /\ UNCHANGED <<fields, tokens>>
     \/ /\ c.errors = {} /\ asks
        /\ Answer("step") /\ fields' = hidden_step_page(f, c) /\ UNCHANGED tokens
     \/ /\ c.errors = {} /\ ~ asks /\ tokens = 0
        /\ Answer("limited") /\ UNCHANGED <<fields, tokens>>
     \/ /\ c.errors = {} /\ ~ asks
        /\ PaidStore(c, f.link_type = "secret", FALSE, wish)
        /\ fields' = result_page(f, content, Number(c.ttl))

form_create(f, wish) ==
  LET typed   == Unwire(f.content)
      content == IF f.hidden_chars = "remove" THEN without_hidden(typed) ELSE typed
      uses    == IF f.link_type = "once" THEN "1" ELSE "none"
  IN  FormAnswer(f, content, check_link(f.kind, content, form_ttl(f), uses), wish)

\* The JSON API and curl are limited first and checked after.
Limited == tokens = 0 /\ Answer("limited") /\ UNCHANGED tokens

ApiAnswer(r, c, wish) ==
  /\ asked' = wish /\ UNCHANGED <<fields, sent>>
  /\ \/ Limited
     \/ /\ r.unknown \/ c.errors # {}
        /\ tokens > 0 /\ tokens' = tokens - 1 /\ Answer("error")
     \/ ~ r.unknown /\ c.errors = {} /\ PaidStore(c, r.secret, TRUE, wish)

api_create_link(r, wish) == ApiAnswer(r, check_link(r.kind, r.content, Got(r.ttl), r.max_uses), wish)

PlainTtl(v) == IF v = <<>> THEN Got(DEFAULT_TTL_SECS) ELSE parse_duration(v[1])
PlainUses(v) == IF v = <<>> THEN "none"
                ELSE LET n == Decimal(trim(v[1])) IN
                     IF ~ Parses(n) THEN "no number" ELSE IF n.n = 1 THEN "1" ELSE "many"

PlainAnswer(c, wish) ==
  /\ asked' = wish /\ UNCHANGED <<fields, sent>>
  /\ \/ Limited
     \/ c.errors # {} /\ tokens > 0 /\ tokens' = tokens - 1 /\ Answer("error")
     \/ c.errors = {} /\ PaidStore(c, FALSE, FALSE, wish)

create_plain(body, wish) ==
  LET p == parse_plain_body(body)
  IN  PlainAnswer(check_link("auto", p.content, PlainTtl(p.ttl), PlainUses(p.uses)), wish)
-----------------------------------------------------------------------------
(* A person at a browser, or at a shell. *)
Post(f, wish) ==
  /\ Len(links) < MaxLinks
  /\ sent' = f
  /\ form_create([f EXCEPT !.content = Wire(f.content)], wish)

Submit == page = "form" /\ Post(fields, asked)

\* The step's text can be edited before it is answered.
Edit(text) ==
  /\ page = "step" /\ fields.content # text
  /\ fields' = [fields EXCEPT !.content = text]
  /\ asked'  = [asked EXCEPT !.content = text]
  /\ UNCHANGED <<page, sent, tokens, links, wishes>>

Reply(choice) ==
  page = "step" /\ Post([fields EXCEPT !.hidden_chars = choice], [asked EXCEPT !.answer = choice])

Redo ==
  /\ page = "result" /\ Last(links).kind = "redirect" /\ asked.via = "form"
  /\ Post(fields, [asked EXCEPT !.content = fields.content, !.kind = "text", !.answer = "keep"])

\* A reload posts again what led to this page.
Reload == page \in {"limited", "broken", "result"} /\ asked.via = "form" /\ Post(sent, asked)

Ask(r)     == page = "shell" /\ api_create_link(r, r.wish)
Curl(body) == page = "shell" /\ create_plain(body.text, body.wish)

Refill == /\ page = "limited" /\ tokens < MaxTokens /\ tokens' = tokens + 1
          /\ UNCHANGED <<page, fields, sent, asked, links, wishes>>

\* A browser at the form, or a client that needs none.
CreateInit ==
  /\ \/ page = "form" /\ \E f \in Forms : fields = f.fields /\ asked = f.wish
     \/ page = "shell" /\ LET f == CHOOSE f \in Forms : TRUE IN fields = f.fields /\ asked = f.wish
  /\ sent = fields /\ tokens = MaxTokens /\ links = <<>> /\ wishes = <<>>

CreateNext ==
  \/ Submit
  \/ \E text \in Edits : Edit(text)
  \/ \E choice \in {"keep", "remove"} : Reply(choice)
  \/ Redo
  \/ Reload
  \/ \E r \in Requests : Ask(r)
  \/ \E body \in Bodies : Curl(body)
  \/ Refill

CreateSpec == CreateInit /\ [][CreateNext]_create_vars
=============================================================================
