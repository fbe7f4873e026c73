------------------------------ MODULE Sanitize ------------------------------
(***************************************************************************)
(* What the agent of stage 2 gets to read: the content of a site, cleaned  *)
(* by sanitize_content and wrapped by build_agent_prompt.                  *)
(*                                                                         *)
(* A text is a sequence of units: single characters, and words that no     *)
(* pass looks into, whatever the case of their letters.  "hidden" stands   *)
(* for an attribute that hides its element, "long" for one that makes a    *)
(* meta tag suspicious, each with the blank before it.                     *)
(*                                                                         *)
(* The passes look for tags in a lower-cased copy and cut the text itself  *)
(* at the places found.  Units have no case, so the copy is the text; the  *)
(* places agree as long as each character keeps its number of bytes.  One  *)
(* that takes more in lower case is "wide": outside comments and elements  *)
(* that are cut it makes sanitize_content panic unless it is the last.     *)
(* Characters that take fewer (as U+1E9E), and wide ones within a style or *)
(* hidden element, are left out.                                           *)
(***************************************************************************)
EXTENDS Naturals, Sequences, SequencesExt

CONSTANTS
  Block,      \* pieces of a page: their text, and what of it a reader sees
  Claims,     \* endpoint, domain and label of a card, each a text
  MaxBlocks,  \* bound: pieces of a page
  MaxChars    \* where sanitize_content truncates

ASSUME SanitizeAssumption ==
  /\ \A b \in Block :
       /\ b.text \in Seq(ToSet(b.text))
       /\ "wide" \in ToSet(b.text) => b.text = <<"wide">>
  /\ \A c \in Claims : \A text \in {c.endpoint, c.domain, c.label} : text \in Seq(ToSet(text))
  /\ MaxBlocks \in Nat
  /\ MaxChars \in Nat

VARIABLES
  pc,       \* what was done to the content
  page,     \* the pieces of the site's page
  content,  \* its text, as it came or sanitized
  prompt    \* what the agent is asked

vars == <<pc, page, content, prompt>>

Blank == {" ", "\n"}

OpenTag == <<"<", "UNTRUSTED_", "DATA", ">">>
CloseTag == <<"<", "/", "UNTRUSTED_", "DATA", ">">>

Escaped(tag) == <<"&", "lt;">> \o SubSeq(tag, 2, Len(tag) - 1) \o <<"&", "gt;">>

-----------------------------------------------------------------------------
(* Slices: from i up to j, and from i on.                                  *)

Slice(s, i, j) == SubSeq(s, i, j - 1)

Rest(s, i) == SubSeq(s, i, Len(s))

Occurrences(s, pattern) ==
  {i \in 1..(Len(s) - Len(pattern) + 1) : SubSeq(s, i, i + Len(pattern) - 1) = pattern}

(* Where the pattern first occurs from i on; 0 if nowhere. *)
Find(s, pattern, i) ==
  LET hits == {j \in Occurrences(s, pattern) : j >= i}
  IN  IF hits = {} THEN 0 ELSE Min(hits)

replace(s, pattern, by) ==
  LET from[i \in 1..(Len(s) + 1)] ==
        LET start == Find(s, pattern, i)
        IN  IF start = 0 THEN Rest(s, i)
            ELSE Slice(s, i, start) \o by \o from[start + Len(pattern)]
  IN  from[1]

-----------------------------------------------------------------------------
(* The passes.                                                             *)

(* Mutation: only the first match is cut out.                              *)
Cut_Once(s, open, close) ==
  LET start == Find(s, open, 1)
      end == Find(s, close, start)
  IN  IF start = 0 THEN s
      ELSE Slice(s, 1, start) \o (IF end = 0 THEN <<>> ELSE Rest(s, end + Len(close)))

(* The text without what the patterns enclose.                             *)
Cut(s, open, close) ==
  LET from[i \in 1..(Len(s) + 1)] ==
        LET start == Find(s, open, i)
            end == Find(s, close, start)
        IN  CASE start = 0 -> Rest(s, i)
              [] start # 0 /\ end = 0 -> Slice(s, i, start)
              [] OTHER -> Slice(s, i, start) \o from[end + Len(close)]
  IN  from[1]

strip_html_comments(s) == Cut(s, <<"<", "!", "--">>, <<"--", ">">>)

strip_tag_pair(s, name) == Cut(s, <<"<", name>>, <<"<", "/", name, ">">>)

strip_script_tags(s) == strip_tag_pair(s, "script")

(* Where the tag that opens at i ends, the text that closes its element,   *)
(* and whether the tag hides it.                                           *)
EndOfTag(s, i) == Find(s, <<">">>, i)

Closing(s, i) ==
  LET ends == {j \in i..Len(s) : s[j] \in Blank \cup {">", "hidden", "long"}}
      name == IF ends = {} THEN <<>> ELSE SubSeq(s, i + 1, Min(ends) - 1)
  IN  <<"<", "/">> \o name \o <<">">>

Hides(s, i) ==
  /\ i <= Len(s)
  /\ s[i] = "<"
  /\ EndOfTag(s, i) # 0
  /\ Contains(SubSeq(s, i, EndOfTag(s, i)), "hidden")

(* An element that hides itself goes up to the first closing tag of its    *)
(* name, or only its opening tag if there is none.                         *)
strip_elements_with_style(s) ==
  LET from[i \in 1..(Len(s) + 1)] ==
        LET close == Closing(s, i)
            end == Find(s, close, EndOfTag(s, i) + 1)
        IN  CASE i > Len(s) -> <<>>
              [] Hides(s, i)
                   -> from[IF end # 0 THEN end + Len(close) ELSE EndOfTag(s, i) + 1]
              [] OTHER -> <<s[i]>> \o from[i + 1]
  IN  from[1]

strip_style_hidden_elements(s) == strip_elements_with_style(strip_tag_pair(s, "style"))

strip_suspicious_meta_tags(s) ==
  LET from[i \in 1..(Len(s) + 1)] ==
        LET start == Find(s, <<"<", "meta">>, i)
            end == Find(s, <<">">>, start)
        IN  IF start = 0 \/ end = 0 THEN Rest(s, i)
            ELSE Slice(s, i, start)
                 \o (IF Contains(SubSeq(s, start, end), "long") THEN <<>>
                     ELSE Slice(s, start, end + 1))
                 \o from[end + 1]
  IN  from[1]

strip_invisible_text(s) ==
  FlattenSeq([i \in 1..Len(s) |-> IF s[i] = "invisible" THEN <<>> ELSE <<s[i]>>])

escape_data_boundary_tags(s) ==
  replace(replace(s, CloseTag, Escaped(CloseTag)), OpenTag, Escaped(OpenTag))

collapse_whitespace(s) ==
  LET upto[i \in 0..Len(s)] ==
        CASE i = 0 -> <<>>
          [] i > 0 /\ s[i] \notin Blank -> Append(upto[i - 1], s[i])
          [] OTHER -> IF upto[i - 1] # <<>> /\ Last(upto[i - 1]) = " " THEN upto[i - 1]
                      ELSE Append(upto[i - 1], " ")
  IN  upto[Len(s)]

Notice == <<"\n", "[CONTENT TRUNCATED]">>

truncate_if_excessive(s, max_chars) ==
  IF Len(s) <= max_chars THEN s ELSE SubSeq(s, 1, max_chars) \o Notice

Stripped(s) ==
  strip_suspicious_meta_tags(strip_script_tags(strip_style_hidden_elements(strip_html_comments(s))))

(* Mutation: tags are escaped before what is invisible in them goes. *)
sanitize_content_EscapesEarly(s) ==
  truncate_if_excessive(
    collapse_whitespace(strip_invisible_text(escape_data_boundary_tags(Stripped(s)))), MaxChars)

sanitize_content(s) ==
  truncate_if_excessive(
    collapse_whitespace(escape_data_boundary_tags(strip_invisible_text(Stripped(s)))), MaxChars)

(* Past a wide character a place of the text lies within a character of    *)
(* its lower case: lower[i..] panics in strip_elements_with_style, if the  *)
(* slices of the style pass, one too far, did not before.                  *)
Panics(s) ==
  LET uncommented == strip_html_comments(s)
  IN  \E i \in 1..(Len(uncommented) - 1) : uncommented[i] = "wide"

(* What the prompt says of the card comes as it is.                        *)
Preamble(claims) ==
  <<"endpoint:">> \o claims.endpoint \o <<"\n", "domain:">> \o claims.domain
    \o <<"\n", "label:">> \o claims.label \o <<"\n", "\n">>

Section(sanitized) ==
  OpenTag \o <<"\n">> \o sanitized \o <<"\n">> \o CloseTag \o <<"\n", "question">>

build_agent_prompt(claims, sanitized) == Preamble(claims) \o Section(sanitized)

-----------------------------------------------------------------------------
Text(blocks) == FlattenSeq([i \in 1..Len(blocks) |-> blocks[i].text])

Init ==
  /\ pc = "raw"
  /\ page \in BoundedSeq(Block, MaxBlocks)
  /\ content = Text(page)
  /\ prompt = <<>>

Sanitized ==
  /\ pc = "raw"
  /\ ~Panics(content)
  /\ pc' = "sanitized"
  /\ content' = sanitize_content(content)
  /\ UNCHANGED <<page, prompt>>

(* Nothing comes back, and the agent is not asked.                         *)
Panicked ==
  /\ pc = "raw"
  /\ Panics(content)
  /\ pc' = "panicked"
  /\ content' = <<>>
  /\ UNCHANGED <<page, prompt>>

Assess(claims) ==
  /\ pc = "sanitized"
  /\ pc' = "asked"
  /\ prompt' = build_agent_prompt(claims, content)
  /\ UNCHANGED <<page, content>>

Next == Sanitized \/ Panicked \/ \E claims \in Claims : Assess(claims)

Spec == Init /\ [][Next]_vars

-----------------------------------------------------------------------------
(* Properties                                                              *)

(* A text with each run of blanks as one space: the first of a run is the  *)
(* one that stays.                                                         *)
Tidy(s) ==
  FlattenSeq([i \in 1..Len(s) |->
                IF s[i] \notin Blank THEN <<s[i]>>
                ELSE IF i > 1 /\ s[i - 1] \in Blank THEN <<>> ELSE <<" ">>])

Expected ==
  LET shown == Tidy(FlattenSeq([i \in 1..Len(page) |-> page[i].shown]))
  IN  IF Len(shown) <= MaxChars THEN shown ELSE SubSeq(shown, 1, MaxChars) \o Notice

(* The agent reads what a reader of the page sees, tidied, and nothing     *)
(* else: what is hidden is gone with its tags, what is next to it stays,   *)
(* and a text that was cut says so (the tests from sanitize.rs:196 on).    *)
OnlyShownRemains == pc \in {"sanitized", "asked"} => content = Expected

(* "Untrusted content is wrapped in a delimiter" (agent.rs:34): the        *)
(* section the prompt ends with opens once and closes once, and the whole  *)
(* content is in between, whatever the page contains.  The claims that the *)
(* prompt begins with are not cleaned, and could hold a tag of their own.  *)
Isolated ==
  pc = "asked" =>
    LET at == Len(prompt) - Len(Section(content)) + 1
    IN  /\ {i \in Occurrences(prompt, OpenTag) : i >= at} = {at}
        /\ {i \in Occurrences(prompt, CloseTag) : i >= at}
             = {at + Len(OpenTag) + Len(content) + 2}
        /\ SubSeq(prompt, at + Len(OpenTag) + 1, at + Len(OpenTag) + Len(content)) = content

(* What the code's own words promise and the sanitizer does not keep: of   *)
(* every page that remains which its reader sees (sanitize.rs:200-203).    *)
EveryPageIsRead == pc # "raw" => content = Expected

(* Texts that are complete in themselves: no pass, on its way through the  *)
(* text, looks for the end of something beyond it, and no character that   *)
(* is longer in lower case is left when the places are compared.           *)
Whole(t) == \A i \in 1..Len(t) : t[i] = "<" => \E j \in (i + 1)..Len(t) : t[j] = ">"

Narrow(t) == \A i \in 1..Len(t) : t[i] # "wide"

Closed(t, open, close) == \A i \in Occurrences(t, open) : Find(t, close, i) # 0

HiddenClosed(t) ==
  \A i \in 1..Len(t) : Hides(t, i) => Find(t, Closing(t, i), EndOfTag(t, i) + 1) # 0

Cleaned(t) == escape_data_boundary_tags(strip_invisible_text(Stripped(t)))

Complete(t) ==
  LET uncommented == strip_html_comments(t)
      unstyled == strip_tag_pair(uncommented, "style")
      shown == strip_elements_with_style(unstyled)
      unscripted == strip_script_tags(shown)
      visible == strip_invisible_text(strip_suspicious_meta_tags(unscripted))
  IN  /\ \A s \in {t, uncommented, unstyled, shown, unscripted, visible,
                   replace(visible, CloseTag, Escaped(CloseTag))} : Whole(s)
      /\ Narrow(uncommented)
      /\ Closed(t, <<"<", "!", "--">>, <<"--", ">">>)
      /\ Closed(uncommented, <<"<", "style">>, <<"<", "/", "style", ">">>)
      /\ HiddenClosed(unstyled)
      /\ Closed(shown, <<"<", "script">>, <<"<", "/", "script", ">">>)

(* Pieces of pages that are complete, where what a reader sees of one is   *)
(* what the passes leave of it when it is the whole page.                  *)
WellMade(blocks) == \A b \in blocks : Complete(b.text) /\ b.shown = Cleaned(b.text)
=============================================================================
