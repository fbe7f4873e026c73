---------------------------- MODULE MCSanitize ----------------------------
(***************************************************************************)
(* Small pages: up to four pieces, each complete in itself, of every kind  *)
(* that a pass looks for.                                                  *)
(***************************************************************************)
EXTENDS Sanitize

Seen(text) == [text |-> text, shown |-> text]
Unseen(text) == [text |-> text, shown |-> <<>>]

Comment(inner) == <<"<", "!", "--">> \o inner \o <<"--", ">">>
Element(name, attributes, inner) ==
  <<"<", name>> \o attributes \o <<">">> \o inner \o <<"<", "/", name, ">">>

MCMarkup ==
  {Seen(<<"a">>), Seen(<<" ">>), Seen(<<"\n", " ">>),
   Unseen(<<"invisible">>),
   Unseen(Comment(<<"b">>)), Unseen(Comment(<<"<", "script">>)),
   Unseen(Element("script", <<>>, Comment(<<"b">>))),
   Unseen(Element("style", <<>>, <<"b">>)),
   Unseen(Element("div", <<"hidden">>, <<"b">>)),
   Seen(Element("div", <<>>, <<"a">>)),
   Seen(<<"<", "meta", ">">>), Unseen(<<"<", "meta", "long", ">">>),
   [text |-> OpenTag, shown |-> Escaped(OpenTag)],
   [text |-> <<"<", "/", "UNTRUSTED_", "invisible", "DATA", ">">>, shown |-> Escaped(CloseTag)]}

ASSUME PiecesAreWellMade == WellMade(MCMarkup)

(* And a character that is longer in lower case. *)
MCBlock == MCMarkup \cup {Seen(<<"wide">>)}

(* A label as it is, and one that holds a tag: harden_label lets it through. *)
MCClaims ==
  {[endpoint |-> <<"e">>, domain |-> <<"d">>, label |-> l] : l \in {<<"(none)">>, OpenTag}}

(* Less of the rest. *)
MCWideBlock ==
  {Seen(<<"wide">>), Seen(<<"a">>), Unseen(Element("script", <<>>, <<"b">>))}
=============================================================================
