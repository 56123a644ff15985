---------------------------- MODULE MailContent ----------------------------
(***************************************************************************)
(* What a mail says: the envelope that is rendered once for a send, and    *)
(* the copy every worker of the fan-out makes of it for its recipient.     *)
(*                                                                         *)
(*   internal/service/render/email_chrome.go   EmailHTML, EmailText        *)
(*   internal/service/send_orchestrator.go     SendNewsletter, fanOut,     *)
(*                                             TestSend                    *)
(*   internal/service/unsubscribe.go           BuildURL                    *)
(*                                                                         *)
(* The passes over the authored body rewrite each block by itself, so the  *)
(* body is one block: its elements, outermost first, the last of them the  *)
(* link if there is one.  An element lists its style attributes: the       *)
(* author's, in double or single quotes, or those the passes write.        *)
(* Addresses are tuples; <<"quoted">> is one with an apostrophe in it.     *)
(***************************************************************************)
EXTENDS Integers, Sequences

CONSTANTS Readers   \* the recipients of a send

VARIABLES
  body,       \* the authored block
  setting,    \* the kind of mail, and whether opt-out links can be made
  envelope,   \* the envelope of the send, once it is rendered
  copies,     \* the copies the workers have made of it
  mailed      \* the recipients whose copy is with the email service

mailVars == <<body, setting, envelope, copies, mailed>>

Placeholder == <<"placeholder">>
BuildURL(r) == <<"optOut", r>>

Hrefs == {<<"page">>, <<"quoted">>, Placeholder, <<>>}
Labels == {"text", "href", "rich"}      \* rich: a label with tags in it
Authored == {<<>>, <<"double">>, <<"single">>}
Elements(tags) == [tag : tags, styles : Authored]

Optional(elements) == {<<>>} \cup {<<e>> : e \in elements}
Blocks ==       \* an outer element, perhaps a wrapper, perhaps a link
  {<<e[1]>> \o e[2] \o e[3] :
     e \in Elements({"p", "li"}) \X Optional(Elements({"strong", "em"}))
                                \X Optional(Elements({"a"}))}

Bodies == [elements : Blocks, alone : BOOLEAN, href : Hrefs, label : Labels]

HasLink(b) == b.elements[Len(b.elements)].tag = "a"

-----------------------------------------------------------------------------
(***************************************************************************)
(* inlineBodyStyles: a supported tag without a style attribute gets one.   *)
(***************************************************************************)
BodyTags == {"p", "h2", "h3", "ul", "ol", "li", "blockquote", "hr", "a", "strong", "b"}

InlineBodyStyles(b) ==
  [b EXCEPT !.elements = [i \in DOMAIN @ |->
     IF @[i].tag \in BodyTags /\ @[i].styles = <<>>
       THEN [@[i] EXCEPT !.styles = <<"base">>] ELSE @[i]]]

(***************************************************************************)
(* convertStandaloneCtas: a paragraph that is nothing but a link, within   *)
(* wrappers that carry no attribute, becomes a button.  Of the link's own  *)
(* style attribute the pass sees only one in double quotes, and drops it.  *)
(***************************************************************************)
IsStandaloneCta(b) ==
  /\ b.alone /\ HasLink(b) /\ b.label # "rich"
  /\ b.elements[1].tag = "p"
  /\ \A i \in 2 .. Len(b.elements) - 1 :
       /\ b.elements[i].tag \in {"strong", "em", "b", "i"}
       /\ b.elements[i].styles = <<>>

ConvertStandaloneCtasButKeepsStyle(b) ==
  IF ~ IsStandaloneCta(b) THEN b
  ELSE [b EXCEPT !.elements = <<[tag |-> "p", styles |-> <<"cta">>],
         [tag |-> "a", styles |-> Append(@[Len(@)].styles, "button")]>>]
ConvertStandaloneCtas(b) ==
  IF ~ IsStandaloneCta(b) THEN b
  ELSE [b EXCEPT !.elements =
         <<[tag |-> "p", styles |-> <<"cta">>],
           [tag |-> "a", styles |-> IF @[Len(@)].styles = <<"single">>
                                    THEN <<"single", "button">> ELSE <<"button">>]>>]

(***************************************************************************)
(* preserveLinkDestinations and stripHTML: the addresses the text shows.   *)
(* An address ends at the first quote of either kind; the label shows its  *)
(* own in full.                                                            *)
(***************************************************************************)
UpToQuote(href) == IF href = <<"quoted">> THEN <<"cut">> ELSE href

PreserveLinkDestinationsButSkips(b) ==
  IF HasLink(b) /\ b.label = "href" THEN {b.href} \ {<<>>} ELSE {}
PreserveLinkDestinations(b) ==
  IF ~ HasLink(b) \/ b.href = <<>> THEN {}
  ELSE IF b.label = "href" THEN {b.href, UpToQuote(b.href)}
  ELSE {UpToQuote(b.href)}

(***************************************************************************)
(* The compliance footer ends with the opt-out link, or with the copy that *)
(* asks for a reply.  A test mail has none.                                *)
(***************************************************************************)
UnsubscribeURL(s) == IF s.enabled THEN Placeholder ELSE <<>>
ComplianceFooter(s) ==
  IF s.kind = "test" THEN <<>>
  ELSE IF UnsubscribeURL(s) # <<>> THEN UnsubscribeURL(s) ELSE <<"reply">>

EmailHTML(b, s) ==
  [block  |-> ConvertStandaloneCtas(InlineBodyStyles(b)),
   footer |-> ComplianceFooter(s)]
EmailText(b, s) ==
  [shows |-> PreserveLinkDestinations(b), footer |-> ComplianceFooter(s)]

-----------------------------------------------------------------------------
MailInit ==
  /\ body \in Bodies
  /\ setting \in [kind : {"send", "test"}, enabled : BOOLEAN]
  /\ envelope = {}
  /\ copies = <<>>
  /\ mailed = {}

Render ==
  /\ envelope = {}
  /\ envelope' = {[html |-> EmailHTML(body, setting), text |-> EmailText(body, setting)]}
  /\ UNCHANGED <<body, setting, copies, mailed>>

(***************************************************************************)
(* A worker replaces the placeholder throughout its copy, whoever wrote it.*)
(***************************************************************************)
Put(href, url) == IF href = Placeholder THEN url ELSE href

Substituted(e, url) ==
  [html |-> [e.html EXCEPT !.block.href = Put(@, url), !.footer = Put(@, url)],
   text |-> [shows  |-> {Put(h, url) : h \in e.text.shows},
             footer |-> Put(e.text.footer, url)]]

PersonaliseButShared(r) ==
  /\ setting.kind = "send" /\ r \notin DOMAIN copies
  /\ \E e \in envelope :
       LET own == IF setting.enabled THEN Substituted(e, BuildURL(r)) ELSE e
       IN  /\ envelope' = {own}
           /\ copies' = [x \in DOMAIN copies \cup {r} |-> IF x = r THEN own ELSE copies[x]]
  /\ UNCHANGED <<body, setting, mailed>>
Personalise(r) ==
  /\ setting.kind = "send" /\ r \notin DOMAIN copies
  /\ \E e \in envelope :
       LET own == IF setting.enabled THEN Substituted(e, BuildURL(r)) ELSE e
       IN  copies' = [x \in DOMAIN copies \cup {r} |-> IF x = r THEN own ELSE copies[x]]
  /\ UNCHANGED <<body, setting, envelope, mailed>>

TestCopy(r) ==
  /\ setting.kind = "test" /\ DOMAIN copies = {}
  /\ \E e \in envelope : copies' = [x \in {r} |-> e]
  /\ UNCHANGED <<body, setting, envelope, mailed>>

Hand(r) ==
  /\ r \in DOMAIN copies /\ r \notin mailed
  /\ mailed' = mailed \cup {r}
  /\ UNCHANGED <<body, setting, envelope, copies>>

MailNext ==
  \/ Render
  \/ \E r \in Readers : Personalise(r) \/ TestCopy(r) \/ Hand(r)

MailSpec == MailInit /\ [][MailNext]_mailVars

-----------------------------------------------------------------------------
Addresses == Hrefs \cup {<<"cut">>, <<"reply">>} \cup {BuildURL(r) : r \in Readers}

(***************************************************************************)
(* Both halves of a mail are of the right shape, and a mail that is out    *)
(* has a copy behind it.                                                   *)
(***************************************************************************)
MailTypeOK ==
  /\ body \in Bodies
  /\ setting \in [kind : {"send", "test"}, enabled : BOOLEAN]
  /\ mailed \subseteq DOMAIN copies /\ DOMAIN copies \subseteq Readers
  /\ \A e \in envelope \cup {copies[r] : r \in DOMAIN copies} :
       /\ {e.html.block.href, e.html.footer, e.text.footer} \cup e.text.shows
            \subseteq Addresses
       /\ \A i \in DOMAIN e.html.block.elements :
            Len(e.html.block.elements[i].styles) \in 0 .. 2

(***************************************************************************)
(* The workers make their copies from one envelope at the same time, yet   *)
(* every mail of a send carries its own recipient's opt-out link in both   *)
(* halves and no placeholder anywhere (send_orchestrator.go:462-472);      *)
(* without links it asks for a reply, and a test mail asks for nothing.    *)
(***************************************************************************)
OwnOptOut ==
  \A r \in mailed :
    /\ copies[r].html.footer = copies[r].text.footer
    /\ copies[r].html.footer = IF setting.kind = "test" THEN <<>>
                               ELSE IF setting.enabled THEN BuildURL(r) ELSE <<"reply">>
    /\ setting.kind = "send" /\ setting.enabled =>
         Placeholder \notin {copies[r].html.block.href} \cup copies[r].text.shows

(***************************************************************************)
(* Two passes write style attributes and authors do too, and no element    *)
(* leaves with two of them, of which a mail client drops one, unless the   *)
(* author styled the link of a button in single quotes                     *)
(* (email_chrome.go:160).  Outside buttons the author's style wins.        *)
(***************************************************************************)
OneStyle ==
  \A r \in mailed :
    LET sent == copies[r].html.block.elements
    IN  /\ \A i \in DOMAIN sent :
             Len(sent[i].styles) > 1 => sent[i].styles = <<"single", "button">>
        /\ sent[1].styles # <<"cta">> => \A i \in DOMAIN body.elements :
             body.elements[i].styles # <<>> => sent[i].styles = body.elements[i].styles

(***************************************************************************)
(* Whatever the passes make of a link, it leads where the author meant it  *)
(* to in the HTML, and the text tells where that is too                    *)
(* (email_chrome.go:180-183), but for an address with an apostrophe.       *)
(***************************************************************************)
LinksSurvive ==
  \A r \in mailed : HasLink(body) =>
    LET href == IF setting.kind = "send" /\ setting.enabled
                  THEN Put(body.href, BuildURL(r)) ELSE body.href
    IN  /\ HasLink(copies[r].html.block)
        /\ copies[r].html.block.href = href
        /\ href \in copies[r].text.shows \cup {<<>>, <<"quoted">>}
=============================================================================
