------------------------------ MODULE Browser --------------------------------
(***************************************************************************)
(* A page of the forum in a browser (src/static/js/main.js): links are     *)
(* followed by asking for the content alone and putting it into the page,  *)
(* and the history is kept by hand.  Answers come in any order, or never.  *)
(*                                                                         *)
(* An address is the page it names, with or without a fragment ("#").  A   *)
(* document is what lives from one load to the next; an entry of the       *)
(* history remembers its document and what pushState() gave it, if it did. *)
(* Documents are not kept when they are left: going back loads again.      *)
(***************************************************************************)
EXTENDS Integers, Sequences, FiniteSets

CONSTANTS
    Lists, Topics,      \* pages: lists of topics, and topics with a form for replies
    MaxClicks,          \* bounds: clicks on links, overlays and the form,
    MaxEntries          \* and entries of the history

Nowhere == "nowhere"
ASSUME PagesAssumption == /\ Lists \cap Topics = {} /\ Nowhere \notin Lists \cup Topics
                          /\ {MaxClicks, MaxEntries} \subseteq Nat /\ MaxEntries >= 2
Pages == Lists \cup Topics

VARIABLES
    entries, here,      \* the history, and the entry whose address is shown
    document,           \* the document that is loaded
    main,            \* the page whose content stands in #main
    form,               \* the topic whose form does, and how often its button is bound
    draft,              \* is something written in the form
    asked,              \* requests that are not answered
    overlay,            \* is the overlay open
    clicks,             \* how much has been clicked
    strayed,            \* history: has an entry without state been gone back to
    lastReply               \* history: the last reply that was sent
browserVars == <<entries, here, document, main, form, draft, asked, overlay, clicks, strayed, lastReply>>
pageVars    == <<main, form, draft>>

NoForm   == [topic |-> Nowhere, bound |-> 0]
FormOn(p) == IF p \in Topics THEN [topic |-> p, bound |-> 1] ELSE NoForm
NoState  == [content |-> Nowhere, topic |-> Nowhere]
State(p, f) == [content |-> p, topic |-> f.topic]
Entry(p, state, doc) == [page |-> p, fragment |-> FALSE, state |-> state, document |-> doc]
NoReply  == [from |-> Nowhere, to |-> Nowhere, strayed |-> FALSE, times |-> 0]

Address  == entries[here].page

-----------------------------------------------------------------------------
(* The history, and loading.                                               *)

\* Entries behind the current one are gone when another is pushed.
Pushed(e) == /\ Len(SubSeq(entries, 1, here)) < MaxEntries
             /\ entries' = Append(SubSeq(entries, 1, here), e)
             /\ here' = here + 1

\* The script of a page that is loaded for an entry pushes the same address again, with
\* a state, so that going back from there to the entry changes nothing.
LoadedAt(before, e) ==
    /\ Len(before) + 2 <= MaxEntries
    /\ entries' = before \o <<e, Entry(e.page, State(e.page, FormOn(e.page)), e.document)>>
    /\ here' = Len(before) + 2
    /\ document' = e.document
    /\ main' = e.page /\ form' = FormOn(e.page) /\ draft' = FALSE
    /\ asked' = {} /\ overlay' = FALSE /\ strayed' = FALSE

\* window.location.href = ...: a new document, in the place of the current entry if it
\* has the same address.
NewDocument == CHOOSE d \in 1 .. MaxEntries + 1 : d # document /\ \A k \in DOMAIN entries : entries[k].document # d
Load(p) ==
    LoadedAt(SubSeq(entries, 1, IF p = Address /\ ~entries[here].fragment THEN here - 1 ELSE here),
             Entry(p, NoState, NewDocument))

\* The page p is the first that is loaded.
BrowserInit(p) ==
    /\ entries = <<Entry(p, NoState, 1), Entry(p, State(p, FormOn(p)), 1)>> /\ here = 2
    /\ document = 1
    /\ main = p /\ form = FormOn(p) /\ draft = FALSE
    /\ asked = {} /\ overlay = FALSE /\ clicks = 0 /\ strayed = FALSE /\ lastReply = NoReply

-----------------------------------------------------------------------------
(* Links.                                                                  *)

\* A click asks for a page; several may be asked for at once.  What the answer does to
\* the form depends on the link.
Click(kind, p) ==
    /\ clicks < MaxClicks
    /\ clicks' = clicks + 1
    /\ asked' = asked \cup {[kind |-> kind, page |-> p, click |-> clicks]}
    /\ UNCHANGED <<entries, here, document, pageVars, overlay, strayed, lastReply>>
\* A topic; a category or the logo; the menu, or the previous and the next page.
TopicClicked == \E p \in Topics : Click("topic", p)
NodeClicked  == \E p \in Lists : Click("node", p)
MenuClicked  == \E p \in Lists : Click("menu", p)

\* The state is taken before the page is given its content.
ShowsMutant(r, p, f) ==
    /\ Pushed(Entry(p, State(main, form), document))
    /\ main' = p /\ form' = f
    /\ draft' = (draft /\ f.topic = form.topic /\ r.kind = "menu")
    /\ asked' = asked \ {r}
    /\ strayed' = FALSE
    /\ UNCHANGED <<document, overlay, clicks, lastReply>>
\* The page is given its content, and only then the address and what to come back to.
Shows(r, p, f) ==
    /\ Pushed(Entry(p, State(p, f), document))
    /\ main' = p /\ form' = f
    /\ draft' = (draft /\ f.topic = form.topic /\ r.kind = "menu")
    /\ asked' = asked \ {r}
    /\ strayed' = FALSE
    /\ UNCHANGED <<document, overlay, clicks, lastReply>>

TopicAnswered == \E r \in asked : r.kind = "topic" /\ Shows(r, r.page, FormOn(r.page))
NodeAnswered  == \E r \in asked : r.kind = "node" /\ Shows(r, r.page, NoForm)
\* These leave a form that is there, and bind its button once more.
Rebound == IF form = NoForm THEN form ELSE [form EXCEPT !.bound = @ + 1]
MenuAnswered  == \E r \in asked : r.kind = "menu" /\ Shows(r, r.page, Rebound)

\* There is nothing on that page of the list.
NothingThere ==
    \E r \in asked :
        /\ r.kind \in {"node", "menu"}
        /\ asked' = asked \ {r}
        /\ UNCHANGED <<entries, here, document, pageVars, overlay, clicks, strayed, lastReply>>

\* After three times five seconds, an error or an exception: the page is loaded.
AskingFails ==
    \E r \in asked : r.kind # "reply" /\ Load(r.page) /\ UNCHANGED <<clicks, lastReply>>

-----------------------------------------------------------------------------
(* Going back and forward, and the overlay.                                *)

\* onpopstate() returns if the entry has no state.
Strays(k) ==
    /\ entries[k].state = NoState
    /\ here' = k /\ strayed' = TRUE
    /\ UNCHANGED <<entries, document, pageVars, asked, overlay, clicks, lastReply>>
\* A state that brings back all but the form.
RestoresMutant(k) ==
    /\ entries[k].state # NoState
    /\ here' = k /\ strayed' = FALSE
    /\ main' = entries[k].state.content
    /\ UNCHANGED <<entries, document, form, draft, asked, overlay, clicks, lastReply>>
Restores(k) ==
    /\ entries[k].state # NoState
    /\ here' = k /\ strayed' = FALSE
    /\ main' = entries[k].state.content
    /\ form' = FormOn(entries[k].state.topic) /\ draft' = FALSE
    /\ UNCHANGED <<entries, document, asked, overlay, clicks, lastReply>>

\* An entry of a document that was left is loaded.
Goes(k) ==
    /\ k \in DOMAIN entries
    /\ IF entries[k].document = document THEN Strays(k) \/ Restores(k)
       ELSE LoadedAt(SubSeq(entries, 1, k - 1), entries[k]) /\ UNCHANGED <<clicks, lastReply>>
Back    == Goes(here - 1)
Forward == Goes(here + 1)

\* #login and the search open the overlay; closing it sets the fragment, which makes an
\* entry without state unless it is set already.
OverlayOpens ==
    /\ ~overlay /\ clicks < MaxClicks
    /\ overlay' = TRUE /\ clicks' = clicks + 1
    /\ UNCHANGED <<entries, here, document, pageVars, asked, strayed, lastReply>>
OverlayCloses ==
    /\ overlay
    /\ overlay' = FALSE
    /\ IF entries[here].fragment THEN UNCHANGED <<entries, here>>
       ELSE Pushed([Entry(Address, NoState, document) EXCEPT !.fragment = TRUE])
    /\ UNCHANGED <<document, pageVars, asked, clicks, strayed, lastReply>>

-----------------------------------------------------------------------------
(* Replies.                                                                *)

Writes ==
    /\ form # NoForm /\ ~draft
    /\ draft' = TRUE
    /\ UNCHANGED <<entries, here, document, main, form, asked, overlay, clicks, strayed, lastReply>>

\* #sendReply takes the topic from the address, as often as it is bound.
ReplySent ==
    /\ form # NoForm /\ draft /\ clicks < MaxClicks
    /\ clicks' = clicks + 1
    /\ lastReply' = [from |-> form.topic, to |-> Address, strayed |-> strayed, times |-> form.bound]
    /\ asked' = asked \cup {[kind |-> "reply", page |-> Address, click |-> clicks]}
    /\ UNCHANGED <<entries, here, document, pageVars, overlay, strayed>>
\* The answer of the server empties the form that is there now; one that does not come
\* makes qwest send the reply again, up to three times in all.
ReplyAnswered ==
    \E r \in asked :
        /\ r.kind = "reply"
        /\ asked' = asked \ {r}
        /\ draft' = FALSE
        /\ UNCHANGED <<entries, here, document, main, form, overlay, clicks, strayed, lastReply>>
ReplyFails ==
    \E r \in asked :
        /\ r.kind = "reply"
        /\ asked' = asked \ {r}
        /\ UNCHANGED <<entries, here, document, pageVars, overlay, clicks, strayed, lastReply>>

BrowserNext ==
    \/ TopicClicked \/ NodeClicked \/ MenuClicked
    \/ TopicAnswered \/ NodeAnswered \/ MenuAnswered \/ NothingThere \/ AskingFails
    \/ Back \/ Forward \/ OverlayOpens \/ OverlayCloses
    \/ Writes \/ ReplySent \/ ReplyAnswered \/ ReplyFails

-----------------------------------------------------------------------------

\* The address names what the page shows, whatever answers came late, unless an entry
\* without state has been gone back to, which is what closing the overlay leaves behind
\* (main.js:607, 644, 687).
PageIsAddressed == strayed \/ main = Address

\* A reply never lands under another topic than the one it was written for, under the
\* same exception: the button takes the topic from the address, the form stands in a
\* page that answers change piece by piece (main.js:95, 602, 679).  It may land nowhere: the
\* answer of the menu leaves the form under the address of a list.
RepliesGoHome == lastReply.strayed \/ lastReply.to \in {lastReply.from} \cup Lists \cup {Nowhere}

-----------------------------------------------------------------------------
\* A behaviour of a page alone, and what holds in all its states.  The state of an entry
\* is of the entry's page: its content, and its form or the form of a topic that a list
\* was shown over.
BrowserSpec == (\E p \in Pages : BrowserInit(p)) /\ [][BrowserNext]_browserVars

Entries == [page : Pages, fragment : BOOLEAN, document : 1 .. MaxEntries + 1,
            state : [content : Pages \cup {Nowhere}, topic : Topics \cup {Nowhere}]]
PageAsks == [kind : {"topic"}, page : Topics, click : Nat]
            \cup [kind : {"node", "menu"}, page : Lists, click : Nat]
            \cup [kind : {"reply"}, page : Pages, click : Nat]
BrowserTypeOK ==
    /\ entries \in Seq(Entries) /\ Len(entries) <= MaxEntries /\ here \in DOMAIN entries
    /\ document = entries[here].document
    /\ form \in [topic : Topics \cup {Nowhere}, bound : Nat]
    /\ asked \in SUBSET PageAsks /\ clicks \in Nat /\ strayed \in BOOLEAN

Fits(topic, p)  == topic = Nowhere \/ topic = p \/ p \in Lists
StateFits(e)    == e.state # NoState => e.state.content = e.page /\ Fits(e.state.topic, e.page)
BrowserIInv ==
    /\ BrowserTypeOK
    /\ \A k \in DOMAIN entries : StateFits(entries[k])
    /\ form.topic = Nowhere => form = NoForm
    /\ strayed \/ Fits(form.topic, Address)
    /\ PageIsAddressed /\ RepliesGoHome
=============================================================================
