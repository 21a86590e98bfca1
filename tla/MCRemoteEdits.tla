--------------------------- MODULE MCRemoteEdits ---------------------------
(* Instances of RemoteEdits for TLC: one received message, at most three   *)
(* invocations.                                                            *)
EXTENDS RemoteEdits, TLC

CONSTANTS me, ann, bob, al

A(w) == [who |-> w, caps |-> FALSE]
Caps(w) == [who |-> w, caps |-> TRUE]

Plain(kinds) == [html |-> FALSE, balanced |-> TRUE, parts |-> [i \in DOMAIN kinds |-> Line(kinds[i])]]
Html(level) == [html |-> TRUE, balanced |-> TRUE, parts |-> <<level>>]
NoText == Plain(<<>>)
NoMarkup == [html |-> TRUE, balanced |-> TRUE, parts |-> <<>>]
Subject(re) == [re |-> re, broken |-> FALSE]

MCMe == A(me)
MCWho == {me, ann, bob, al}

(* Letter 1: its References, headers and bodies.                          *)
Letter == [id |-> 1, thread |-> 1, from |-> A(ann), to |-> <<A(me), A(bob)>>,
            cc |-> <<Caps(bob), Caps(me), A(al)>>, subject |-> Subject(0), refs |-> <<0>>,
            body |-> Plain(<<"text">>)]

MCReceived ==
    {Letter,
     \* one that names itself in References, in HTML
     [Letter EXCEPT !.refs = <<0, 1>>, !.subject = Subject(1), !.body = Html(<<"box">>)],
     \* headers that cannot be parsed or are missing
     [Letter EXCEPT !.cc = Malformed, !.from = None],
     [Letter EXCEPT !.id = None],
     \* a subject with a line break, and history with an answer below it
     [Letter EXCEPT !.subject.broken = TRUE,
                     !.body.parts = Plain(<<"text", "attribution">>).parts
                                      \o <<[q |-> 1, k |-> "text"], Line("text")>>],
     \* history as mail programs include it, and as this one quotes it
     [Letter EXCEPT !.body = Plain(<<"blank", "on", "text", "wrote", "blank">>),
                     !.body.parts = @ \o <<[q |-> 1, k |-> "text"]>>],
     [Letter EXCEPT !.body = Plain(<<"text", "marker", "from", "sent", "to", "subject", "text">>)],
     \* what is left alone: headers that are not all there, headers without
     \* a marker, and a message that is forwarded
     [Letter EXCEPT !.body = Plain(<<"text", "marker", "from", "to", "subject", "text">>)],
     [Letter EXCEPT !.body = Plain(<<"from", "sent", "to", "subject", "blank", "text">>)],
     [Letter EXCEPT !.body = Plain(<<"forwarded", "marker", "from", "sent", "to", "subject", "text">>)],
     \* HTML: an answer below the quote, the quote of a client with its
     \* attribution, deeper inside, a divider, and tags that are not closed
     [Letter EXCEPT !.body = Html(<<"text", "quote", "space", "text">>)],
     [Letter EXCEPT !.body = Html(<<"text", "box">>),
                     !.body.parts = Append(@, <<"text", "cite", "space", "quote", "space">>)],
     [Letter EXCEPT !.body = Html(<<"text", "rule", "text", "quote">>)],
     [Letter EXCEPT !.body = Html(<<"text", "quote">>), !.body.balanced = FALSE]}

New(text, to) ==
    [reply |-> FALSE, all |-> FALSE, quote |-> TRUE, from |-> None, to |-> to, cc |-> None,
     subject |-> Subject(0), text |-> text, sources |-> 1, formats |-> 1, atts |-> 1]

Reply(text, all) ==
    [New(text, None) EXCEPT !.reply = TRUE, !.all = all, !.subject = None, !.atts = 0]

MCComposition ==
    {New(Plain(<<"text">>), <<A(ann)>>),
     Reply(Plain(<<"text", "on">>), TRUE),
     Reply(Html(<<"text", "box">>), FALSE),
     [Reply(NoText, FALSE) EXCEPT !.sources = 0, !.to = <<A(bob)>>],
     [Reply(NoMarkup, TRUE) EXCEPT !.sources = 0, !.formats = 0, !.from = Caps(al)],
     [Reply(Plain(<<"text", "forwarded">>), FALSE) EXCEPT !.cc = <<A(al)>>],
     [Reply(Plain(<<"text">>), TRUE) EXCEPT !.quote = FALSE],
     \* refused: --reply-all alone
     [New(Plain(<<"text">>), <<A(ann)>>) EXCEPT !.all = TRUE]}

MCWebHeaders == {<<>>, <<A(al)>>}

Off == [on |-> FALSE, contacts |-> FALSE, subject |-> 0, plain |-> 0, html |-> 0, start |-> 0, end |-> 0]
MCWebVacations ==
    {Off,
     [Off EXCEPT !.on = TRUE, !.contacts = TRUE, !.plain = 1, !.html = 1, !.start = 1, !.end = 2]}
MCVacationArgs == {<<>>, "plain" :> 2, "start" :> 2, "end" :> 1,
                   [contacts |-> FALSE, subject |-> 1], [start |-> 3, end |-> 3],
                   [start |-> 2, end |-> 3]}

MCGuests == {me :> "needsAction" @@ ann :> "accepted", ann :> "accepted",
             me :> "needsAction" @@ ann :> "declined" @@ bob :> "needsAction"}

Card == [given |-> 0, family |-> 0, phonetic |-> 0, org |-> 0, title |-> 0, more |-> 0, email |-> 0]
MCWebContacts ==
    {[Card EXCEPT !.phonetic = 1, !.org = 2, !.more = 1],
     [Card EXCEPT !.family = 2, !.phonetic = 2, !.title = 2]}
MCContactArgs == {<<>>, "given" :> 0, [given |-> 1, family |-> 0], [title |-> 0, org |-> 1, email |-> 1]}

-----------------------------------------------------------------------------
(* The mailbox, the responder, the event and the contact share no state    *)
(* and no command is about two of them: a behaviour that is explored is    *)
(* about one.                                                              *)
Ops == {run[p].op : p \in Proc}

About(ops, touched) == touched \/ ops \cap Ops # {}

Touched ==
    {o \in 1..4 :
        CASE o = 1 -> About({"draft", "send"}, mail # <<Letter>> \/ drafts # <<>>)
          [] o = 2 -> About(OnVacation, vacation # Off)
          [] o = 3 -> About({"rsvp", "color"},
                            event # [attendees |-> me :> "needsAction" @@ ann :> "accepted",
                                     color |-> 0])
          [] o = 4 -> About(OnContact, contact # Over([etag |-> 0], [Card EXCEPT !.phonetic = 1, !.org = 2, !.more = 1]))}

OneObject == Cardinality(Touched) <= 1

Symmetry == Permutations(Proc)
=============================================================================
