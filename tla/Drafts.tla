------------------------------- MODULE Drafts -------------------------------
(***************************************************************************)
(* Mail drafts: "mail draft" of gro and grw, which composes a message or a *)
(* reply and leaves it in the Drafts folder, and "grw mail send", which    *)
(* shows a draft and sends it (internal/cmd/mail/draft.go,                 *)
(* internal/api/gmail/drafts.go, internal/rwcmd/mail/send.go,              *)
(* internal/rw/gmail/drafts.go); beside them the user's web client.        *)
(*                                                                         *)
(* A message that was sent is in the mailbox and can be replied to.  Every *)
(* request to Gmail is one step; its answer may be lost.                   *)
(***************************************************************************)
EXTENDS Replies

CONSTANTS
    Proc,          \* invocations that may run at the same time
    Me,            \* the account, an address
    Received,      \* messages the mailbox may start with
    Composition,   \* flags of "mail draft"
    WebHeaders,    \* To headers that the web client may give a draft
    MaxStarts,     \* bound on invocations
    MaxFaults,     \* bound on failed requests, lost answers and interrupts
    MaxEdits       \* bound on changes other clients make

SubjectLine == [re : Nat, broken : BOOLEAN]   \* how often "Re:", and a line break in it
Header == Seq(Address) \cup {Malformed}

(* A message; its number is its place in the mailbox, and those that are   *)
(* only in the mailboxes of others have the numbers up to 0.               *)
Message == [id : Nat \cup {None}, thread : Nat, from : Address \cup {None, Malformed},
            to : Header, cc : Header, subject : SubjectLine, refs : Seq(Int), body : Body]

(* The References of message n: each once, and n itself last if at all.    *)
Chained(refs, n) ==
    /\ \A i, j \in DOMAIN refs : refs[i] = refs[j] => i = j
    /\ \A i \in DOMAIN refs : refs[i] <= n /\ (refs[i] = n => i = Len(refs))

(* Flags of "mail draft": a flag that is not given is None, and "sources"  *)
(* and "formats" are the numbers of flags that give the body and its       *)
(* format.                                                                 *)
Flags == [reply : BOOLEAN, all : BOOLEAN, quote : BOOLEAN,
          from : Address \cup {None, Malformed}, to : Header \cup {None}, cc : Header \cup {None},
          subject : SubjectLine \cup {None}, text : Body, sources : Nat, formats : Nat, atts : Nat]

ASSUME DraftsAssumption ==
    /\ Me \in Address
    /\ Received \subseteq {m \in Message : m.id \in {None, 1} /\ Chained(m.refs, 1)}
    /\ Composition \subseteq Flags
    /\ WebHeaders \subseteq Seq(Address)
    /\ {MaxStarts, MaxFaults, MaxEdits} \subseteq Nat

VARIABLES
    mail,     \* the messages of the account, a sequence
    drafts,   \* drafts[n]: the draft with ID n, or None when it is gone
    sent,     \* what was sent: of which draft, after what preview (history)
    run,      \* run[p]: invocation p
    starts, faults, edits   \* counts of what is bounded

mailbox == <<mail, drafts, sent>>
counts == <<starts, faults, edits>>
draftVars == <<mailbox, run, counts>>

(* No invocation: none was started, or it has ended, however it did.       *)
Idle == [pc |-> "idle", op |-> None, arg |-> None, src |-> None, parent |-> 0, self |-> {},
         shown |-> None, got |-> None, since |-> {}]

DraftInit ==
    /\ mail \in {<<m>> : m \in Received}
    /\ drafts = <<>>
    /\ sent = <<>>
    /\ run = [p \in Proc |-> Idle]
    /\ starts = 0 /\ faults = 0 /\ edits = 0

End(p) == run' = [run EXCEPT ![p] = Idle]

At(p, op, label) == run[p].op = op /\ run[p].pc = label

(* An invocation with its arguments starts, and ends at once when it is    *)
(* refused or has nothing to do ("idle").                                  *)
Start(p, op, arg, first) ==
    /\ run[p] = Idle
    /\ starts < MaxStarts
    /\ starts' = starts + 1
    /\ run' = [run EXCEPT ![p] = IF first = "idle" THEN Idle
                                 ELSE [Idle EXCEPT !.pc = first, !.op = op, !.arg = arg]]
    /\ UNCHANGED <<faults, edits>>

(* A request that fails, or a signal: the invocation ends here.            *)
Stop(p) ==
    /\ run[p] # Idle
    /\ faults < MaxFaults
    /\ faults' = faults + 1
    /\ End(p)
    /\ UNCHANGED <<starts, edits>>

(* A request that was carried out has its answer, or the answer is lost,   *)
(* which the user is told as a failure.                                    *)
Answered ==
    \/ UNCHANGED counts
    \/ faults < MaxFaults /\ faults' = faults + 1 /\ UNCHANGED <<starts, edits>>

-----------------------------------------------------------------------------
(* mail draft.                                                             *)

(* The flags that are accepted.  A file that cannot be read ends the       *)
(* command here too.                                                       *)
FlagsAccepted(f) ==
    /\ f.all => f.reply
    /\ ~f.quote => f.reply
    /\ ~f.reply => f.to # None /\ f.subject # None
    /\ f.to # <<>>
    /\ f.to # Malformed /\ f.cc # Malformed /\ f.from # Malformed
    /\ f.sources = 1 \/ (f.reply /\ f.sources = 0)
    /\ f.formats <= 1

Needs(f) == [to |-> f.to = None, cc |-> f.all /\ f.cc = None, subject |-> f.subject = None]

(* The flags are looked at before anything else.                           *)
FirstRequest(f) == IF ~FlagsAccepted(f) THEN "idle" ELSE IF f.reply THEN "source" ELSE "create"

(* GetMessage of any message there is; its copy is what is replied to.     *)
GetSource(p) ==
    /\ At(p, "draft", "source")
    /\ \E n \in DOMAIN mail :
          run' = [run EXCEPT ![p].src = mail[n], ![p].parent = n,
                             ![p].pc = IF Needs(run[p].arg).cc THEN "profile" ELSE "create"]
    /\ UNCHANGED <<mailbox, counts>>

(* The alias given with --from is the user's own address.                  *)
Own(f) == IF f.from = None THEN {} ELSE {Lower(f.from)}

(* So is the address of the account.                                       *)
GetProfile(p) ==
    /\ At(p, "draft", "profile")
    /\ run' = [run EXCEPT ![p].self = {Lower(Me)} \cup Own(run[p].arg), ![p].pc = "create"]
    /\ UNCHANGED <<mailbox, counts>>

Given(flag, derived) == IF flag = None THEN derived ELSE flag
Headers(flag) == IF flag = None THEN <<>> ELSE flag

(* The draft of a message that answers nothing.                            *)
NewDraft(f) ==
    [to |-> f.to, cc |-> Headers(f.cc), from |-> f.from, subject |-> f.subject,
     inReplyTo |-> None, refs |-> <<>>, thread |-> None, body |-> f.text, atts |-> f.atts,
     flags |-> f, parent |-> 0, edited |-> 0]

(* The draft of a reply: what the source gives where no flag does.         *)
ReplyDraft(f, src, parent, self) ==
    LET d == DeriveReplyDefaults(src, Needs(f), self)
    IN  [to |-> Given(f.to, d.to),
         cc |-> IF Needs(f).cc THEN d.cc ELSE Headers(f.cc),
         from |-> f.from,
         subject |-> Given(f.subject, d.subject),
         inReplyTo |-> d.inReplyTo, refs |-> d.refs, thread |-> d.thread,
         body |-> IF f.quote /\ ~Empty(src.body) THEN WithQuote(f.text, src.body) ELSE f.text,
         atts |-> f.atts, flags |-> f, parent |-> parent, edited |-> 0]

Composed(p) ==
    IF run[p].arg.reply THEN ReplyDraft(run[p].arg, run[p].src, run[p].parent, run[p].self)
    ELSE NewDraft(run[p].arg)

(* buildMIME: recipients, and no line break in a header.                   *)
Buildable(d) == d.to # <<>> /\ ~d.subject.broken

Creatable(p) ==
    /\ run[p].arg.reply => Derivable(run[p].src, Needs(run[p].arg))
    /\ Buildable(Composed(p))

CreateDraft(p) ==
    /\ At(p, "draft", "create")
    /\ Creatable(p)
    /\ drafts' = Append(drafts, Composed(p))
    /\ End(p) /\ Answered
    /\ UNCHANGED <<mail, sent>>

CreateRefused(p) ==
    /\ At(p, "draft", "create")
    /\ ~Creatable(p)
    /\ End(p)
    /\ UNCHANGED <<mailbox, counts>>

-----------------------------------------------------------------------------
(* grw mail send; its argument is [id, dry].                               *)

Present(n) == n \in DOMAIN drafts /\ drafts[n] # None

(* Mutant: the metadata format, which has no parts, is asked for.          *)
SummaryOfMetadata(d) == [to |-> d.to, cc |-> d.cc, from |-> d.from, subject |-> d.subject,
                         atts |-> 0, edited |-> d.edited]

(* What a preview shows.                                                   *)
Summary(d) == [to |-> d.to, cc |-> d.cc, from |-> d.from, subject |-> d.subject,
               atts |-> d.atts, edited |-> d.edited]

(* GetDraft, the preview, and what ends the command after it.              *)
GetDraft(p) ==
    /\ At(p, "send", "preview")
    /\ LET n == run[p].arg.id IN
       IF ~Present(n) \/ run[p].arg.dry \/ (drafts[n].to = <<>> /\ drafts[n].cc = <<>>) THEN End(p)
       ELSE run' = [run EXCEPT ![p].shown = Summary(drafts[n]), ![p].pc = "send"]
    /\ UNCHANGED <<mailbox, counts>>

(* Gmail's part of a send: the draft becomes a message of the account.     *)
Deliver(n, d, shown) ==
    /\ mail' = Append(mail, [id |-> Len(mail) + 1,
                             thread |-> IF d.thread = None THEN Len(mail) + 1 ELSE d.thread,
                             from |-> IF d.from = None THEN Me ELSE d.from,
                             to |-> d.to, cc |-> d.cc, subject |-> d.subject, refs |-> d.refs,
                             body |-> d.body])
    /\ sent' = Append(sent, [draft |-> n, shown |-> shown, as |-> d])

(* Mutant: what was fetched for the preview is sent as a new message.      *)
SendDraftCopy(p) ==
    /\ At(p, "send", "send")
    /\ Present(run[p].arg.id)
    /\ Deliver(run[p].arg.id, drafts[run[p].arg.id], run[p].shown)
    /\ UNCHANGED drafts
    /\ End(p) /\ Answered

(* Drafts.Send names the draft, and Gmail takes it as it is by now.        *)
SendDraft(p) ==
    /\ At(p, "send", "send")
    /\ Present(run[p].arg.id)
    /\ Deliver(run[p].arg.id, drafts[run[p].arg.id], run[p].shown)
    /\ drafts' = [drafts EXCEPT ![run[p].arg.id] = None]
    /\ End(p) /\ Answered

SendRefused(p) ==
    /\ At(p, "send", "send")
    /\ ~Present(run[p].arg.id)
    /\ End(p)
    /\ UNCHANGED <<mailbox, counts>>

-----------------------------------------------------------------------------
(* The web client.                                                         *)

WebEdits == edits < MaxEdits /\ edits' = edits + 1 /\ UNCHANGED <<starts, faults>>

(* A draft is edited, deleted or sent there.                               *)
WebEditDraft(n) ==
    /\ Present(n) /\ WebEdits
    /\ \E to \in WebHeaders :
          drafts' = [drafts EXCEPT ![n].to = to, ![n].cc = <<>>, ![n].edited = @ + 1]
    /\ UNCHANGED <<mail, sent, run>>

WebDeleteDraft(n) ==
    /\ Present(n) /\ WebEdits
    /\ drafts' = [drafts EXCEPT ![n] = None]
    /\ UNCHANGED <<mail, sent, run>>

WebSendDraft(n) ==
    /\ Present(n) /\ WebEdits
    /\ drafts[n].to # <<>>
    /\ Deliver(n, drafts[n], None)
    /\ drafts' = [drafts EXCEPT ![n] = None]
    /\ UNCHANGED run

DraftStep(p) ==
    \/ GetSource(p) \/ GetProfile(p)
    \/ CreateDraft(p) \/ CreateRefused(p)
    \/ GetDraft(p) \/ SendDraft(p) \/ SendRefused(p)

StartDraft(p) ==
    /\ \E f \in Composition : Start(p, "draft", f, FirstRequest(f))
    /\ UNCHANGED mailbox

StartSend(p) ==
    /\ \E n \in DOMAIN drafts, dry \in BOOLEAN :
          Start(p, "send", [id |-> n, dry |-> dry], "preview")
    /\ UNCHANGED mailbox

WebDraft == \E n \in DOMAIN drafts : WebEditDraft(n) \/ WebDeleteDraft(n) \/ WebSendDraft(n)

-----------------------------------------------------------------------------
(* Properties.                                                             *)

Draft == [to : Seq(Address), cc : Seq(Address), from : Address \cup {None},
          subject : SubjectLine, inReplyTo : Nat \cup {None}, refs : Seq(Int),
          thread : Nat \cup {None}, body : Body, atts : Nat, flags : Flags, parent : Nat,
          edited : Nat]

Preview == [to : Seq(Address), cc : Seq(Address), from : Address \cup {None},
            subject : SubjectLine, atts : Nat, edited : Nat]

DraftRun ==
    {r \in [pc : {"source", "profile", "create"}, op : {"draft"}, arg : Flags,
            src : Message \cup {None}, parent : Nat, self : SUBSET Who, shown : {None},
            got : {None}, since : {{}}] :
        FlagsAccepted(r.arg) /\ (r.arg.reply /\ r.pc # "source" => r.src \in Message)}

SendRun ==
    {r \in [pc : {"preview", "send"}, op : {"send"}, arg : [id : Nat, dry : BOOLEAN],
            src : {None}, parent : {0}, self : {{}}, shown : Preview \cup {None}, got : {None},
            since : {{}}] :
        r.pc = "send" => r.shown \in Preview}

(* The types of the mailbox: every draft has recipients that can be        *)
(* parsed, whatever the source and the flags were.                         *)
DraftTypeOK ==
    /\ mail \in Seq(Message)
    /\ drafts \in Seq(Draft \cup {None})
    /\ sent \in Seq([draft : Nat, shown : Preview \cup {None}, as : Draft])
    /\ starts \in 0..MaxStarts /\ faults \in 0..MaxFaults /\ edits \in 0..MaxEdits

(* What the program composed, and nobody edited.                           *)
Replied == {d \in {drafts[n] : n \in DOMAIN drafts} \ {None} : d.parent > 0 /\ d.edited = 0}

(* A draft is sent at most once, whatever is lost, repeated or sent at the *)
(* same time by another invocation or in the web client.                   *)
SentOnce == \A i, j \in DOMAIN sent : sent[i].draft = sent[j].draft => i = j

(* What "grw mail send" sends is what its preview showed - recipients,     *)
(* sender, subject and number of attachments -, unless the draft was       *)
(* edited after the preview.                                               *)
SentAsShown ==
    \A i \in DOMAIN sent :
        sent[i].shown # None /\ sent[i].shown.edited = sent[i].as.edited =>
            \A f \in {"to", "cc", "from", "subject", "atts"} : sent[i].shown[f] = sent[i].as[f]

(* A reply to all reaches everybody the source names except the user       *)
(* himself, under whatever spelling; nobody is in Cc twice.                *)
ReplyReachesAll ==
    \A d \in Replied :
        d.flags.all /\ d.flags.to = None /\ d.flags.cc = None =>
            LET src == mail[d.parent]
                own == {Lower(Me)} \cup Own(d.flags)
            IN  /\ Folded(d.to) \cup Folded(d.cc) \cup own
                     = {Lower(src.from)} \cup Folded(src.to) \cup Folded(src.cc) \cup own
                /\ Folded(d.cc) \cap own = {}
                /\ Cardinality(Folded(d.cc)) = Len(d.cc)

(* A reply stays in the thread of its source, and its References are the   *)
(* source's with the source at the end, each message once, through any     *)
(* number of replies to replies.                                           *)
ThreadChain ==
    \A d \in Replied :
        LET src == mail[d.parent]
        IN  /\ d.thread = src.thread
            /\ d.inReplyTo = src.id /\ Last(d.refs) = src.id
            /\ IsPrefix(src.refs, d.refs)
            /\ \A i, j \in DOMAIN d.refs : d.refs[i] = d.refs[j] => i = j

(* Reading a reply that the program composed hides what it quotes and      *)
(* nothing else: the authored text stays as it was written.                *)
ReadBack ==
    \A d \in Replied :
        LET text == d.flags.text
        IN  d.flags.quote /\ SourceShows(mail[d.parent].body) /\ ~LooksQuoted(text) =>
               ElideQuotedReplyBody(d.body).parts = Elided(text)

(* Reading any message, plain or HTML, hides no line that somebody wrote:  *)
(* what is hidden is at the end and is marked as quoted, with the          *)
(* attribution above it, or is a message below its headers and a marker.   *)
NothingWrittenIsHidden == \A n \in DOMAIN mail : HidesHistory(mail[n].body)

(* Both: reading hides quoted history, all of it and nothing else.         *)
HidesQuotesOnly == ReadBack /\ NothingWrittenIsHidden
=============================================================================
