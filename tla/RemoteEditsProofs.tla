------------------------- MODULE RemoteEditsProofs -------------------------
EXTENDS RemoteEdits, RepliesProofs

-----------------------------------------------------------------------------
(* What is composed is a draft.                                            *)

LEMMA QuotePlainTyped ==
    ASSUME NEW lines \in Seq(TextLine)
    PROVE  QuotePlain(lines) \in Seq(TextLine)
<1>1. /\ Len(lines) \in Nat /\ DOMAIN lines = 1..Len(lines)
      /\ \A i \in 1..Len(lines) : lines[i] \in TextLine
  OBVIOUS
<1>2. \A i \in 1..Len(lines) : [lines[i] EXCEPT !.q = @ + 1] \in TextLine
  BY <1>1 DEF TextLine
<1> QED BY <1>1, <1>2 DEF QuotePlain

LEMMA LineTyped == ASSUME NEW k \in LineKind PROVE <<Line(k)>> \in Seq(TextLine)
<1>1. Line(k) \in TextLine
  BY DEF Line, TextLine
<1> QED BY <1>1

LEMMA WithQuoteTyped ==
    ASSUME NEW text \in Body, NEW source \in Body
    PROVE  WithQuote(text, source) \in Body
<1>1. CASE text.html
  <2>1. text.parts \in Seq(Seq(NodeKind)) /\ text.balanced \in BOOLEAN
    BY <1>1 DEF Body
  <2>2. <<"quote">> \in Seq(NodeKind) /\ "space" \in NodeKind
    BY DEF NodeKind
  <2> DEFINE above == IF Empty(text) THEN <<>> ELSE Append(text.parts[1], "space")
  <2>3. above \in Seq(NodeKind)
    <3>1. CASE text.parts = <<>>
      BY <3>1 DEF Empty
    <3>2. CASE text.parts # <<>>
      <4>1. text.parts[1] \in Seq(NodeKind)
        BY <2>1, <3>2
      <4> QED BY <4>1, <3>2, <2>2 DEF Empty
    <3> QED BY <3>1, <3>2
  <2>4. above \o <<"quote">> \in Seq(NodeKind)
    <3> HIDE DEF above
    <3> QED BY <2>2, <2>3
  <2>5. QuoteHTML(text) \in Seq(Seq(NodeKind))
    <3> DEFINE level == above \o <<"quote">>
    <3>1. QuoteHTML(text) = <<level>>
      BY DEF QuoteHTML
    <3> HIDE DEF level
    <3>2. level \in Seq(NodeKind)
      BY <2>4 DEF level
    <3> QED BY <3>1, <3>2
  <2>6. WithQuote(text, source) = [text EXCEPT !.parts = QuoteHTML(text)]
    BY <1>1 DEF WithQuote
  <2>7. text \in [html : {TRUE}, parts : Seq(Seq(NodeKind)), balanced : BOOLEAN]
    BY <1>1 DEF Body
  <2> QED BY <2>5, <2>6, <2>7 DEF Body
<1>2. CASE ~text.html
  <2>1. text \in [html : {FALSE}, parts : Seq(TextLine), balanced : BOOLEAN]
    BY <1>2 DEF Body
  <2>2. AsLines(source) \in Seq(TextLine)
    <3>1. CASE source.html
      BY <3>1, LineTyped DEF AsLines, LineKind
    <3>2. CASE ~source.html
      BY <3>2 DEF AsLines, Body
    <3> QED BY <3>1, <3>2
  <2> DEFINE own == IF Empty(text) THEN <<>> ELSE Append(text.parts, Line("blank"))
             quoted == QuotePlain(AsLines(source))
             parts == own \o <<Line("attribution"), Line("blank")>> \o quoted
  <2>3. Line("attribution") \in TextLine /\ Line("blank") \in TextLine
    BY DEF Line, TextLine, LineKind
  <2>4. own \in Seq(TextLine)
    BY <2>1, <2>3 DEF Empty
  <2>5. quoted \in Seq(TextLine)
    BY <2>2, QuotePlainTyped
  <2>6. parts \in Seq(TextLine)
    <3>1. <<Line("attribution"), Line("blank")>> \in Seq(TextLine)
      BY <2>3
    <3> HIDE DEF own, quoted
    <3> QED BY <3>1, <2>4, <2>5
  <2>7. WithQuote(text, source) = [text EXCEPT !.parts = parts]
    BY <1>2 DEF WithQuote
  <2> HIDE DEF parts
  <2> QED BY <2>1, <2>6, <2>7 DEF Body
<1>3. text.html \in BOOLEAN
  BY DEF Body
<1> QED BY <1>1, <1>2, <1>3

LEMMA NewDraftTyped ==
    ASSUME NEW f \in Flags, FlagsAccepted(f), ~f.reply
    PROVE  NewDraft(f) \in Draft
<1>1. /\ f.to \in Seq(Address) /\ Headers(f.cc) \in Seq(Address)
      /\ f.from \in Address \cup {None} /\ f.subject \in SubjectLine
      /\ f.text \in Body /\ f.atts \in Nat
  <2>1. f.to \in Seq(Address) /\ f.subject \in SubjectLine
    BY DEF Flags, FlagsAccepted, Header
  <2>2. Headers(f.cc) \in Seq(Address)
    BY DEF Flags, FlagsAccepted, Header, Headers
  <2>3. f.from \in Address \cup {None}
    BY DEF Flags, FlagsAccepted
  <2>4. f.text \in Body /\ f.atts \in Nat
    BY DEF Flags
  <2> QED BY <2>1, <2>2, <2>3, <2>4
<1>2. <<>> \in Seq(Int)
  OBVIOUS
<1> QED BY <1>1, <1>2 DEF NewDraft, Draft

LEMMA LastTyped ==
    ASSUME NEW S, NEW s \in Seq(S), s # <<>>
    PROVE  Last(s) = s[Len(s)] /\ Len(s) \in 1..Len(s) /\ Len(s) \in Nat /\ s[Len(s)] \in S
BY DEF Last

LEMMA ReferencesTyped ==
    ASSUME NEW refs \in Seq(Int), NEW id \in Int
    PROVE  BuildReferences(refs, id) \in Seq(Int)
BY DEF BuildReferences

LEMMA ReplyDraftTyped ==
    ASSUME NEW f \in Flags, FlagsAccepted(f), NEW src \in Message, NEW parent \in Nat, NEW self,
           Derivable(src, Needs(f))
    PROVE  ReplyDraft(f, src, parent, self) \in Draft
<1> DEFINE d == DeriveReplyDefaults(src, Needs(f), self)
           body == IF f.quote /\ ~Empty(src.body) THEN WithQuote(f.text, src.body) ELSE f.text
           cc == IF Needs(f).cc THEN d.cc ELSE Headers(f.cc)
<1>1. f.text \in Body /\ src.body \in Body /\ f.atts \in Nat /\ f.from \in Address \cup {None}
  BY DEF Flags, Message, FlagsAccepted
<1>2. body \in Body
  BY <1>1, WithQuoteTyped
<1>3. src.id \in Nat
  BY DEF Derivable, Message
<1>4. d.inReplyTo \in Nat \cup {None} /\ d.thread \in Nat \cup {None}
  BY <1>3 DEF DeriveReplyDefaults, Message
<1>5. d.refs \in Seq(Int)
  <2>1. src.refs \in Seq(Int)
    BY DEF Message
  <2>2. BuildReferences(src.refs, src.id) \in Seq(Int)
    <3>1. src.id \in Int
      BY <1>3
    <3> QED BY <2>1, <3>1, ReferencesTyped
  <2> QED BY <2>2 DEF DeriveReplyDefaults
<1>6. Given(f.to, d.to) \in Seq(Address)
  <2>1. CASE f.to = None
    <3>1. src.from \in Address
      BY <2>1 DEF Derivable, Needs, Message
    <3>2. d.to = <<src.from>>
      BY <2>1 DEF DeriveReplyDefaults, Needs
    <3> QED BY <2>1, <3>1, <3>2 DEF Given
  <2>2. CASE f.to # None
    BY <2>2 DEF Given, Flags, FlagsAccepted, Header
  <2> QED BY <2>1, <2>2
<1>7. cc \in Seq(Address)
  <2>1. CASE Needs(f).cc
    <3>1. src.to \in Seq(Address) /\ src.cc \in Seq(Address)
      BY <2>1 DEF Derivable, Message, Header
    <3>2. src.to \o src.cc \in Seq(Address)
      BY <3>1
    <3>3. FilterSelf(src.to \o src.cc, self) \in Seq(Address)
      BY <3>2, FilterSelfLists DEF Lists
    <3> QED BY <2>1, <3>3 DEF DeriveReplyDefaults
  <2>2. CASE ~Needs(f).cc
    BY <2>2 DEF Flags, FlagsAccepted, Header, Headers
  <2> QED BY <2>1, <2>2
<1>8. Given(f.subject, d.subject) \in SubjectLine
  <2>1. CASE f.subject = None
    <3>1. src.subject \in SubjectLine
      BY DEF Message
    <3>2. AddRePrefix(src.subject) \in SubjectLine
      BY <3>1 DEF AddRePrefix, SubjectLine
    <3> QED BY <2>1, <3>2 DEF Given, DeriveReplyDefaults, Needs
  <2>2. CASE f.subject # None
    BY <2>2 DEF Given, Flags
  <2> QED BY <2>1, <2>2
<1>9. ReplyDraft(f, src, parent, self) =
        [to |-> Given(f.to, d.to), cc |-> cc, from |-> f.from,
         subject |-> Given(f.subject, d.subject),
         inReplyTo |-> d.inReplyTo, refs |-> d.refs, thread |-> d.thread,
         body |-> body, atts |-> f.atts, flags |-> f, parent |-> parent, edited |-> 0]
  BY DEF ReplyDraft
<1> HIDE DEF d, body, cc
<1> QED BY <1>1, <1>2, <1>4, <1>5, <1>6, <1>7, <1>8, <1>9 DEF Draft

-----------------------------------------------------------------------------
(* Types.                                                                  *)

LEMMA AtDraft ==
    ASSUME TypeOK, NEW p \in Proc, run[p].pc \in {"source", "profile", "create"}
    PROVE  run[p] \in DraftRun
<1>1. run[p] \in Invocation
  BY DEF TypeOK
<1> QED BY <1>1 DEF Invocation, Idle, SendRun, UpdateRun, ToggleRun, RsvpRun, ColorRun,
           ContactRun, EditRun

LEMMA AtSend ==
    ASSUME TypeOK, NEW p \in Proc, run[p].pc \in {"preview", "send"}
    PROVE  run[p] \in SendRun
<1>1. run[p] \in Invocation
  BY DEF TypeOK
<1> QED BY <1>1 DEF Invocation, Idle, DraftRun, UpdateRun, ToggleRun, RsvpRun, ColorRun,
           ContactRun, EditRun

LEMMA AtEdit ==
    ASSUME TypeOK, NEW p \in Proc, run[p].pc \in {"get", "put"}
    PROVE  /\ run[p].op \in OnVacation => run[p] \in UpdateRun \/ run[p] \in ToggleRun
           /\ run[p].op = "rsvp" => run[p] \in RsvpRun
           /\ run[p].op = "color" => run[p] \in ColorRun
           /\ run[p].op = "contact" => run[p] \in ContactRun
<1>1. run[p] \in Invocation
  BY DEF TypeOK
<1>2. \/ run[p] \in UpdateRun /\ run[p].op = "update"
      \/ run[p] \in ToggleRun /\ run[p].op = "toggle"
      \/ run[p] \in RsvpRun /\ run[p].op = "rsvp"
      \/ run[p] \in ColorRun /\ run[p].op = "color"
      \/ run[p] \in ContactRun /\ run[p].op = "contact"
  BY <1>1 DEF Invocation, Idle, DraftRun, SendRun, UpdateRun, ToggleRun, RsvpRun, ColorRun,
     ContactRun, EditRun
<1> QED BY <1>2 DEF OnVacation

LEMMA SetRun ==
    ASSUME TypeOK, NEW p \in Proc, NEW r \in Invocation, run' = [run EXCEPT ![p] = r]
    PROVE  run' \in [Proc -> Invocation]
BY DEF TypeOK

LEMMA EndTyped ==
    ASSUME TypeOK, NEW p \in Proc, End(p)
    PROVE  run' \in [Proc -> Invocation]
BY DEF TypeOK, End, Invocation

LEMMA CountsTyped ==
    ASSUME TypeOK, Answered
    PROVE  starts' \in 0..MaxStarts /\ faults' \in 0..MaxFaults /\ edits' \in 0..MaxEdits
BY DraftsAssumption DEF TypeOK, DraftTypeOK, Answered, counts

LEMMA DeliverTyped ==
    ASSUME TypeOK, NEW n \in Nat, NEW d \in Draft, NEW shown \in Preview \cup {None},
           Deliver(n, d, shown)
    PROVE  /\ mail' \in Seq(Message)
           /\ sent' \in Seq([draft : Nat, shown : Preview \cup {None}, as : Draft])
<1>1. mail \in Seq(Message) /\ Len(mail) + 1 \in Nat
  BY DEF TypeOK, DraftTypeOK
<1>2. /\ d.thread \in Nat \cup {None} /\ d.from \in Address \cup {None}
      /\ d.to \in Header /\ d.cc \in Header /\ d.subject \in SubjectLine
      /\ d.refs \in Seq(Int) /\ d.body \in Body
  BY DEF Draft, Header
<1> DEFINE m == [id |-> Len(mail) + 1,
                 thread |-> IF d.thread = None THEN Len(mail) + 1 ELSE d.thread,
                 from |-> IF d.from = None THEN Me ELSE d.from,
                 to |-> d.to, cc |-> d.cc, subject |-> d.subject, refs |-> d.refs,
                 body |-> d.body]
<1>3. m \in Message
  <2>1. (IF d.thread = None THEN Len(mail) + 1 ELSE d.thread) \in Nat
    BY <1>1, <1>2
  <2>2. (IF d.from = None THEN Me ELSE d.from) \in Address
    BY <1>2, DraftsAssumption
  <2> QED BY <1>1, <1>2, <2>1, <2>2 DEF Message
<1>4. mail' = Append(mail, m)
  BY DEF Deliver
<1>5. mail' \in Seq(Message)
  <2> HIDE DEF m
  <2> QED BY <1>1, <1>3, <1>4
<1>6. [draft |-> n, shown |-> shown, as |-> d] \in [draft : Nat, shown : Preview \cup {None}, as : Draft]
  OBVIOUS
<1>7. sent' \in Seq([draft : Nat, shown : Preview \cup {None}, as : Draft])
  BY <1>6 DEF Deliver, TypeOK, DraftTypeOK
<1> QED BY <1>5, <1>7

(* The mailbox keeps its type: the part of TypeOK about drafts.            *)
LEMMA DraftStepTyped ==
    ASSUME TypeOK, NEW p \in Proc, DraftStep(p), UNCHANGED objects
    PROVE  TypeOK'
<1>1. mail \in Seq(Message) /\ drafts \in Seq(Draft \cup {None})
  BY DEF TypeOK, DraftTypeOK
<1>2. ASSUME run' \in [Proc -> Invocation], UNCHANGED <<mailbox, counts>> PROVE TypeOK'
  BY <1>2 DEF TypeOK, DraftTypeOK, mailbox, counts, objects
<1>3. CASE GetSource(p)
  <2>1. run[p] \in DraftRun
    BY <1>3, AtDraft DEF GetSource, At
  <2>2. PICK n \in DOMAIN mail :
          run' = [run EXCEPT ![p].src = mail[n], ![p].parent = n,
                             ![p].pc = IF Needs(run[p].arg).cc THEN "profile" ELSE "create"]
    BY <1>3 DEF GetSource
  <2> DEFINE r == [run[p] EXCEPT !.src = mail[n], !.parent = n,
                                 !.pc = IF Needs(run[p].arg).cc THEN "profile" ELSE "create"]
  <2>3. mail[n] \in Message /\ n \in Nat
    BY <1>1
  <2>4. r \in DraftRun
    BY <2>1, <2>3 DEF DraftRun
  <2>5. run' = [run EXCEPT ![p] = r]
    BY <2>2
  <2> HIDE DEF r
  <2>6. run' \in [Proc -> Invocation]
    BY <2>4, <2>5, SetRun DEF Invocation
  <2> QED BY <1>2, <1>3, <2>6 DEF GetSource
<1>4. CASE GetProfile(p)
  <2>1. run[p] \in DraftRun /\ run[p].pc = "profile"
    BY <1>4, AtDraft DEF GetProfile, At
  <2> DEFINE r == [run[p] EXCEPT !.self = {Lower(Me)} \cup Own(run[p].arg), !.pc = "create"]
  <2>2. {Lower(Me)} \cup Own(run[p].arg) \in SUBSET Who
    <3>1. run[p].arg.from \in Address \cup {None}
      BY <2>1 DEF DraftRun, Flags, FlagsAccepted
    <3> QED BY <3>1, DraftsAssumption DEF Own, Lower, Address
  <2>3. r \in DraftRun
    BY <2>1, <2>2 DEF DraftRun
  <2>4. run' = [run EXCEPT ![p] = r]
    BY <1>4 DEF GetProfile
  <2> HIDE DEF r
  <2>5. run' \in [Proc -> Invocation]
    BY <2>3, <2>4, SetRun DEF Invocation
  <2> QED BY <1>2, <1>4, <2>5 DEF GetProfile
<1>5. CASE CreateDraft(p)
  <2>1. run[p] \in DraftRun /\ run[p].pc = "create"
    BY <1>5, AtDraft DEF CreateDraft, At
  <2>2. run[p].arg \in Flags /\ FlagsAccepted(run[p].arg) /\ run[p].parent \in Nat
    BY <2>1 DEF DraftRun
  <2>3. Composed(p) \in Draft
    <3>1. CASE run[p].arg.reply
      <4>1. Derivable(run[p].src, Needs(run[p].arg))
        BY <1>5, <3>1 DEF CreateDraft, Creatable
      <4>2. run[p].src \in Message
        BY <3>1, <2>1 DEF DraftRun
      <4>3. ReplyDraft(run[p].arg, run[p].src, run[p].parent, run[p].self) \in Draft
        BY <2>2, <4>1, <4>2, ReplyDraftTyped
      <4> QED BY <3>1, <4>3 DEF Composed
    <3>2. CASE ~run[p].arg.reply
      BY <3>2, <2>2, NewDraftTyped DEF Composed
    <3> QED BY <3>1, <3>2
  <2>4. drafts' \in Seq(Draft \cup {None})
    BY <1>1, <1>5, <2>3 DEF CreateDraft
  <2>5. run' \in [Proc -> Invocation]
    BY <1>5, EndTyped DEF CreateDraft
  <2> QED BY <1>5, <2>4, <2>5, CountsTyped DEF CreateDraft, TypeOK, DraftTypeOK, objects
<1>6. CASE CreateRefused(p)
  BY <1>2, <1>6, EndTyped DEF CreateRefused
<1>7. CASE GetDraft(p)
  <2>1. run[p] \in SendRun
    BY <1>7, AtSend DEF GetDraft, At
  <2> DEFINE n == run[p].arg.id
             r == [run[p] EXCEPT !.shown = Summary(drafts[n]), !.pc = "send"]
  <2>2. CASE End(p)
    BY <1>2, <1>7, <2>2, EndTyped DEF GetDraft
  <2>3. CASE Present(n) /\ run' = [run EXCEPT ![p] = r]
    <3>1. drafts[n] \in Draft
      BY <1>1, <2>3 DEF Present
    <3>2. Summary(drafts[n]) \in Preview
      BY <3>1 DEF Summary, Preview, Draft
    <3>3. r \in SendRun
      BY <2>1, <3>2 DEF SendRun
    <3> HIDE DEF r
    <3>4. run' \in [Proc -> Invocation]
      BY <2>3, <3>3, SetRun DEF Invocation
    <3> QED BY <1>2, <1>7, <3>4 DEF GetDraft
  <2> QED BY <1>7, <2>2, <2>3 DEF GetDraft
<1>8. CASE SendDraft(p)
  <2>1. run[p] \in SendRun
    BY <1>8, AtSend DEF SendDraft, At
  <2> DEFINE n == run[p].arg.id
  <2>2. n \in Nat /\ n \in DOMAIN drafts /\ drafts[n] \in Draft /\ run[p].shown \in Preview \cup {None}
    BY <1>1, <1>8, <2>1 DEF SendRun, SendDraft, Present
  <2>3. /\ mail' \in Seq(Message)
        /\ sent' \in Seq([draft : Nat, shown : Preview \cup {None}, as : Draft])
    BY <1>8, <2>2, DeliverTyped DEF SendDraft
  <2>4. drafts' \in Seq(Draft \cup {None})
    BY <1>1, <1>8, <2>2 DEF SendDraft
  <2>5. run' \in [Proc -> Invocation]
    BY <1>8, EndTyped DEF SendDraft
  <2> QED BY <1>8, <2>3, <2>4, <2>5, CountsTyped DEF SendDraft, TypeOK, DraftTypeOK, objects
<1>9. CASE SendRefused(p)
  BY <1>2, <1>9, EndTyped DEF SendRefused
<1> QED BY <1>3, <1>4, <1>5, <1>6, <1>7, <1>8, <1>9 DEF DraftStep

LEMMA EditedTyped ==
    ASSUME NEW e \in Draft, NEW to \in Seq(Address)
    PROVE  [e EXCEPT !.to = to, !.cc = <<>>, !.edited = @ + 1] \in Draft
<1>1. <<>> \in Seq(Address) /\ e.edited + 1 \in Nat
  BY DEF Draft
<1> QED BY <1>1 DEF Draft

LEMMA WebDraftTyped ==
    ASSUME TypeOK, WebDraft, UNCHANGED objects
    PROVE  TypeOK'
<1>1. PICK n \in DOMAIN drafts : WebEditDraft(n) \/ WebDeleteDraft(n) \/ WebSendDraft(n)
  BY DEF WebDraft
<1>2. mail \in Seq(Message) /\ drafts \in Seq(Draft \cup {None}) /\ n \in Nat
  BY DEF TypeOK, DraftTypeOK
<1>3. Present(n) /\ drafts[n] \in Draft
  <2>1. Present(n)
    BY <1>1 DEF WebEditDraft, WebDeleteDraft, WebSendDraft
  <2> QED BY <1>2, <2>1 DEF Present
<1>4. starts' \in 0..MaxStarts /\ faults' \in 0..MaxFaults /\ edits' \in 0..MaxEdits
  <2>1. WebEdits
    BY <1>1 DEF WebEditDraft, WebDeleteDraft, WebSendDraft
  <2> QED BY <2>1, DraftsAssumption DEF TypeOK, DraftTypeOK, WebEdits
<1>5. CASE WebEditDraft(n)
  <2>1. PICK to \in WebHeaders :
          drafts' = [drafts EXCEPT ![n].to = to, ![n].cc = <<>>, ![n].edited = @ + 1]
    BY <1>5 DEF WebEditDraft
  <2> DEFINE d == [drafts[n] EXCEPT !.to = to, !.cc = <<>>, !.edited = @ + 1]
  <2>2. to \in Seq(Address) /\ <<>> \in Seq(Address)
    BY DraftsAssumption
  <2>3. d \in Draft
    BY <1>3, <2>2, EditedTyped
  <2>4. drafts' = [drafts EXCEPT ![n] = d]
    BY <1>2, <2>1
  <2> HIDE DEF d
  <2>5. drafts' \in Seq(Draft \cup {None})
    BY <1>2, <2>3, <2>4
  <2> QED BY <1>4, <1>5, <2>5 DEF WebEditDraft, TypeOK, DraftTypeOK, objects
<1>6. CASE WebDeleteDraft(n)
  <2>1. drafts' \in Seq(Draft \cup {None})
    BY <1>2, <1>6 DEF WebDeleteDraft
  <2> QED BY <1>4, <1>6, <2>1 DEF WebDeleteDraft, TypeOK, DraftTypeOK, objects
<1>7. CASE WebSendDraft(n)
  <2>1. drafts' \in Seq(Draft \cup {None})
    BY <1>2, <1>7 DEF WebSendDraft
  <2>2. /\ mail' \in Seq(Message)
        /\ sent' \in Seq([draft : Nat, shown : Preview \cup {None}, as : Draft])
    BY <1>2, <1>3, <1>7, DeliverTyped DEF WebSendDraft
  <2> QED BY <1>4, <1>7, <2>1, <2>2 DEF WebSendDraft, TypeOK, DraftTypeOK, objects
<1> QED BY <1>1, <1>5, <1>6, <1>7

LEMMA StartTyped ==
    ASSUME TypeOK, NEW p \in Proc, NEW op, NEW arg, NEW first, Start(p, op, arg, first),
           first = "idle" \/ [Idle EXCEPT !.pc = first, !.op = op, !.arg = arg] \in Invocation,
           UNCHANGED <<mailbox, objects>>
    PROVE  TypeOK'
<1> DEFINE r == IF first = "idle" THEN Idle
                ELSE [Idle EXCEPT !.pc = first, !.op = op, !.arg = arg]
<1>1. r \in Invocation
  BY DEF Invocation
<1>2. run' = [run EXCEPT ![p] = r]
  BY DEF Start
<1> HIDE DEF r
<1>3. run' \in [Proc -> Invocation]
  BY <1>1, <1>2, SetRun
<1>4. starts' \in 0..MaxStarts /\ faults' \in 0..MaxFaults /\ edits' \in 0..MaxEdits
  BY DraftsAssumption DEF TypeOK, DraftTypeOK, Start
<1> QED BY <1>3, <1>4 DEF TypeOK, DraftTypeOK, mailbox, objects

LEMMA StartDraftTyped ==
    ASSUME TypeOK, NEW p \in Proc, StartDraft(p), UNCHANGED objects
    PROVE  TypeOK'
<1>1. PICK f \in Composition : Start(p, "draft", f, FirstRequest(f))
  BY DEF StartDraft
<1>2. f \in Flags
  BY DraftsAssumption
<1> DEFINE r == [Idle EXCEPT !.pc = FirstRequest(f), !.op = "draft", !.arg = f]
<1>3. FirstRequest(f) = "idle" \/ r \in DraftRun
  <2>1. CASE ~FlagsAccepted(f)
    BY <2>1 DEF FirstRequest
  <2>2. CASE FlagsAccepted(f) /\ f.reply
    <3>1. FirstRequest(f) = "source"
      BY <2>2 DEF FirstRequest
    <3> QED BY <1>2, <2>2, <3>1 DEF DraftRun, Idle
  <2>3. CASE FlagsAccepted(f) /\ ~f.reply
    <3>1. FirstRequest(f) = "create"
      BY <2>3 DEF FirstRequest
    <3> QED BY <1>2, <2>3, <3>1 DEF DraftRun, Idle
  <2> QED BY <2>1, <2>2, <2>3
<1>4. FirstRequest(f) = "idle" \/ r \in Invocation
  BY <1>3 DEF Invocation
<1>5. UNCHANGED <<mailbox, objects>>
  BY DEF StartDraft
<1> HIDE DEF r
<1> QED BY <1>1, <1>4, <1>5, StartTyped DEF r

LEMMA StartSendTyped ==
    ASSUME TypeOK, NEW p \in Proc, StartSend(p), UNCHANGED objects
    PROVE  TypeOK'
<1>1. PICK n \in DOMAIN drafts, dry \in BOOLEAN : Start(p, "send", [id |-> n, dry |-> dry], "preview")
  BY DEF StartSend
<1>2. n \in Nat
  BY DEF TypeOK, DraftTypeOK
<1> DEFINE r == [Idle EXCEPT !.pc = "preview", !.op = "send", !.arg = [id |-> n, dry |-> dry]]
<1>3. r \in SendRun
  BY <1>2 DEF SendRun, Idle
<1>4. r \in Invocation
  BY <1>3 DEF Invocation
<1>5. UNCHANGED <<mailbox, objects>>
  BY DEF StartSend
<1> HIDE DEF r
<1> QED BY <1>1, <1>4, <1>5, StartTyped DEF r

LEMMA StartEditTyped ==
    ASSUME TypeOK, NEW p \in Proc, StartEdit(p)
    PROVE  TypeOK'
<1> DEFINE r(op, a, first) == [Idle EXCEPT !.pc = first, !.op = op, !.arg = a]
<1>1. UNCHANGED <<mailbox, objects>>
  BY DEF StartEdit
<1>2. ASSUME NEW op, NEW a, NEW first, Start(p, op, a, first),
             first = "idle" \/ r(op, a, first) \in Invocation
      PROVE  TypeOK'
  BY <1>1, <1>2, StartTyped
<1>3. CASE \E a \in Args(VacationArgs) : Start(p, "update", a, UpdateFirst(a))
  <2>1. PICK a \in Args(VacationArgs) : Start(p, "update", a, UpdateFirst(a))
    BY <1>3
  <2>2. UpdateFirst(a) = "idle" \/ r("update", a, UpdateFirst(a)) \in UpdateRun
    BY DEF UpdateFirst, UpdateRun, EditRun, Idle
  <2> QED BY <1>2, <2>1, <2>2 DEF Invocation
<1>4. CASE \E a \in Args([on : BOOLEAN]) : Start(p, "toggle", a, Go(a, "get"))
  <2>1. PICK a \in Args([on : BOOLEAN]) : Start(p, "toggle", a, Go(a, "get"))
    BY <1>4
  <2>2. Go(a, "get") = "idle" \/ r("toggle", a, Go(a, "get")) \in ToggleRun
    BY DEF Go, ToggleRun, EditRun, Idle
  <2> QED BY <1>2, <2>1, <2>2 DEF Invocation
<1>5. CASE \E a \in Args(Responses) : Start(p, "rsvp", a, Go(a, "get"))
  <2>1. PICK a \in Args(Responses) : Start(p, "rsvp", a, Go(a, "get"))
    BY <1>5
  <2>2. Go(a, "get") = "idle" \/ r("rsvp", a, Go(a, "get")) \in RsvpRun
    BY DEF Go, RsvpRun, EditRun, Idle
  <2> QED BY <1>2, <2>1, <2>2 DEF Invocation
<1>6. CASE \E a \in Args({1}) : Start(p, "color", a, Go(a, "put"))
  <2>1. PICK a \in Args({1}) : Start(p, "color", a, Go(a, "put"))
    BY <1>6
  <2>2. Go(a, "put") = "idle" \/ r("color", a, Go(a, "put")) \in ColorRun
    BY DEF Go, ColorRun, EditRun, Idle
  <2> QED BY <1>2, <2>1, <2>2 DEF Invocation
<1>7. CASE \E a \in Args(ContactArgs) : Start(p, "contact", a, ContactFirst(a))
  <2>1. PICK a \in Args(ContactArgs) : Start(p, "contact", a, ContactFirst(a))
    BY <1>7
  <2>2. ContactFirst(a) = "idle" \/ r("contact", a, ContactFirst(a)) \in ContactRun
    BY DEF ContactFirst, ContactRun, EditRun, Idle
  <2> QED BY <1>2, <2>1, <2>2 DEF Invocation
<1> QED BY <1>3, <1>4, <1>5, <1>6, <1>7 DEF StartEdit

(* Noting a change keeps every invocation's type.                          *)
Notes(ops, fields) ==
    \/ ops = {}
    \/ ops = OnVacation /\ fields \subseteq VacationField
    \/ ops = OnEvent /\ fields \subseteq Who
    \/ ops = OnContact /\ fields \subseteq ContactField \cup {"etag"}

LEMMA NoteTyped ==
    ASSUME NEW r \in Invocation, NEW ops, NEW fields, Notes(ops, fields), r.op \in ops
    PROVE  [r EXCEPT !.since = @ \cup fields] \in Invocation
<1> DEFINE new == [r EXCEPT !.since = @ \cup fields]
<1>1. CASE ops = OnVacation /\ fields \subseteq VacationField
  <2>1. r \in UpdateRun \/ r \in ToggleRun
    BY <1>1, EditsAssumption DEF Invocation, Idle, DraftRun, SendRun, UpdateRun, ToggleRun,
       RsvpRun, ColorRun, ContactRun, EditRun, OnVacation
  <2>2. new \in UpdateRun \/ new \in ToggleRun
    BY <1>1, <2>1 DEF UpdateRun, ToggleRun, EditRun
  <2> QED BY <2>2 DEF Invocation
<1>2. CASE ops = OnEvent /\ fields \subseteq Who
  <2>1. r \in RsvpRun
    BY <1>2, EditsAssumption DEF Invocation, Idle, DraftRun, SendRun, UpdateRun, ToggleRun,
       RsvpRun, ColorRun, ContactRun, EditRun, OnEvent
  <2>2. new \in RsvpRun
    BY <1>2, <2>1 DEF RsvpRun, EditRun
  <2> QED BY <2>2 DEF Invocation
<1>3. CASE ops = OnContact /\ fields \subseteq ContactField \cup {"etag"}
  <2>1. r \in ContactRun
    BY <1>3, EditsAssumption DEF Invocation, Idle, DraftRun, SendRun, UpdateRun, ToggleRun,
       RsvpRun, ColorRun, ContactRun, EditRun, OnContact
  <2>2. new \in ContactRun
    BY <1>3, <2>1 DEF ContactRun, EditRun
  <2> QED BY <2>2 DEF Invocation
<1> QED BY <1>1, <1>2, <1>3 DEF Notes

LEMMA WriteTyped ==
    ASSUME TypeOK, NEW p, NEW ops, NEW fields, Notes(ops, fields), Write(ops, p, fields)
    PROVE  run' \in [Proc -> Invocation]
<1> DEFINE r(q) == IF q = p THEN Idle
                   ELSE IF run[q].op \in ops THEN [run[q] EXCEPT !.since = @ \cup fields] ELSE run[q]
<1>1. ASSUME NEW q \in Proc PROVE r(q) \in Invocation
  <2>1. run[q] \in Invocation
    BY DEF TypeOK
  <2>2. CASE q # p /\ run[q].op \in ops
    BY <2>1, <2>2, NoteTyped
  <2>3. CASE q = p
    BY <2>3 DEF Invocation
  <2> QED BY <2>1, <2>2, <2>3
<1>2. run' = [q \in Proc |-> r(q)]
  BY DEF Write
<1> HIDE DEF r
<1> QED BY <1>1, <1>2

LEMMA OverIs ==
    ASSUME NEW set, NEW object
    PROVE  /\ DOMAIN Over(set, object) = DOMAIN set \cup DOMAIN object
           /\ \A f \in DOMAIN set : Over(set, object)[f] = set[f]
           /\ \A f \in DOMAIN object \ DOMAIN set : Over(set, object)[f] = object[f]
           /\ Over(set, object) = [f \in DOMAIN Over(set, object) |-> Over(set, object)[f]]
BY DEF Over

(* A function with the fields of the responder is a responder.             *)
LEMMA ResponderIs ==
    ASSUME NEW v, v = [f \in DOMAIN v |-> v[f]], DOMAIN v = VacationField,
           \A f \in VacationField : v[f] \in IF f \in {"on", "contacts"} THEN BOOLEAN ELSE Nat
    PROVE  v \in Responder
<1>1. /\ v["on"] \in BOOLEAN /\ v["contacts"] \in BOOLEAN
      /\ v["subject"] \in Nat /\ v["plain"] \in Nat /\ v["html"] \in Nat
      /\ v["start"] \in Nat /\ v["end"] \in Nat
  BY DEF VacationField
<1> DEFINE w == [on |-> v["on"], contacts |-> v["contacts"], subject |-> v["subject"],
                 plain |-> v["plain"], html |-> v["html"], start |-> v["start"], end |-> v["end"]]
<1>2. w \in Responder
  BY <1>1 DEF Responder
<1>3. v = w
  <2>1. DOMAIN w = DOMAIN v
    BY DEF VacationField
  <2>2. \A f \in DOMAIN v : v[f] = w[f]
    BY DEF VacationField
  <2>3. w = [f \in DOMAIN w |-> w[f]]
    OBVIOUS
  <2> HIDE DEF w
  <2> QED BY <2>1, <2>2, <2>3
<1> QED BY <1>2, <1>3

LEMMA ResponderFields ==
    ASSUME NEW v \in Responder
    PROVE  /\ DOMAIN v = VacationField
           /\ \A f \in VacationField : v[f] \in IF f \in {"on", "contacts"} THEN BOOLEAN ELSE Nat
BY DEF Responder, VacationField

LEMMA VacationIs ==
    ASSUME TypeOK, NEW p \in Proc, run[p].op \in OnVacation, run[p].pc = "put"
    PROVE  /\ run[p].got \in Responder
           /\ DOMAIN run[p].arg.set \subseteq VacationField \ {"html"}
           /\ Vacation(p) \in Responder
           /\ \A f \in DOMAIN run[p].arg.set : Vacation(p)[f] = run[p].arg.set[f]
           /\ \A f \in VacationField \ DOMAIN run[p].arg.set :
                 Vacation(p)[f] = IF f = "html" /\ "plain" \in DOMAIN run[p].arg.set THEN 0
                                  ELSE run[p].got[f]
<1> DEFINE set == run[p].arg.set
           got == run[p].got
           base == IF "plain" \in DOMAIN set THEN [got EXCEPT !.html = 0] ELSE got
<1>1. run[p] \in UpdateRun \/ run[p] \in ToggleRun
  BY AtEdit
<1>2. got \in Responder
  BY <1>1 DEF UpdateRun, ToggleRun, EditRun
<1>3. /\ DOMAIN set \subseteq VacationField \ {"html"}
      /\ \A f \in DOMAIN set : set[f] \in IF f \in {"on", "contacts"} THEN BOOLEAN ELSE Nat
  <2>1. CASE run[p] \in UpdateRun
    <3>1. set \in VacationArgs
      BY <2>1 DEF UpdateRun, EditRun, Args
    <3> HIDE DEF set
    <3> QED BY <3>1, EditsAssumption
  <2>2. CASE run[p] \in ToggleRun
    <3>1. set \in [on : BOOLEAN]
      BY <2>2 DEF ToggleRun, EditRun, Args
    <3> HIDE DEF set
    <3> QED BY <3>1 DEF VacationField
  <2> QED BY <1>1, <2>1, <2>2
<1> HIDE DEF set, got
<1>4. base \in Responder
  BY <1>2 DEF Responder
<1>5. \A f \in VacationField : base[f] = IF f = "html" /\ "plain" \in DOMAIN set THEN 0 ELSE got[f]
  BY <1>2 DEF Responder, VacationField
<1>6. Vacation(p) = Over(set, base)
  BY DEF Vacation, set, got
<1> HIDE DEF base
<1> DEFINE v == Over(set, base)
<1>7. /\ DOMAIN base = VacationField
      /\ \A f \in VacationField : base[f] \in IF f \in {"on", "contacts"} THEN BOOLEAN ELSE Nat
  BY <1>4, ResponderFields
<1>8. /\ DOMAIN v = DOMAIN set \cup DOMAIN base
      /\ \A f \in DOMAIN set : v[f] = set[f]
      /\ \A f \in DOMAIN base \ DOMAIN set : v[f] = base[f]
      /\ v = [f \in DOMAIN v |-> v[f]]
  BY OverIs
<1> HIDE DEF v
<1>9. DOMAIN v = VacationField
  BY <1>3, <1>7, <1>8
<1>10. ASSUME NEW f \in VacationField
       PROVE  v[f] \in IF f \in {"on", "contacts"} THEN BOOLEAN ELSE Nat
  <2>1. CASE f \in DOMAIN set
    BY <2>1, <1>3, <1>8
  <2>2. CASE f \notin DOMAIN set
    BY <2>2, <1>7, <1>8
  <2> QED BY <2>1, <2>2
<1>11. v \in Responder
  BY <1>8, <1>9, <1>10, ResponderIs
<1>12. \A f \in VacationField \ DOMAIN set :
          v[f] = IF f = "html" /\ "plain" \in DOMAIN set THEN 0 ELSE got[f]
  BY <1>5, <1>7, <1>8
<1>13. Vacation(p) = v
  BY <1>6 DEF v
<1> QED BY <1>2, <1>3, <1>8, <1>11, <1>12, <1>13 DEF set, got

LEMMA MergedIs ==
    ASSUME TypeOK, NEW p \in Proc, At(p, "contact", "put")
    PROVE  /\ run[p].got \in Contact
           /\ Mask(p) \subseteq ContactField /\ DOMAIN Merged(p) = Mask(p)
           /\ Named(p) \subseteq ContactField \ Derived /\ Named(p) \subseteq Mask(p)
           /\ \A f \in Mask(p) : Merged(p)[f] \in Nat
<1> DEFINE set == run[p].arg.set
           got == run[p].got
<1>1. run[p] \in ContactRun
  BY AtEdit DEF At
<1>2. got \in Contact /\ set \in ContactArgs
  BY <1>1 DEF ContactRun, EditRun, Args, At
<1>3. DOMAIN set \subseteq ContactField \ Derived /\ set \in [DOMAIN set -> Nat]
  <2> HIDE DEF set
  <2> QED BY <1>2, EditsAssumption
<1>4. Named(p) \subseteq DOMAIN set
  BY DEF Named
<1>5. \A f \in ContactField : got[f] \in Nat
  BY <1>2 DEF Contact
<1>6. DOMAIN Merged(p) = Mask(p)
  BY DEF Merged
<1>7. Mask(p) \subseteq ContactField /\ Named(p) \subseteq Mask(p)
  <2> DEFINE groups == {g \in {NameField, OrgField, {"email"}} : g \cap Named(p) # {}}
  <2>1. Mask(p) = UNION groups
    BY DEF Mask
  <2>2. UNION groups \subseteq ContactField
    BY DEF ContactField
  <2>3. ASSUME NEW f \in Named(p) PROVE f \in UNION groups
    <3>1. f \in NameField \/ f \in OrgField \/ f \in {"email"}
      BY <1>3, <1>4, <2>3 DEF ContactField
    <3> QED BY <2>3, <3>1
  <2> QED BY <2>1, <2>2, <2>3
<1>8. ASSUME NEW f \in Mask(p) PROVE Merged(p)[f] \in Nat
  <2>1. Merged(p)[f] = IF f \in Named(p) THEN set[f] ELSE IF f \in Derived THEN 0 ELSE got[f]
    BY DEF Merged
  <2> HIDE DEF set, got
  <2> QED BY <1>3, <1>4, <1>5, <1>7, <2>1
<1> QED BY <1>2, <1>3, <1>4, <1>6, <1>7, <1>8 DEF got

(* What an update leaves in a field of a contact.                          *)
LEMMA PutContactIs ==
    ASSUME TypeOK, NEW p \in Proc, PutContact(p)
    PROVE  /\ DOMAIN contact' = ContactField \cup {"etag"}
           /\ contact'.etag = contact.etag + 1
           /\ \A f \in ContactField :
                 contact'[f] = IF f \in Mask(p) THEN Merged(p)[f] ELSE contact[f]
<1>1. DOMAIN contact = ContactField \cup {"etag"}
  BY DEF TypeOK, Contact
<1>2. Mask(p) \subseteq ContactField /\ DOMAIN Merged(p) = Mask(p) /\ "etag" \notin ContactField
  BY MergedIs DEF PutContact, ContactField, NameField, OrgField
<1> DEFINE fresh == [contact EXCEPT !.etag = @ + 1]
<1>3. /\ DOMAIN fresh = ContactField \cup {"etag"}
      /\ fresh["etag"] = contact.etag + 1
      /\ \A f \in ContactField : fresh[f] = contact[f]
  BY <1>1, <1>2
<1> HIDE DEF fresh
<1>4. contact' = Over(Merged(p), fresh)
  BY DEF PutContact, fresh
<1> QED BY <1>2, <1>3, <1>4 DEF Over

(* A contact with an etag.                                                 *)
LEMMA ContactIs ==
    ASSUME NEW n \in Nat, NEW c \in WebContacts
    PROVE  Over([etag |-> n], c) \in Contact
<1>1. c \in [ContactField -> Nat]
  BY EditsAssumption
<1>2. Over([etag |-> n], c) = [f \in {"etag"} \cup ContactField |-> IF f \in {"etag"} THEN n ELSE c[f]]
  BY <1>1 DEF Over
<1> QED BY <1>1, <1>2 DEF Contact

(* What a write changes is a set of fields of the object.                  *)
LEMMA ChangedFields ==
    ASSUME NEW old, NEW new
    PROVE  /\ Changed(old, new) \subseteq DOMAIN old \cup DOMAIN new
           /\ \A f \in (DOMAIN old \cup DOMAIN new) \ Changed(old, new) :
                 f \in DOMAIN old /\ f \in DOMAIN new /\ old[f] = new[f]
BY DEF Changed

LEMMA GuestlistIs ==
    ASSUME NEW g
    PROVE  g \in Guestlist <=> DOMAIN g \in SUBSET Who /\ g \in [DOMAIN g -> ResponseStatus]
BY DEF Guestlist

LEMMA ReadTyped ==
    ASSUME TypeOK, NEW p \in Proc, NEW copy, Read(p, copy, "put"), run[p].pc = "get",
           \/ run[p].op \in OnVacation /\ copy \in Responder
           \/ run[p].op = "rsvp" /\ copy \in Guestlist /\ Self \in DOMAIN copy
           \/ run[p].op = "contact" /\ copy \in Contact
    PROVE  TypeOK'
<1> DEFINE r == [run[p] EXCEPT !.got = copy, !.since = {}, !.pc = "put"]
<1>1. r \in Invocation
  <2>1. CASE run[p] \in UpdateRun /\ copy \in Responder
    <3>1. r \in UpdateRun
      BY <2>1 DEF UpdateRun, EditRun
    <3> QED BY <3>1 DEF Invocation
  <2>2. CASE run[p] \in ToggleRun /\ copy \in Responder
    <3>1. r \in ToggleRun
      BY <2>2 DEF ToggleRun, EditRun
    <3> QED BY <3>1 DEF Invocation
  <2>3. CASE run[p] \in RsvpRun /\ copy \in Guestlist /\ Self \in DOMAIN copy
    <3>1. r \in RsvpRun
      BY <2>3 DEF RsvpRun, EditRun
    <3> QED BY <3>1 DEF Invocation
  <2>4. CASE run[p] \in ContactRun /\ copy \in Contact
    <3>1. r \in ContactRun
      BY <2>4 DEF ContactRun, EditRun
    <3> QED BY <3>1 DEF Invocation
  <2>5. \/ run[p].op \in OnVacation /\ (run[p] \in UpdateRun \/ run[p] \in ToggleRun)
        \/ run[p].op = "rsvp" /\ run[p] \in RsvpRun
        \/ run[p].op = "contact" /\ run[p] \in ContactRun
    BY AtEdit
  <2>6. run[p].op \notin OnVacation \/ run[p].op \notin {"rsvp", "contact"}
    BY DEF OnVacation
  <2>7. run[p].op # "rsvp" \/ run[p].op # "contact"
    OBVIOUS
  <2> QED BY <2>1, <2>2, <2>3, <2>4, <2>5, <2>6, <2>7
<1>2. run' = [run EXCEPT ![p] = r] /\ UNCHANGED <<mailbox, counts, objects>>
  BY DEF Read
<1> HIDE DEF r
<1>3. run' \in [Proc -> Invocation]
  BY <1>1, <1>2, SetRun
<1> QED BY <1>2, <1>3 DEF TypeOK, DraftTypeOK, mailbox, counts, objects

LEMMA EditStepTyped ==
    ASSUME TypeOK, NEW p \in Proc, EditStep(p)
    PROVE  TypeOK'
<1>1. /\ vacation \in Responder /\ contact \in Contact
      /\ event \in [attendees : Guestlist, color : Nat]
  BY DEF TypeOK
<1>2. ASSUME run' \in [Proc -> Invocation], UNCHANGED mailbox, Answered,
             vacation' \in Responder, contact' \in Contact,
             event' \in [attendees : Guestlist, color : Nat]
      PROVE  TypeOK'
  BY <1>2, CountsTyped DEF TypeOK, DraftTypeOK, mailbox
<1>3. ASSUME Refuse(p) PROVE TypeOK'
  BY <1>3, EndTyped DEF Refuse, TypeOK, DraftTypeOK, mailbox, counts, objects
<1>4. CASE GetVacation(p)
  BY <1>1, <1>4, ReadTyped DEF GetVacation
<1>5. CASE PutVacation(p)
  <2>1. vacation' \in Responder
    BY <1>5, VacationIs DEF PutVacation
  <2>2. Notes(OnVacation, Changed(vacation, vacation'))
    BY <1>1, <2>1, ChangedFields, ResponderFields DEF Notes
  <2>3. run' \in [Proc -> Invocation]
    BY <1>5, <2>2, WriteTyped DEF PutVacation
  <2> QED BY <1>1, <1>2, <1>5, <2>1, <2>3 DEF PutVacation
<1>6. CASE VacationRefused(p)
  BY <1>3, <1>6 DEF VacationRefused
<1>7. CASE GetEvent(p)
  <2>1. CASE Self \in DOMAIN event.attendees
    BY <1>1, <1>7, <2>1, ReadTyped DEF GetEvent, At
  <2>2. CASE Self \notin DOMAIN event.attendees
    BY <1>3, <1>7, <2>2 DEF GetEvent
  <2> QED BY <2>1, <2>2
<1>8. CASE PatchAttendees(p)
  <2>1. run[p] \in RsvpRun /\ run[p].pc = "put"
    BY <1>8, AtEdit DEF PatchAttendees, At
  <2>2. run[p].got \in Guestlist /\ run[p].arg.set \in ResponseStatus
    BY <2>1, EditsAssumption DEF RsvpRun, EditRun, Args
  <2>3. Answer(p) \in Guestlist
    BY <2>2, GuestlistIs DEF Answer
  <2>4. event' \in [attendees : Guestlist, color : Nat] /\ event'.attendees = Answer(p)
    BY <1>1, <1>8, <2>3 DEF PatchAttendees
  <2>5. Notes(OnEvent, Changed(event.attendees, event'.attendees))
    <3>1. DOMAIN event.attendees \subseteq Who /\ DOMAIN event'.attendees \subseteq Who
      BY <1>1, <2>3, <2>4, GuestlistIs
    <3> QED BY <3>1, ChangedFields DEF Notes
  <2>6. run' \in [Proc -> Invocation]
    BY <1>8, <2>5, WriteTyped DEF PatchAttendees
  <2> QED BY <1>1, <1>2, <1>8, <2>4, <2>6 DEF PatchAttendees
<1>9. CASE PatchColor(p)
  <2>1. run[p] \in ColorRun
    BY <1>9, AtEdit DEF PatchColor, At
  <2>2. run[p].arg.set \in Nat
    BY <2>1 DEF ColorRun, EditRun, Args
  <2>3. event' \in [attendees : Guestlist, color : Nat]
    BY <1>1, <1>9, <2>2 DEF PatchColor
  <2>4. run' \in [Proc -> Invocation]
    BY <1>9, WriteTyped DEF PatchColor, Notes
  <2> QED BY <1>1, <1>2, <1>9, <2>3, <2>4 DEF PatchColor
<1>10. CASE GetContact(p)
  BY <1>1, <1>10, ReadTyped DEF GetContact, At
<1>11. CASE PutContact(p)
  <2>1. contact' \in Contact
    <3>1. \A f \in ContactField \cup {"etag"} : contact'[f] \in Nat
      BY <1>1, <1>11, MergedIs, PutContactIs DEF PutContact, Contact
    <3>2. contact' = [f \in DOMAIN contact' |-> contact'[f]]
      BY <1>11 DEF PutContact, Over
    <3> QED BY <1>11, <3>1, <3>2, PutContactIs DEF Contact
  <2>2. Notes(OnContact, Changed(contact, contact'))
    BY <1>1, <2>1, ChangedFields DEF Contact, Notes
  <2>3. run' \in [Proc -> Invocation]
    BY <1>11, <2>2, WriteTyped DEF PutContact
  <2> QED BY <1>1, <1>2, <1>11, <2>1, <2>3 DEF PutContact
<1>12. CASE ContactRefused(p)
  BY <1>3, <1>12 DEF ContactRefused
<1> QED BY <1>4, <1>5, <1>6, <1>7, <1>8, <1>9, <1>10, <1>11, <1>12 DEF EditStep

LEMMA WebTyped ==
    ASSUME TypeOK, WebVacation \/ WebEvent \/ WebContact
    PROVE  TypeOK'
<1>1. /\ vacation \in Responder /\ contact \in Contact
      /\ event \in [attendees : Guestlist, color : Nat]
  BY DEF TypeOK
<1>2. ASSUME run' \in [Proc -> Invocation], UNCHANGED mailbox, WebEdits,
             vacation' \in Responder, contact' \in Contact,
             event' \in [attendees : Guestlist, color : Nat]
      PROVE  TypeOK'
  BY <1>2, DraftsAssumption DEF TypeOK, DraftTypeOK, mailbox, WebEdits
<1>3. CASE WebVacation
  <2>1. vacation' \in Responder
    BY <1>3, EditsAssumption DEF WebVacation
  <2>2. Notes(OnVacation, Changed(vacation, vacation'))
    BY <1>1, <2>1, ChangedFields, ResponderFields DEF Notes
  <2>3. run' \in [Proc -> Invocation]
    BY <1>3, <2>2, WriteTyped DEF WebVacation
  <2> QED BY <1>1, <1>2, <1>3, <2>1, <2>3 DEF WebVacation
<1>4. CASE WebEvent
  <2>1. PICK g \in Guests : event' = [event EXCEPT !.attendees = g]
    BY <1>4 DEF WebEvent
  <2>2. g \in Guestlist
    BY EditsAssumption
  <2>3. event' \in [attendees : Guestlist, color : Nat] /\ event'.attendees = g
    BY <1>1, <2>1, <2>2
  <2>4. Notes(OnEvent, Changed(event.attendees, event'.attendees))
    <3>1. DOMAIN event.attendees \subseteq Who /\ DOMAIN event'.attendees \subseteq Who
      BY <1>1, <2>2, <2>3, GuestlistIs
    <3> QED BY <3>1, ChangedFields DEF Notes
  <2>5. run' \in [Proc -> Invocation]
    BY <1>4, <2>4, WriteTyped DEF WebEvent
  <2> QED BY <1>1, <1>2, <1>4, <2>3, <2>5 DEF WebEvent
<1>5. CASE WebContact
  <2>1. PICK c \in WebContacts : contact' = Over([etag |-> contact.etag + 1], c)
    BY <1>5 DEF WebContact
  <2>2. contact' \in Contact
    BY <1>1, <2>1, ContactIs DEF Contact
  <2>3. Notes(OnContact, Changed(contact, contact'))
    BY <1>1, <2>2, ChangedFields DEF Contact, Notes
  <2>4. run' \in [Proc -> Invocation]
    BY <1>5, <2>3, WriteTyped DEF WebContact
  <2> QED BY <1>1, <1>2, <1>5, <2>2, <2>4 DEF WebContact
<1> QED BY <1>3, <1>4, <1>5

LEMMA InitTyped == Init => TypeOK
<1> SUFFICES ASSUME Init PROVE TypeOK
  OBVIOUS
<1>1. mail \in Seq(Message) /\ drafts = <<>> /\ sent = <<>>
  <2>1. PICK m \in Received : mail = <<m>>
    BY DEF Init, DraftInit
  <2>2. m \in Message
    BY DraftsAssumption
  <2> QED BY <2>1, <2>2 DEF Init, DraftInit
<1>2. run \in [Proc -> Invocation]
  BY DEF Init, DraftInit, Invocation
<1>3. starts \in 0..MaxStarts /\ faults \in 0..MaxFaults /\ edits \in 0..MaxEdits
  BY DraftsAssumption DEF Init, DraftInit
<1>4. DraftTypeOK
  BY <1>1, <1>3 DEF DraftTypeOK
<1>5. vacation \in Responder /\ event \in [attendees : Guestlist, color : Nat]
  BY EditsAssumption DEF Init
<1>6. contact \in Contact
  <2>1. PICK c \in WebContacts : contact = Over([etag |-> 0], c)
    BY DEF Init
  <2> QED BY <2>1, ContactIs
<1> QED BY <1>2, <1>4, <1>5, <1>6 DEF TypeOK

LEMMA StutterTyped == TypeOK /\ UNCHANGED vars => TypeOK'
BY DEF TypeOK, DraftTypeOK, vars, draftVars, mailbox, counts, objects

LEMMA StopTyped ==
    ASSUME TypeOK, NEW p \in Proc, Stop(p), UNCHANGED <<mailbox, objects>>
    PROVE  TypeOK'
<1>1. run' \in [Proc -> Invocation]
  BY EndTyped DEF Stop
<1> QED BY <1>1, DraftsAssumption DEF Stop, TypeOK, DraftTypeOK, mailbox, objects

LEMMA NextTyped == TypeOK /\ [Next]_vars => TypeOK'
<1> SUFFICES ASSUME TypeOK, [Next]_vars PROVE TypeOK'
  OBVIOUS
<1>1. ASSUME NEW p \in Proc, StartDraft(p), UNCHANGED objects PROVE TypeOK'
  BY <1>1, StartDraftTyped
<1>2. ASSUME NEW p \in Proc, StartSend(p), UNCHANGED objects PROVE TypeOK'
  BY <1>2, StartSendTyped
<1>3. ASSUME NEW p \in Proc, DraftStep(p), UNCHANGED objects PROVE TypeOK'
  BY <1>3, DraftStepTyped
<1>4. ASSUME NEW p \in Proc, StartEdit(p) PROVE TypeOK'
  BY <1>4, StartEditTyped
<1>5. ASSUME NEW p \in Proc, EditStep(p) PROVE TypeOK'
  BY <1>5, EditStepTyped
<1>6. ASSUME NEW p \in Proc, Stop(p), UNCHANGED <<mailbox, objects>> PROVE TypeOK'
  BY <1>6, StopTyped
<1>7. ASSUME WebDraft, UNCHANGED objects PROVE TypeOK'
  BY <1>7, WebDraftTyped
<1>8. ASSUME WebVacation \/ WebEvent \/ WebContact PROVE TypeOK'
  BY <1>8, WebTyped
<1>9. CASE UNCHANGED vars
  BY <1>9, StutterTyped
<1>10. CASE Next
  BY <1>1, <1>2, <1>3, <1>4, <1>5, <1>6, <1>7, <1>8, <1>10 DEF Next
<1> QED BY <1>9, <1>10

(* The state keeps its types; above all, every draft that is made has      *)
(* recipients and a subject that were parsed, whatever message it answers. *)
THEOREM TypeCorrect == Spec => []TypeOK
BY InitTyped, NextTyped, PTL DEF Spec

-----------------------------------------------------------------------------
(* Drafts: the inductive invariant.                                        *)

(* What was sent is no draft any more.                                     *)
SentGone == \A i \in DOMAIN sent : sent[i].draft \in DOMAIN drafts /\ drafts[sent[i].draft] = None

(* A preview is of a draft there was, and shows it as it still is unless   *)
(* it was edited since, which its count of edits tells.                    *)
Previewed(p) ==
    LET n == run[p].arg.id
        shown == run[p].shown
    IN  /\ n \in DOMAIN drafts
        /\ run[p].pc = "send" /\ Present(n) =>
              /\ shown.edited <= drafts[n].edited
              /\ shown.edited = drafts[n].edited => shown = Summary(drafts[n])

PreviewTrue == \A p \in Proc : run[p].pc \in {"preview", "send"} => Previewed(p)

(* Messages have the number of their place.                                *)
MailChained == \A n \in DOMAIN mail : mail[n].id \in {None, n} /\ Chained(mail[n].refs, n)

(* A draft refers to messages there are, each once.                        *)
Refers(d) ==
    /\ \A i, j \in DOMAIN d.refs : d.refs[i] = d.refs[j] => i = j
    /\ \A i \in DOMAIN d.refs : d.refs[i] <= Len(mail)
    /\ d.parent <= Len(mail)

DraftsRefer == \A n \in DOMAIN drafts : Present(n) => Refers(drafts[n])

(* A reply is composed from the message it answers, for the user.          *)
CopyTrue ==
    \A p \in Proc :
        run[p].pc \in {"profile", "create"} /\ run[p].arg.reply =>
            /\ run[p].parent \in DOMAIN mail /\ run[p].src = mail[run[p].parent]
            /\ run[p].pc = "create" /\ Needs(run[p].arg).cc =>
                  run[p].self = {Lower(Me)} \cup Own(run[p].arg)

Threaded(d, src) ==
    /\ d.thread = src.thread
    /\ d.inReplyTo = src.id /\ Last(d.refs) = src.id
    /\ IsPrefix(src.refs, d.refs)
    /\ \A i, j \in DOMAIN d.refs : d.refs[i] = d.refs[j] => i = j

Reaches(d, src, own) ==
    /\ Folded(d.to) \cup Folded(d.cc) \cup own
         = {Lower(src.from)} \cup Folded(src.to) \cup Folded(src.cc) \cup own
    /\ Folded(d.cc) \cap own = {}
    /\ Cardinality(Folded(d.cc)) = Len(d.cc)

ReachesAll(d, src) ==
    d.flags.all /\ d.flags.to = None /\ d.flags.cc = None =>
        Reaches(d, src, {Lower(Me)} \cup Own(d.flags))

(* What is quoted is the body of the source.                               *)
Quotes(d, src) ==
    d.flags.quote /\ ~Empty(src.body) => d.body = WithQuote(d.flags.text, src.body)

Answers(d, src) == Threaded(d, src) /\ ReachesAll(d, src) /\ Quotes(d, src)

RepliesRight ==
    \A n \in DOMAIN drafts :
        Present(n) /\ drafts[n].parent > 0 /\ drafts[n].edited = 0 =>
            Answers(drafts[n], mail[drafts[n].parent])

DraftInv ==
    /\ SentGone /\ SentOnce
    /\ PreviewTrue /\ SentAsShown
    /\ MailChained /\ DraftsRefer
    /\ CopyTrue /\ RepliesRight

LEMMA RepliesRightIs == RepliesRight <=> \A d \in Replied : Answers(d, mail[d.parent])
<1>1. \A d : d \in Replied <=> \E n \in DOMAIN drafts : /\ Present(n) /\ d = drafts[n]
                                                        /\ d.parent > 0 /\ d.edited = 0
  BY DEF Replied, Present
<1> QED BY <1>1 DEF RepliesRight

LEMMA RepliesReach == RepliesRight => ThreadChain /\ ReplyReachesAll
<1> SUFFICES ASSUME RepliesRight PROVE ThreadChain /\ ReplyReachesAll
  OBVIOUS
<1>1. \A d \in Replied : Threaded(d, mail[d.parent]) /\ ReachesAll(d, mail[d.parent])
  BY RepliesRightIs DEF Answers
<1>2. ThreadChain <=> \A d \in Replied : Threaded(d, mail[d.parent])
  BY DEF ThreadChain, Threaded
<1>3. ReplyReachesAll <=> \A d \in Replied : ReachesAll(d, mail[d.parent])
  BY DEF ReplyReachesAll, ReachesAll, Reaches
<1> QED BY <1>1, <1>2, <1>3

(* The References of a reply.                                              *)
LEMMA ReferencesChained ==
    ASSUME NEW n \in Nat, NEW refs \in Seq(Int), Chained(refs, n)
    PROVE  LET new == BuildReferences(refs, n)
           IN  /\ new \in Seq(Int) /\ Last(new) = n /\ IsPrefix(refs, new)
               /\ \A i, j \in DOMAIN new : new[i] = new[j] => i = j
               /\ \A i \in DOMAIN new : new[i] <= n
<1>1. CASE refs # <<>> /\ Last(refs) = n
  <2>1. BuildReferences(refs, n) = refs
    BY <1>1 DEF BuildReferences
  <2>2. IsPrefix(refs, refs)
    BY DEF IsPrefix
  <2> QED BY <1>1, <2>1, <2>2 DEF Chained
<1>2. CASE ~(refs # <<>> /\ Last(refs) = n)
  <2> DEFINE new == Append(refs, n)
  <2>1. BuildReferences(refs, n) = new
    BY <1>2 DEF BuildReferences
  <2>2. /\ Len(refs) \in Nat /\ DOMAIN refs = 1..Len(refs)
        /\ DOMAIN new = 1..(Len(refs) + 1) /\ Len(new) = Len(refs) + 1
        /\ \A i \in 1..Len(refs) : new[i] = refs[i] /\ refs[i] \in Int
        /\ new[Len(refs) + 1] = n /\ new \in Seq(Int)
    OBVIOUS
  <2>3. ASSUME NEW i \in DOMAIN refs PROVE refs[i] # n
    BY <1>2, <2>2, <2>3 DEF Chained, Last
  <2>4. IsPrefix(refs, new)
    BY DEF IsPrefix
  <2> HIDE DEF new
  <2>5. Last(new) = n
    BY <2>2 DEF Last
  <2>6. ASSUME NEW i \in DOMAIN new, NEW j \in DOMAIN new, new[i] = new[j] PROVE i = j
    <3>1. CASE i \in DOMAIN refs /\ j \in DOMAIN refs
      BY <2>2, <2>6, <3>1 DEF Chained
    <3>2. CASE i \notin DOMAIN refs /\ j \in DOMAIN refs
      BY <2>2, <2>3, <2>6, <3>2
    <3>3. CASE i \in DOMAIN refs /\ j \notin DOMAIN refs
      BY <2>2, <2>3, <2>6, <3>3
    <3>4. CASE i \notin DOMAIN refs /\ j \notin DOMAIN refs
      BY <2>2, <3>4
    <3> QED BY <3>1, <3>2, <3>3, <3>4
  <2>7. ASSUME NEW i \in DOMAIN new PROVE new[i] <= n
    BY <2>2 DEF Chained
  <2> QED BY <2>1, <2>2, <2>4, <2>5, <2>6, <2>7
<1> QED BY <1>1, <1>2

LEMMA FoldedConcat ==
    ASSUME NEW A, NEW s \in Seq(A), NEW t \in Seq(A)
    PROVE  Folded(s \o t) = Folded(s) \cup Folded(t)
<1>1. /\ Len(s) \in Nat /\ Len(t) \in Nat /\ DOMAIN s = 1..Len(s) /\ DOMAIN t = 1..Len(t)
      /\ DOMAIN (s \o t) = 1..(Len(s) + Len(t))
      /\ \A i \in DOMAIN (s \o t) : (s \o t)[i] = IF i <= Len(s) THEN s[i] ELSE t[i - Len(s)]
  OBVIOUS
<1>2. ASSUME NEW i \in DOMAIN (s \o t) PROVE Lower((s \o t)[i]) \in Folded(s) \cup Folded(t)
  <2>1. CASE i <= Len(s)
    BY <1>1, <2>1 DEF Folded
  <2>2. CASE ~(i <= Len(s))
    <3>1. i - Len(s) \in DOMAIN t
      BY <1>1, <2>2
    <3> QED BY <1>1, <2>2, <3>1 DEF Folded
  <2> QED BY <2>1, <2>2
<1>3. ASSUME NEW i \in DOMAIN s PROVE Lower(s[i]) \in Folded(s \o t)
  <2>1. i \in DOMAIN (s \o t) /\ (s \o t)[i] = s[i]
    BY <1>1
  <2> QED BY <2>1 DEF Folded
<1>4. ASSUME NEW i \in DOMAIN t PROVE Lower(t[i]) \in Folded(s \o t)
  <2>1. i + Len(s) \in DOMAIN (s \o t) /\ (s \o t)[i + Len(s)] = t[i]
    BY <1>1
  <2> QED BY <2>1 DEF Folded
<1>5. Folded(s \o t) = {Lower((s \o t)[i]) : i \in DOMAIN (s \o t)}
  BY DEF Folded
<1>6. Folded(s) = {Lower(s[i]) : i \in DOMAIN s} /\ Folded(t) = {Lower(t[i]) : i \in DOMAIN t}
  BY DEF Folded
<1> HIDE DEF Folded
<1> QED BY <1>2, <1>3, <1>4, <1>5, <1>6

(* A reply to all, for the user whose addresses are own.                   *)
LEMMA ReplyReaches ==
    ASSUME NEW f \in Flags, NEW src \in Message, NEW parent \in Nat,
           Derivable(src, Needs(f)),
           NEW own, Needs(f).cc => own = {Lower(Me)} \cup Own(f)
    PROVE  ReachesAll(ReplyDraft(f, src, parent, own), src)
<1> DEFINE d == ReplyDraft(f, src, parent, own)
<1>1. d.flags = f
  BY DEF ReplyDraft
<1> SUFFICES ASSUME f.all, f.to = None, f.cc = None PROVE Reaches(d, src, own)
  <2>1. f.all /\ f.cc = None => own = {Lower(Me)} \cup Own(f)
    BY DEF Needs
  <2> QED BY <1>1, <2>1 DEF ReachesAll
<1>2. Needs(f).cc /\ Needs(f).to
  BY DEF Needs
<1>3. src.to \in Seq(Address) /\ src.cc \in Seq(Address)
  BY <1>2 DEF Derivable, Message, Header
<1> DEFINE addrs == src.to \o src.cc
<1>4. d.cc = FilterSelf(addrs, own) /\ d.to = <<src.from>>
  <2>1. d.to = Given(f.to, DeriveReplyDefaults(src, Needs(f), own).to)
    BY DEF ReplyDraft
  <2>2. d.cc = DeriveReplyDefaults(src, Needs(f), own).cc
    BY <1>2 DEF ReplyDraft
  <2> HIDE DEF d
  <2> QED BY <1>2, <2>1, <2>2 DEF Given, DeriveReplyDefaults
<1>5. addrs \in Seq(Address) /\ Folded(addrs) = Folded(src.to) \cup Folded(src.cc)
  BY <1>3, FoldedConcat
<1> HIDE DEF addrs, d
<1>6. Lists(d.cc, Folded(addrs), own, Address)
  BY <1>4, <1>5, FilterSelfLists
<1>7. Folded(d.cc) = Folded(addrs) \ own /\ Cardinality(Folded(d.cc)) = Len(d.cc)
  BY <1>6, DistinctCounted DEF Lists
<1>8. Folded(d.to) = {Lower(src.from)}
  BY <1>4 DEF Folded
<1> QED BY <1>5, <1>7, <1>8 DEF Reaches

LEMMA ReplyThreaded ==
    ASSUME NEW f \in Flags, NEW src \in Message, NEW parent \in Nat, NEW self,
           Derivable(src, Needs(f)), src.id \in {None, parent}, Chained(src.refs, parent)
    PROVE  LET d == ReplyDraft(f, src, parent, self)
           IN  /\ Threaded(d, src)
               /\ \A i \in DOMAIN d.refs : d.refs[i] <= parent
<1> DEFINE d == ReplyDraft(f, src, parent, self)
<1>1. src.id = parent
  BY DEF Derivable
<1>2. src.refs \in Seq(Int)
  BY DEF Message
<1>3. /\ d.thread = src.thread /\ d.inReplyTo = src.id
      /\ d.refs = BuildReferences(src.refs, parent)
  BY <1>1 DEF ReplyDraft, DeriveReplyDefaults
<1> HIDE DEF d
<1>4. /\ Last(d.refs) = parent /\ IsPrefix(src.refs, d.refs)
      /\ \A i, j \in DOMAIN d.refs : d.refs[i] = d.refs[j] => i = j
      /\ \A i \in DOMAIN d.refs : d.refs[i] <= parent
  BY <1>2, <1>3, ReferencesChained
<1>5. Threaded(d, src)
  BY <1>1, <1>3, <1>4 DEF Threaded
<1> QED BY <1>4, <1>5 DEF d

LEMMA ReplyQuotes ==
    ASSUME NEW f, NEW src, NEW parent, NEW self
    PROVE  Quotes(ReplyDraft(f, src, parent, self), src)
BY DEF Quotes, ReplyDraft

(* What an invocation composes is right.                                   *)
LEMMA ComposedRight ==
    ASSUME TypeOK, MailChained, CopyTrue, NEW p \in Proc, run[p].pc = "create", Creatable(p)
    PROVE  LET d == Composed(p)
           IN  /\ Refers(d)
               /\ d.parent > 0 => Answers(d, mail[d.parent])
<1> DEFINE d == Composed(p)
           f == run[p].arg
<1>1. run[p] \in DraftRun /\ f \in Flags
  BY AtDraft DEF DraftRun
<1>2. mail \in Seq(Message) /\ Len(mail) \in Nat
  BY DEF TypeOK, DraftTypeOK
<1>3. CASE ~f.reply
  <2>1. d = NewDraft(f)
    BY <1>3 DEF Composed
  <2>2. d.refs = <<>> /\ d.parent = 0
    BY <2>1 DEF NewDraft
  <2> HIDE DEF d
  <2>3. Refers(d)
    BY <1>2, <2>2 DEF Refers
  <2> QED BY <2>2, <2>3 DEF d
<1>4. CASE f.reply
  <2> DEFINE src == run[p].src
             n == run[p].parent
             self == run[p].self
  <2>1. n \in DOMAIN mail /\ src = mail[n] /\ (Needs(f).cc => self = {Lower(Me)} \cup Own(f))
    BY <1>4 DEF CopyTrue
  <2>2. n \in Nat /\ n > 0 /\ n <= Len(mail) /\ src \in Message
    BY <1>2, <2>1
  <2>3. src.id \in {None, n} /\ Chained(src.refs, n)
    BY <2>1 DEF MailChained
  <2>4. Derivable(src, Needs(f))
    BY <1>4 DEF Creatable
  <2>5. d = ReplyDraft(f, src, n, self)
    BY <1>4 DEF Composed
  <2> HIDE DEF f, src, n, self
  <2>6. d.parent = n
    BY <2>5 DEF ReplyDraft
  <2> HIDE DEF d
  <2>7. Threaded(d, src) /\ \A i \in DOMAIN d.refs : d.refs[i] <= n
    BY <1>1, <2>2, <2>3, <2>4, <2>5, ReplyThreaded
  <2>8. ReachesAll(d, src)
    BY <1>1, <2>1, <2>2, <2>4, <2>5, ReplyReaches
  <2>9. d.refs \in Seq(Int)
    <3>1. FlagsAccepted(f)
      BY <1>1 DEF DraftRun, f
    <3>2. d \in Draft
      BY <1>1, <2>2, <2>4, <2>5, <3>1, ReplyDraftTyped
    <3> QED BY <3>2 DEF Draft
  <2>10. Refers(d)
    <3>1. \A i \in DOMAIN d.refs : d.refs[i] \in Int
      BY <2>9
    <3> QED BY <1>2, <2>2, <2>6, <2>7, <3>1 DEF Refers, Threaded
  <2>11. Quotes(d, src)
    BY <2>5, ReplyQuotes
  <2> QED BY <2>1, <2>6, <2>7, <2>8, <2>10, <2>11 DEF d, Answers
<1> QED BY <1>3, <1>4

-----------------------------------------------------------------------------
(* What steps there are, for the mailbox and for one invocation.           *)

LEMMA MailboxSteps ==
    ASSUME [Next]_vars
    PROVE  \/ UNCHANGED mailbox
           \/ \E p \in Proc : CreateDraft(p) \/ SendDraft(p)
           \/ \E n \in DOMAIN drafts : WebEditDraft(n) \/ WebDeleteDraft(n) \/ WebSendDraft(n)
<1>1. CASE UNCHANGED vars
  BY <1>1 DEF vars, draftVars
<1>2. ASSUME NEW p \in Proc, DraftStep(p)
      PROVE  UNCHANGED mailbox \/ CreateDraft(p) \/ SendDraft(p)
  BY <1>2 DEF DraftStep, GetSource, GetProfile, CreateRefused, GetDraft, SendRefused
<1>3. ASSUME NEW p \in Proc, EditStep(p) PROVE UNCHANGED mailbox
  BY <1>3 DEF EditStep, GetVacation, PutVacation, VacationRefused, GetEvent, PatchAttendees,
     PatchColor, GetContact, PutContact, ContactRefused, Read, Refuse
<1>4. CASE Next
  BY <1>2, <1>3, <1>4 DEF Next, StartDraft, StartSend, StartEdit, WebDraft, WebVacation, WebEvent,
     WebContact
<1> QED BY <1>1, <1>4

(* Another invocation's step, or another client's, as q sees it.           *)
Noted(q) ==
    \/ run'[q] = run[q]
    \/ run'[q] = Idle
    \/ \E fields : run[q].op \in OnVacation \cup OnEvent \cup OnContact
                   /\ run'[q] = [run[q] EXCEPT !.since = @ \cup fields]

LEMMA RunSteps ==
    ASSUME TypeOK, [Next]_vars, NEW q \in Proc
    PROVE  \/ Noted(q)
           \/ StartDraft(q) \/ StartSend(q) \/ StartEdit(q)
           \/ GetSource(q) \/ GetProfile(q) \/ GetDraft(q)
           \/ GetVacation(q) \/ GetEvent(q) \/ GetContact(q)
<1> DOMAIN run = Proc
  BY DEF TypeOK
<1>1. CASE UNCHANGED vars
  BY <1>1 DEF vars, draftVars, Noted
<1>2. ASSUME NEW p \in Proc, End(p) PROVE Noted(q)
  BY <1>2 DEF End, Noted
<1>3. ASSUME NEW p, NEW op, NEW ops, NEW fields, ops \subseteq OnVacation \cup OnEvent \cup OnContact,
             Write(ops, p, fields)
      PROVE  Noted(q)
  BY <1>3 DEF Write, Noted
<1>4. ASSUME NEW p \in Proc, NEW op, NEW arg, NEW first, Start(p, op, arg, first), p # q
      PROVE  Noted(q)
  BY <1>4 DEF Start, Noted
<1>5. ASSUME NEW p \in Proc, NEW copy, NEW label, Read(p, copy, label), p # q PROVE Noted(q)
  BY <1>5 DEF Read, Noted
<1>6. ASSUME NEW p \in Proc, DraftStep(p)
      PROVE  Noted(q) \/ GetSource(q) \/ GetProfile(q) \/ GetDraft(q)
  <2>1. CASE GetSource(p) \/ GetProfile(p) \/ GetDraft(p)
    <3>1. CASE p = q
      BY <2>1, <3>1
    <3>2. CASE p # q
      BY <1>2, <2>1, <3>2 DEF GetSource, GetProfile, GetDraft, Noted
    <3> QED BY <3>1, <3>2
  <2>2. CASE CreateDraft(p) \/ CreateRefused(p) \/ SendDraft(p) \/ SendRefused(p)
    BY <1>2, <2>2 DEF CreateDraft, CreateRefused, SendDraft, SendRefused
  <2> QED BY <1>6, <2>1, <2>2 DEF DraftStep
<1>7. ASSUME NEW p \in Proc, EditStep(p)
      PROVE  Noted(q) \/ GetVacation(q) \/ GetEvent(q) \/ GetContact(q)
  <2>1. CASE GetVacation(p) \/ GetEvent(p) \/ GetContact(p)
    <3>1. CASE p = q
      BY <2>1, <3>1
    <3>2. CASE p # q
      BY <1>2, <1>5, <2>1, <3>2 DEF GetVacation, GetEvent, GetContact, Refuse
    <3> QED BY <3>1, <3>2
  <2>2. CASE VacationRefused(p) \/ ContactRefused(p)
    BY <1>2, <2>2 DEF VacationRefused, ContactRefused, Refuse
  <2>3. CASE PutVacation(p)
    BY <1>3, <2>3 DEF PutVacation
  <2>4. CASE PatchAttendees(p)
    BY <1>3, <2>4 DEF PatchAttendees
  <2>5. CASE PatchColor(p)
    BY <1>3, <2>5 DEF PatchColor
  <2>6. CASE PutContact(p)
    BY <1>3, <2>6 DEF PutContact
  <2> QED BY <1>7, <2>1, <2>2, <2>3, <2>4, <2>5, <2>6 DEF EditStep
<1>8. ASSUME NEW p \in Proc, StartDraft(p) \/ StartSend(p) \/ StartEdit(p)
      PROVE  Noted(q) \/ StartDraft(q) \/ StartSend(q) \/ StartEdit(q)
  BY <1>4, <1>8 DEF StartDraft, StartSend, StartEdit
<1>9. ASSUME NEW p \in Proc, Stop(p) PROVE Noted(q)
  BY <1>2, <1>9 DEF Stop
<1>10. CASE WebDraft
  BY <1>10 DEF WebDraft, WebEditDraft, WebDeleteDraft, WebSendDraft, Noted
<1>11. CASE WebVacation \/ WebEvent \/ WebContact
  BY <1>3, <1>11 DEF WebVacation, WebEvent, WebContact
<1> QED BY <1>1, <1>6, <1>7, <1>8, <1>9, <1>10, <1>11 DEF Next

-----------------------------------------------------------------------------
(* The invariant is kept.                                                  *)

LEMMA SentFacts ==
    ASSUME TypeOK, NEW n, NEW d, NEW shown, Deliver(n, d, shown), d \in Draft
    PROVE  \E last :
              /\ last \notin DOMAIN sent /\ DOMAIN sent' = DOMAIN sent \cup {last}
              /\ \A i \in DOMAIN sent : sent'[i] = sent[i]
              /\ sent'[last] = [draft |-> n, shown |-> shown, as |-> d]
<1>1. sent \in Seq([draft : Nat, shown : Preview \cup {None}, as : Draft])
  BY DEF TypeOK, DraftTypeOK
<1> HIDE DEF TypeOK
<1>2. sent' = Append(sent, [draft |-> n, shown |-> shown, as |-> d])
  BY DEF Deliver
<1>3. /\ Len(sent) + 1 \notin DOMAIN sent /\ DOMAIN sent' = DOMAIN sent \cup {Len(sent) + 1}
      /\ \A i \in DOMAIN sent : sent'[i] = sent[i]
      /\ sent'[Len(sent) + 1] = [draft |-> n, shown |-> shown, as |-> d]
  BY <1>1, <1>2
<1> QED BY <1>3

LEMMA MailFacts ==
    ASSUME TypeOK, NEW n, NEW d, NEW shown, Deliver(n, d, shown)
    PROVE  /\ Len(mail) \in Nat /\ DOMAIN mail = 1..Len(mail)
           /\ DOMAIN mail' = DOMAIN mail \cup {Len(mail) + 1} /\ Len(mail') = Len(mail) + 1
           /\ \A i \in DOMAIN mail : mail'[i] = mail[i]
           /\ mail'[Len(mail) + 1].id = Len(mail) + 1
           /\ mail'[Len(mail) + 1].refs = d.refs
<1>1. mail \in Seq(Message)
  BY DEF TypeOK, DraftTypeOK
<1> DEFINE m == [id |-> Len(mail) + 1,
                 thread |-> IF d.thread = None THEN Len(mail) + 1 ELSE d.thread,
                 from |-> IF d.from = None THEN Me ELSE d.from,
                 to |-> d.to, cc |-> d.cc, subject |-> d.subject, refs |-> d.refs,
                 body |-> d.body]
<1>2. mail' = Append(mail, m)
  BY DEF Deliver
<1>3. m.id = Len(mail) + 1 /\ m.refs = d.refs
  OBVIOUS
<1> HIDE DEF m, TypeOK
<1>4. /\ Len(mail) \in Nat /\ DOMAIN mail = 1..Len(mail)
      /\ DOMAIN mail' = DOMAIN mail \cup {Len(mail) + 1} /\ Len(mail') = Len(mail) + 1
      /\ \A i \in DOMAIN mail : mail'[i] = mail[i]
      /\ mail'[Len(mail) + 1] = m
  BY <1>1, <1>2
<1> QED BY <1>3, <1>4

LEMMA DraftsAre ==
    ASSUME TypeOK
    PROVE  /\ Len(drafts) \in Nat /\ DOMAIN drafts = 1..Len(drafts)
           /\ \A n \in DOMAIN drafts : Present(n) => drafts[n] \in Draft
<1>1. drafts \in Seq(Draft \cup {None})
  BY DEF TypeOK, DraftTypeOK
<1> HIDE DEF TypeOK
<1> QED BY <1>1 DEF Present

(* Every step but the composing leaves the drafts as they are, except for  *)
(* one that goes or is edited.                                             *)
Moves(n) ==
    /\ n \in DOMAIN drafts'
    /\ \/ drafts'[n] = drafts[n]
       \/ drafts'[n] = None
       \/ /\ Present(n) /\ drafts'[n].edited = drafts[n].edited + 1
          /\ drafts'[n].refs = drafts[n].refs /\ drafts'[n].parent = drafts[n].parent

LEMMA DraftMoves ==
    ASSUME TypeOK, [Next]_vars, NEW n \in DOMAIN drafts
    PROVE  Moves(n)
<1>1. drafts \in Seq(Draft \cup {None})
  BY DEF TypeOK, DraftTypeOK
<1>2. CASE UNCHANGED mailbox
  BY <1>2 DEF mailbox, Moves
<1>3. ASSUME NEW p \in Proc, CreateDraft(p) PROVE Moves(n)
  <2>1. drafts' = Append(drafts, Composed(p))
    BY <1>3 DEF CreateDraft
  <2> DEFINE d == Composed(p)
  <2> HIDE DEF d
  <2>2. n \in DOMAIN drafts' /\ drafts'[n] = drafts[n]
    BY <1>1, <2>1 DEF d
  <2> QED BY <2>2 DEF Moves
<1>4. ASSUME NEW p \in Proc, SendDraft(p) PROVE Moves(n)
  BY <1>4 DEF SendDraft, Moves
<1>5. ASSUME NEW m \in DOMAIN drafts, WebDeleteDraft(m) \/ WebSendDraft(m) PROVE Moves(n)
  BY <1>5 DEF WebDeleteDraft, WebSendDraft, Moves
<1>6. ASSUME NEW m \in DOMAIN drafts, WebEditDraft(m) PROVE Moves(n)
  <2>1. PICK to \in WebHeaders :
          drafts' = [drafts EXCEPT ![m].to = to, ![m].cc = <<>>, ![m].edited = @ + 1]
    BY <1>6 DEF WebEditDraft
  <2>2. CASE n # m
    BY <2>1, <2>2 DEF Moves
  <2>3. CASE n = m
    <3>1. Present(n) /\ drafts[n] \in Draft
      BY <1>6, <2>3, DraftsAre DEF WebEditDraft
    <3> DEFINE old == drafts[n]
               new == [old EXCEPT !.to = to, !.cc = <<>>, !.edited = @ + 1]
    <3>2. new.edited = old.edited + 1 /\ new.refs = old.refs /\ new.parent = old.parent
      BY <3>1 DEF Draft
    <3>3. drafts' = [drafts EXCEPT ![n] = new]
      BY <2>1, <2>3
    <3> HIDE DEF new
    <3> QED BY <3>1, <3>2, <3>3 DEF Moves
  <2> QED BY <2>2, <2>3
<1> QED BY <1>2, <1>3, <1>4, <1>5, <1>6, MailboxSteps

(* A draft that is sent: by whom, and what the sender saw.                 *)
LEMMA Sends ==
    ASSUME TypeOK, [Next]_vars, PreviewTrue
    PROVE  \/ sent' = sent /\ mail' = mail
           \/ \E n \in DOMAIN drafts : \E shown :
                 /\ Present(n) /\ Deliver(n, drafts[n], shown)
                 /\ drafts' = [drafts EXCEPT ![n] = None]
                 /\ \/ shown = None
                    \/ shown.edited = drafts[n].edited => shown = Summary(drafts[n])
<1>1. CASE UNCHANGED mailbox
  BY <1>1 DEF mailbox
<1>2. ASSUME NEW p \in Proc, CreateDraft(p) PROVE sent' = sent /\ mail' = mail
  BY <1>2 DEF CreateDraft
<1>3. ASSUME NEW p \in Proc, SendDraft(p)
      PROVE  \E n \in DOMAIN drafts : \E shown :
                /\ Present(n) /\ Deliver(n, drafts[n], shown)
                /\ drafts' = [drafts EXCEPT ![n] = None]
                /\ shown.edited = drafts[n].edited => shown = Summary(drafts[n])
  <2> DEFINE n == run[p].arg.id
             shown == run[p].shown
  <2>1. Present(n) /\ Deliver(n, drafts[n], shown) /\ drafts' = [drafts EXCEPT ![n] = None]
    BY <1>3 DEF SendDraft
  <2>2. Previewed(p) /\ run[p].pc = "send"
    BY <1>3 DEF SendDraft, At, PreviewTrue
  <2>3. n \in DOMAIN drafts /\ (shown.edited = drafts[n].edited => shown = Summary(drafts[n]))
    BY <2>1, <2>2 DEF Previewed
  <2> HIDE DEF n, shown
  <2> QED BY <2>1, <2>3
<1>4. ASSUME NEW n \in DOMAIN drafts, WebEditDraft(n) \/ WebDeleteDraft(n) PROVE sent' = sent /\ mail' = mail
  BY <1>4 DEF WebEditDraft, WebDeleteDraft
<1>5. ASSUME NEW n \in DOMAIN drafts, WebSendDraft(n)
      PROVE  Present(n) /\ Deliver(n, drafts[n], None) /\ drafts' = [drafts EXCEPT ![n] = None]
  BY <1>5 DEF WebSendDraft
<1> QED BY <1>1, <1>2, <1>3, <1>4, <1>5, MailboxSteps

LEMMA SentOnceKept ==
    ASSUME TypeOK, [Next]_vars, PreviewTrue, SentGone, SentOnce
    PROVE  SentGone' /\ SentOnce'
<1>1. CASE sent' = sent
  <2>1. ASSUME NEW i \in DOMAIN sent'
        PROVE  sent'[i].draft \in DOMAIN drafts' /\ drafts'[sent'[i].draft] = None
    <3> DEFINE n == sent[i].draft
    <3>1. n \in DOMAIN drafts /\ drafts[n] = None
      BY <1>1 DEF SentGone
    <3> HIDE DEF n
    <3>2. Moves(n)
      BY <3>1, DraftMoves
    <3>3. n \in DOMAIN drafts' /\ drafts'[n] = None
      BY <3>1, <3>2 DEF Moves, Present
    <3> QED BY <1>1, <3>3 DEF n
  <2>2. SentOnce'
    BY <1>1 DEF SentOnce
  <2> QED BY <2>1, <2>2 DEF SentGone
<1>2. ASSUME NEW n \in DOMAIN drafts, NEW shown, Present(n), Deliver(n, drafts[n], shown),
             drafts' = [drafts EXCEPT ![n] = None]
      PROVE  SentGone' /\ SentOnce'
  <2>1. drafts[n] \in Draft
    BY <1>2, DraftsAre
  <2>2. PICK last : /\ last \notin DOMAIN sent /\ DOMAIN sent' = DOMAIN sent \cup {last}
                    /\ \A i \in DOMAIN sent : sent'[i] = sent[i]
                    /\ sent'[last] = [draft |-> n, shown |-> shown, as |-> drafts[n]]
    BY <1>2, <2>1, SentFacts
  <2>3. \A i \in DOMAIN sent : sent[i].draft # n
    BY <1>2 DEF SentGone, Present
  <2>4. SentGone'
    <3>1. DOMAIN drafts' = DOMAIN drafts /\ drafts'[n] = None
          /\ \A m \in DOMAIN drafts \ {n} : drafts'[m] = drafts[m]
      BY <1>2
    <3> QED BY <2>2, <2>3, <3>1 DEF SentGone
  <2>5. SentOnce'
    BY <2>2, <2>3 DEF SentOnce
  <2> QED BY <2>4, <2>5
<1> QED BY <1>1, <1>2, Sends

LEMMA SentAsShownKept ==
    ASSUME TypeOK, [Next]_vars, PreviewTrue, SentAsShown
    PROVE  SentAsShown'
<1>1. CASE sent' = sent
  BY <1>1 DEF SentAsShown
<1>2. ASSUME NEW n \in DOMAIN drafts, NEW shown, Present(n), Deliver(n, drafts[n], shown),
             \/ shown = None
             \/ shown.edited = drafts[n].edited => shown = Summary(drafts[n])
      PROVE  SentAsShown'
  <2>1. drafts[n] \in Draft
    BY <1>2, DraftsAre
  <2> DEFINE d == drafts[n]
  <2>2. PICK last : /\ last \notin DOMAIN sent /\ DOMAIN sent' = DOMAIN sent \cup {last}
                    /\ \A i \in DOMAIN sent : sent'[i] = sent[i]
                    /\ sent'[last] = [draft |-> n, shown |-> shown, as |-> d]
    BY <1>2, <2>1, SentFacts
  <2>3. ASSUME shown # None, shown.edited = d.edited,
               NEW f \in {"to", "cc", "from", "subject", "atts"}
        PROVE  shown[f] = d[f]
    <3>1. shown = Summary(d)
      BY <1>2, <2>3
    <3> QED BY <3>1 DEF Summary
  <2> HIDE DEF d
  <2> QED BY <2>2, <2>3 DEF SentAsShown
<1> QED BY <1>1, <1>2, Sends

LEMMA MailChainedKept ==
    ASSUME TypeOK, [Next]_vars, PreviewTrue, MailChained, DraftsRefer
    PROVE  MailChained'
<1>1. CASE mail' = mail
  BY <1>1 DEF MailChained
<1>2. ASSUME NEW n \in DOMAIN drafts, NEW shown, Present(n), Deliver(n, drafts[n], shown)
      PROVE  MailChained'
  <2> DEFINE d == drafts[n]
             last == Len(mail) + 1
  <2>1. d \in Draft /\ Refers(d)
    BY <1>2, DraftsAre DEF DraftsRefer
  <2>2. /\ Len(mail) \in Nat /\ DOMAIN mail' = DOMAIN mail \cup {last}
        /\ \A i \in DOMAIN mail : mail'[i] = mail[i]
        /\ mail'[last].id = last /\ mail'[last].refs = d.refs
    BY <1>2, MailFacts
  <2>3. Chained(d.refs, last)
    <3>1. d.refs \in Seq(Int)
      BY <2>1 DEF Draft
    <3>2. \A i \in DOMAIN d.refs : d.refs[i] \in Int /\ d.refs[i] <= Len(mail)
      BY <2>1, <3>1 DEF Refers
    <3> HIDE DEF d
    <3> QED BY <2>1, <2>2, <3>2 DEF Refers, Chained
  <2> HIDE DEF d, last
  <2> QED BY <2>2, <2>3 DEF MailChained
<1> QED BY <1>1, <1>2, Sends

(* The mailbox only grows.                                                 *)
LEMMA MailGrows ==
    ASSUME TypeOK, [Next]_vars, PreviewTrue
    PROVE  /\ Len(mail) \in Nat /\ Len(mail') \in Nat /\ Len(mail) <= Len(mail')
           /\ \A n \in DOMAIN mail : n \in DOMAIN mail' /\ mail'[n] = mail[n]
<1>1. CASE mail' = mail
  BY <1>1 DEF TypeOK, DraftTypeOK
<1>2. ASSUME NEW n \in DOMAIN drafts, NEW shown, Deliver(n, drafts[n], shown)
      PROVE  /\ Len(mail) \in Nat /\ Len(mail') = Len(mail) + 1
             /\ \A i \in DOMAIN mail : i \in DOMAIN mail' /\ mail'[i] = mail[i]
  <2> DEFINE d == drafts[n]
  <2>1. /\ Len(mail) \in Nat
        /\ DOMAIN mail' = DOMAIN mail \cup {Len(mail) + 1} /\ Len(mail') = Len(mail) + 1
        /\ \A i \in DOMAIN mail : mail'[i] = mail[i]
    BY <1>2, MailFacts
  <2> QED BY <2>1
<1> QED BY <1>1, <1>2, Sends

(* What a step composes.                                                   *)
LEMMA Composes ==
    ASSUME TypeOK, NEW p \in Proc, CreateDraft(p)
    PROVE  \E last :
              /\ last \notin DOMAIN drafts /\ DOMAIN drafts' = DOMAIN drafts \cup {last}
              /\ \A n \in DOMAIN drafts : drafts'[n] = drafts[n]
              /\ drafts'[last] = Composed(p)
<1>1. drafts \in Seq(Draft \cup {None})
  BY DEF TypeOK, DraftTypeOK
<1> DEFINE d == Composed(p)
<1>2. drafts' = Append(drafts, d)
  BY DEF CreateDraft
<1> HIDE DEF d, TypeOK
<1>3. /\ Len(drafts) + 1 \notin DOMAIN drafts
      /\ DOMAIN drafts' = DOMAIN drafts \cup {Len(drafts) + 1}
      /\ \A n \in DOMAIN drafts : drafts'[n] = drafts[n]
      /\ drafts'[Len(drafts) + 1] = d
  BY <1>1, <1>2
<1> QED BY <1>3 DEF d

(* A draft that a step leaves unedited was composed then or is as it was.  *)
LEMMA DraftOrigin ==
    ASSUME TypeOK, [Next]_vars, NEW n \in DOMAIN drafts', drafts'[n] # None
    PROVE  \/ n \in DOMAIN drafts /\ Present(n) /\ drafts'[n] = drafts[n]
           \/ /\ n \in DOMAIN drafts /\ Present(n) /\ drafts'[n].edited = drafts[n].edited + 1
              /\ drafts'[n].refs = drafts[n].refs /\ drafts'[n].parent = drafts[n].parent
           \/ \E p \in Proc : CreateDraft(p) /\ drafts'[n] = Composed(p)
<1>1. CASE n \in DOMAIN drafts
  <2>1. Moves(n)
    BY <1>1, DraftMoves
  <2> QED BY <1>1, <2>1 DEF Moves, Present
<1>2. CASE n \notin DOMAIN drafts
  <2>1. ASSUME UNCHANGED mailbox PROVE FALSE
    BY <1>2, <2>1 DEF mailbox
  <2>2. ASSUME NEW p \in Proc, SendDraft(p) PROVE FALSE
    BY <1>2, <2>2 DEF SendDraft
  <2>3. ASSUME NEW m \in DOMAIN drafts, WebEditDraft(m) \/ WebDeleteDraft(m) \/ WebSendDraft(m)
        PROVE  FALSE
    BY <1>2, <2>3 DEF WebEditDraft, WebDeleteDraft, WebSendDraft
  <2>4. ASSUME NEW p \in Proc, CreateDraft(p) PROVE drafts'[n] = Composed(p)
    BY <1>2, <2>4, Composes
  <2> QED BY <2>1, <2>2, <2>3, <2>4, MailboxSteps
<1> QED BY <1>1, <1>2

LEMMA DraftsReferKept ==
    ASSUME TypeOK, [Next]_vars, PreviewTrue, MailChained, CopyTrue, DraftsRefer
    PROVE  DraftsRefer'
<1> SUFFICES ASSUME NEW n \in DOMAIN drafts', drafts'[n] # None PROVE Refers(drafts[n])'
  BY DEF DraftsRefer, Present
<1>1. Len(mail) \in Nat /\ Len(mail') \in Nat /\ Len(mail) <= Len(mail')
  BY MailGrows
<1>2. ASSUME NEW d \in Draft, Refers(d), NEW e, e.refs = d.refs, e.parent = d.parent
      PROVE  /\ \A i, j \in DOMAIN e.refs : e.refs[i] = e.refs[j] => i = j
             /\ \A i \in DOMAIN e.refs : e.refs[i] <= Len(mail')
             /\ e.parent <= Len(mail')
  <2>1. d.refs \in Seq(Int) /\ d.parent \in Nat
    BY <1>2 DEF Draft
  <2>2. \A i \in DOMAIN d.refs : d.refs[i] \in Int
    BY <2>1
  <2> QED BY <1>1, <1>2, <2>1, <2>2 DEF Refers
<1>3. CASE n \in DOMAIN drafts /\ Present(n)
            /\ drafts'[n].refs = drafts[n].refs /\ drafts'[n].parent = drafts[n].parent
  <2>1. drafts[n] \in Draft /\ Refers(drafts[n])
    BY <1>3, DraftsAre DEF DraftsRefer
  <2> QED BY <1>2, <1>3, <2>1 DEF Refers
<1>4. ASSUME NEW p \in Proc, CreateDraft(p), drafts'[n] = Composed(p)
      PROVE  Refers(drafts[n])'
  <2>1. Refers(Composed(p))
    BY <1>4, ComposedRight DEF CreateDraft, At
  <2>2. mail' = mail
    BY <1>4 DEF CreateDraft
  <2> QED BY <1>4, <2>1, <2>2 DEF Refers
<1> QED BY <1>3, <1>4, DraftOrigin

LEMMA RepliesRightKept ==
    ASSUME TypeOK, [Next]_vars, PreviewTrue, MailChained, CopyTrue, DraftsRefer, RepliesRight
    PROVE  RepliesRight'
<1> SUFFICES ASSUME NEW n \in DOMAIN drafts', drafts'[n] # None,
                    drafts'[n].parent > 0, drafts'[n].edited = 0
             PROVE  Answers(drafts'[n], mail'[drafts'[n].parent])
  BY DEF RepliesRight, Present
<1>1. CASE n \in DOMAIN drafts /\ Present(n) /\ drafts'[n] = drafts[n]
  <2> DEFINE parent == drafts[n].parent
  <2>1. drafts[n] \in Draft /\ parent <= Len(mail)
    BY <1>1, DraftsAre DEF DraftsRefer, Refers
  <2>2. parent \in DOMAIN mail
    BY <1>1, <2>1 DEF Draft, TypeOK, DraftTypeOK
  <2>3. mail'[parent] = mail[parent]
    BY <2>2, MailGrows
  <2> QED BY <1>1, <2>3 DEF RepliesRight
<1>2. CASE n \in DOMAIN drafts /\ Present(n) /\ drafts'[n].edited = drafts[n].edited + 1
  <2>1. drafts[n].edited \in Nat
    BY <1>2, DraftsAre DEF Draft
  <2> QED BY <1>2, <2>1
<1>3. ASSUME NEW p \in Proc, CreateDraft(p), drafts'[n] = Composed(p)
      PROVE  Answers(drafts'[n], mail'[drafts'[n].parent])
  <2> DEFINE d == Composed(p)
  <2>1. d.parent > 0 => Answers(d, mail[d.parent])
    BY <1>3, ComposedRight DEF CreateDraft, At
  <2>2. mail' = mail
    BY <1>3 DEF CreateDraft
  <2> HIDE DEF d
  <2>3. drafts'[n] = d
    BY <1>3 DEF d
  <2> QED BY <2>1, <2>2, <2>3
<1> QED BY <1>1, <1>2, <1>3, DraftOrigin

(* What a step makes of the invocation that takes it.                      *)
Started(op, arg, first) ==
    IF first = "idle" THEN Idle ELSE [Idle EXCEPT !.pc = first, !.op = op, !.arg = arg]

LEMMA StartedFields ==
    ASSUME NEW op, NEW arg, NEW first
    PROVE  /\ Started(op, arg, first).pc = first
           /\ first # "idle" => Started(op, arg, first).op = op /\ Started(op, arg, first).arg = arg
BY DEF Started, Idle

LEMMA StartIs ==
    ASSUME TypeOK, NEW p \in Proc, NEW op, NEW arg, NEW first, Start(p, op, arg, first)
    PROVE  run'[p] = Started(op, arg, first)
BY DEF TypeOK, Start, Started

LEMMA StartPc ==
    ASSUME TypeOK, NEW p \in Proc, NEW op, NEW arg, NEW first, Start(p, op, arg, first)
    PROVE  run'[p].pc = first
BY StartIs, StartedFields

LEMMA EndIs ==
    ASSUME TypeOK, NEW p \in Proc, End(p)
    PROVE  run'[p].pc = "idle"
BY DEF TypeOK, End, Idle

LEMMA StartedPc ==
    ASSUME TypeOK, NEW p \in Proc
    PROVE  /\ StartDraft(p) => run'[p].pc \in {"idle", "source", "create"}
           /\ StartSend(p) => run'[p].pc = "preview"
           /\ StartEdit(p) => /\ run'[p].pc \in {"idle", "get", "put"}
                              /\ run'[p].pc = "put" => run'[p].op = "color"
<1>1. ASSUME StartDraft(p) PROVE run'[p].pc \in {"idle", "source", "create"}
  <2>1. PICK f \in Composition : Start(p, "draft", f, FirstRequest(f))
    BY <1>1 DEF StartDraft
  <2>2. FirstRequest(f) \in {"idle", "source", "create"}
    BY DEF FirstRequest
  <2> QED BY <2>1, <2>2, StartPc
<1>2. ASSUME StartSend(p) PROVE run'[p].pc = "preview"
  <2>1. PICK n, dry : Start(p, "send", [id |-> n, dry |-> dry], "preview")
    BY <1>2 DEF StartSend
  <2> QED BY <2>1, StartPc
<1>3. ASSUME StartEdit(p)
      PROVE  /\ run'[p].pc \in {"idle", "get", "put"}
             /\ run'[p].pc = "put" => run'[p].op = "color"
  <2>1. PICK op, a, first : /\ Start(p, op, a, first) /\ first \in {"idle", "get", "put"}
                            /\ first = "put" => op = "color"
    BY <1>3 DEF StartEdit, UpdateFirst, Go, ContactFirst
  <2>2. run'[p].pc = first
    BY <2>1, StartPc
  <2>3. run'[p] = Started(op, a, first)
    BY <2>1, StartIs
  <2> QED BY <2>1, <2>2, <2>3, StartedFields
<1> QED BY <1>1, <1>2, <1>3

LEMMA ReadPc ==
    ASSUME TypeOK, NEW p \in Proc, GetVacation(p) \/ GetEvent(p) \/ GetContact(p)
    PROVE  run'[p].pc \in {"idle", "put"}
<1>1. CASE Refuse(p)
  BY <1>1, EndIs DEF Refuse
<1>2. ASSUME NEW copy, Read(p, copy, "put") PROVE run'[p].pc = "put"
  <2>1. run' = [run EXCEPT ![p] = [run[p] EXCEPT !.got = copy, !.since = {}, !.pc = "put"]]
    BY <1>2 DEF Read
  <2>2. "pc" \in DOMAIN run[p]
    BY DEF TypeOK, Invocation, Idle, DraftRun, SendRun, UpdateRun, ToggleRun, RsvpRun, ColorRun,
       ContactRun, EditRun
  <2> QED BY <2>1, <2>2 DEF TypeOK
<1> QED BY <1>1, <1>2 DEF GetVacation, GetEvent, GetContact

LEMMA DraftPc ==
    ASSUME TypeOK, NEW p \in Proc
    PROVE  /\ GetSource(p) \/ GetProfile(p) => run'[p].pc \in {"profile", "create"}
           /\ GetDraft(p) => run'[p].pc \in {"idle", "send"}
<1>1. ASSUME GetSource(p) \/ GetProfile(p) PROVE run'[p].pc \in {"profile", "create"}
  <2>1. run[p] \in DraftRun
    BY <1>1, AtDraft DEF GetSource, GetProfile, At
  <2>2. "pc" \in DOMAIN run[p]
    BY <2>1 DEF DraftRun
  <2>3. ASSUME NEW n, run' = [run EXCEPT ![p].src = mail[n], ![p].parent = n,
                              ![p].pc = IF Needs(run[p].arg).cc THEN "profile" ELSE "create"]
        PROVE  run'[p].pc \in {"profile", "create"}
    BY <2>2, <2>3 DEF TypeOK
  <2>4. ASSUME NEW self, run' = [run EXCEPT ![p].self = self, ![p].pc = "create"]
        PROVE  run'[p].pc = "create"
    BY <2>2, <2>4 DEF TypeOK
  <2> QED BY <1>1, <2>3, <2>4 DEF GetSource, GetProfile
<1>2. ASSUME GetDraft(p) PROVE run'[p].pc \in {"idle", "send"}
  <2>1. run[p] \in SendRun
    BY <1>2, AtSend DEF GetDraft, At
  <2>2. ASSUME NEW shown, run' = [run EXCEPT ![p].shown = shown, ![p].pc = "send"]
        PROVE  run'[p].pc = "send"
    BY <2>1, <2>2 DEF SendRun, TypeOK
  <2> QED BY <1>2, <2>2, EndIs DEF GetDraft
<1> QED BY <1>1, <1>2

(* An invocation that works on drafts is not touched by the others.        *)
LEMMA NotedSame ==
    ASSUME TypeOK, NEW p \in Proc, Noted(p),
           run'[p].pc \in {"source", "profile", "create", "preview", "send"}
    PROVE  run'[p] = run[p]
<1>1. run[p].op \in OnVacation \cup OnEvent \cup OnContact => run[p].pc \in {"get", "put"}
  BY EditsAssumption DEF TypeOK, Invocation, Idle, DraftRun, SendRun, UpdateRun, ToggleRun, RsvpRun,
     ColorRun, ContactRun, EditRun, OnVacation, OnEvent, OnContact
<1>2. \A fields : [run[p] EXCEPT !.since = @ \cup fields].pc = run[p].pc
  BY DEF TypeOK, Invocation, Idle, DraftRun, SendRun, UpdateRun, ToggleRun, RsvpRun, ColorRun,
     ContactRun, EditRun
<1>3. CASE run'[p] = Idle
  BY <1>3 DEF Idle
<1>4. ASSUME NEW fields, run[p].op \in OnVacation \cup OnEvent \cup OnContact,
             run'[p] = [run[p] EXCEPT !.since = @ \cup fields]
      PROVE  FALSE
  BY <1>1, <1>2, <1>4
<1> QED BY <1>3, <1>4 DEF Noted

LEMMA PreviewTrueKept ==
    ASSUME TypeOK, [Next]_vars, PreviewTrue
    PROVE  PreviewTrue'
<1> SUFFICES ASSUME NEW p \in Proc, run'[p].pc \in {"preview", "send"} PROVE Previewed(p)'
  BY DEF PreviewTrue
<1>1. CASE Noted(p)
  <2>3. run'[p] = run[p]
    BY <1>1, NotedSame
  <2>4. Previewed(p) /\ run[p] \in SendRun
    BY <2>3, AtSend DEF PreviewTrue
  <2> DEFINE n == run[p].arg.id
             shown == run[p].shown
  <2>5. n \in DOMAIN drafts
    BY <2>4 DEF Previewed
  <2>6. Moves(n)
    BY <2>5, DraftMoves
  <2>7. n \in DOMAIN drafts'
    BY <2>6 DEF Moves
  <2>8. ASSUME run[p].pc = "send", drafts'[n] # None
        PROVE  /\ shown.edited <= drafts'[n].edited
               /\ shown.edited = drafts'[n].edited => shown = Summary(drafts'[n])
    <3>1. Present(n) /\ shown.edited \in Nat
      BY <2>4, <2>5, <2>6, <2>8 DEF Moves, Present, SendRun, Preview
    <3>2. drafts[n].edited \in Nat
      BY <3>1, <2>5, DraftsAre DEF Draft
    <3>3. /\ shown.edited <= drafts[n].edited
          /\ shown.edited = drafts[n].edited => shown = Summary(drafts[n])
      BY <2>4, <2>8, <3>1 DEF Previewed
    <3> HIDE DEF n, shown
    <3> QED BY <2>6, <2>8, <3>1, <3>2, <3>3 DEF Moves
  <2> QED BY <2>3, <2>7, <2>8 DEF Previewed, Present
<1>2. CASE StartSend(p)
  <2>1. PICK n \in DOMAIN drafts, dry \in BOOLEAN :
          Start(p, "send", [id |-> n, dry |-> dry], "preview")
    BY <1>2 DEF StartSend
  <2>2. run'[p].arg = [id |-> n, dry |-> dry] /\ run'[p].pc = "preview"
    BY <2>1 DEF Start, TypeOK, Idle
  <2>3. drafts' = drafts
    BY <1>2 DEF StartSend, mailbox
  <2> QED BY <2>2, <2>3 DEF Previewed
<1>3. CASE GetDraft(p)
  <2> DEFINE n == run[p].arg.id
             r == [run[p] EXCEPT !.shown = Summary(drafts[n]), !.pc = "send"]
  <2>1. run' = [run EXCEPT ![p] = r] /\ Present(n)
    BY <1>3, EndIs DEF GetDraft
  <2>2. run[p] \in SendRun
    BY <1>3, AtSend DEF GetDraft, At
  <2>3. r.arg.id = n /\ r.shown = Summary(drafts[n])
    BY <2>2 DEF SendRun
  <2>4. run'[p] = r
    BY <2>1 DEF TypeOK
  <2>5. n \in DOMAIN drafts /\ drafts[n] \in Draft
    BY <2>1, DraftsAre DEF Present
  <2>6. drafts' = drafts
    BY <1>3 DEF GetDraft, mailbox
  <2>7. Summary(drafts[n]).edited = drafts[n].edited /\ drafts[n].edited \in Nat
    BY <2>5 DEF Summary, Draft
  <2> HIDE DEF n, r
  <2> QED BY <2>3, <2>4, <2>5, <2>6, <2>7 DEF Previewed
<1>4. CASE StartDraft(p) \/ StartEdit(p)
  BY <1>4, StartedPc
<1>5. CASE GetSource(p) \/ GetProfile(p)
  BY <1>5, DraftPc
<1>6. CASE GetVacation(p) \/ GetEvent(p) \/ GetContact(p)
  BY <1>6, ReadPc
<1> QED BY <1>1, <1>2, <1>3, <1>4, <1>5, <1>6, RunSteps

LEMMA CopyTrueKept ==
    ASSUME TypeOK, [Next]_vars, PreviewTrue, CopyTrue
    PROVE  CopyTrue'
<1> DEFINE Right(r) ==
        r.arg.reply =>
            /\ r.parent \in DOMAIN mail /\ r.src = mail[r.parent]
            /\ r.pc = "create" /\ Needs(r.arg).cc => r.self = {Lower(Me)} \cup Own(r.arg)
<1> SUFFICES ASSUME NEW p \in Proc, run'[p].pc \in {"profile", "create"}, run'[p].arg.reply
             PROVE  Right(run[p])'
  BY DEF CopyTrue
<1>1. CASE Noted(p)
  <2>1. run'[p] = run[p]
    BY <1>1, NotedSame
  <2>2. /\ run[p].parent \in DOMAIN mail /\ run[p].src = mail[run[p].parent]
        /\ run[p].pc = "create" /\ Needs(run[p].arg).cc =>
              run[p].self = {Lower(Me)} \cup Own(run[p].arg)
    BY <2>1 DEF CopyTrue
  <2> DEFINE n == run[p].parent
  <2>3. n \in DOMAIN mail' /\ mail'[n] = mail[n]
    BY <2>2, MailGrows
  <2> QED BY <2>1, <2>2, <2>3
<1>2. CASE StartDraft(p)
  <2>1. PICK f \in Composition : Start(p, "draft", f, FirstRequest(f))
    BY <1>2 DEF StartDraft
  <2>2. run'[p].pc = FirstRequest(f)
    BY <2>1, StartPc
  <2>3. run'[p] = Started("draft", f, FirstRequest(f))
    BY <2>1, StartIs
  <2>4. FirstRequest(f) = "create" /\ f.reply => FALSE
    BY DEF FirstRequest
  <2>5. FirstRequest(f) \in {"idle", "source", "create"}
    BY DEF FirstRequest
  <2> QED BY <2>2, <2>3, <2>4, <2>5, StartedFields
<1>3. CASE StartEdit(p)
  BY <1>3, StartedPc
<1>4. CASE StartSend(p)
  BY <1>4, StartedPc
<1>5. CASE GetVacation(p) \/ GetEvent(p) \/ GetContact(p)
  BY <1>5, ReadPc
<1>6. CASE GetDraft(p)
  BY <1>6, DraftPc
<1>7. CASE GetSource(p)
  <2>1. run[p] \in DraftRun
    BY <1>7, AtDraft DEF GetSource, At
  <2>2. PICK n \in DOMAIN mail :
          run' = [run EXCEPT ![p].src = mail[n], ![p].parent = n,
                             ![p].pc = IF Needs(run[p].arg).cc THEN "profile" ELSE "create"]
    BY <1>7 DEF GetSource
  <2> DEFINE r == [run[p] EXCEPT !.src = mail[n], !.parent = n,
                                 !.pc = IF Needs(run[p].arg).cc THEN "profile" ELSE "create"]
  <2>3. /\ r.src = mail[n] /\ r.parent = n /\ r.arg = run[p].arg
        /\ r.pc = IF Needs(run[p].arg).cc THEN "profile" ELSE "create"
    BY <2>1 DEF DraftRun
  <2>4. run'[p] = r
    BY <2>2 DEF TypeOK
  <2>5. mail' = mail
    BY <1>7 DEF GetSource, mailbox
  <2> HIDE DEF r
  <2> QED BY <2>3, <2>4, <2>5
<1>8. CASE GetProfile(p)
  <2>1. run[p] \in DraftRun /\ run[p].pc = "profile"
    BY <1>8, AtDraft DEF GetProfile, At
  <2> DEFINE self == {Lower(Me)} \cup Own(run[p].arg)
             r == [run[p] EXCEPT !.self = self, !.pc = "create"]
  <2>2. /\ r.src = run[p].src /\ r.parent = run[p].parent /\ r.arg = run[p].arg
        /\ r.self = self
    BY <2>1 DEF DraftRun
  <2>3. run'[p] = r
    BY <1>8 DEF GetProfile, TypeOK
  <2>4. mail' = mail
    BY <1>8 DEF GetProfile, mailbox
  <2> HIDE DEF r
  <2> QED BY <2>1, <2>2, <2>3, <2>4 DEF CopyTrue
<1> QED BY <1>1, <1>2, <1>3, <1>4, <1>5, <1>6, <1>7, <1>8, RunSteps

LEMMA InitDrafts == Init => DraftInv
<1> SUFFICES ASSUME Init PROVE DraftInv
  OBVIOUS
<1>1. drafts = <<>> /\ sent = <<>> /\ run = [p \in Proc |-> Idle]
  BY DEF Init, DraftInit
<1>2. MailChained
  <2>1. PICK m \in Received : mail = <<m>>
    BY DEF Init, DraftInit
  <2>2. m.id \in {None, 1} /\ Chained(m.refs, 1)
    BY DraftsAssumption
  <2> QED BY <2>1, <2>2 DEF MailChained
<1>3. PreviewTrue /\ CopyTrue
  BY <1>1 DEF PreviewTrue, CopyTrue, Idle
<1>4. SentGone /\ SentOnce /\ SentAsShown
  BY <1>1 DEF SentGone, SentOnce, SentAsShown
<1>5. DraftsRefer /\ RepliesRight
  BY <1>1 DEF DraftsRefer, RepliesRight
<1> QED BY <1>2, <1>3, <1>4, <1>5 DEF DraftInv

LEMMA NextDrafts == TypeOK /\ DraftInv /\ [Next]_vars => DraftInv'
<1> SUFFICES ASSUME TypeOK, DraftInv, [Next]_vars PROVE DraftInv'
  OBVIOUS
<1> USE DEF DraftInv
<1>1. SentGone' /\ SentOnce'
  BY SentOnceKept
<1>2. PreviewTrue' /\ CopyTrue'
  BY PreviewTrueKept, CopyTrueKept
<1>3. SentAsShown'
  BY SentAsShownKept
<1>4. MailChained' /\ DraftsRefer'
  BY MailChainedKept, DraftsReferKept
<1>5. RepliesRight'
  BY RepliesRightKept
<1> QED BY <1>1, <1>2, <1>3, <1>4, <1>5

LEMMA DraftInvHolds == Spec => []DraftInv
BY TypeCorrect, InitDrafts, NextDrafts, PTL DEF Spec

(* A draft is sent at most once: a send takes it out of the drafts, in     *)
(* whatever order other invocations and the web client send, edit and      *)
(* delete.                                                                 *)
THEOREM SentOnceHolds == Spec => []SentOnce
BY DraftInvHolds, PTL DEF DraftInv

(* What is sent is what the preview showed, or the draft was edited after  *)
(* it: the count of edits of a draft never goes back.                      *)
THEOREM SentAsShownHolds == Spec => []SentAsShown
BY DraftInvHolds, PTL DEF DraftInv

(* A reply is in the thread of its source, after the source in References, *)
(* and names no message twice, through any number of replies to replies.   *)
THEOREM ThreadChainHolds == Spec => []ThreadChain
BY DraftInvHolds, RepliesReach, PTL DEF DraftInv

(* A reply to all that nobody edited names everybody its source names, but *)
(* the user in any spelling, and nobody twice in Cc.                       *)
THEOREM ReplyReachesAllHolds == Spec => []ReplyReachesAll
BY DraftInvHolds, RepliesReach, PTL DEF DraftInv

LEMMA RepliesReadBack == TypeOK /\ DraftInv => ReadBack
<1> SUFFICES ASSUME TypeOK, DraftInv, NEW d \in Replied,
                    d.flags.quote, SourceShows(mail[d.parent].body), ~LooksQuoted(d.flags.text)
             PROVE  ElideQuotedReplyBody(d.body).parts = Elided(d.flags.text)
  BY DEF ReadBack
<1> DEFINE text == d.flags.text
           source == mail[d.parent].body
<1>1. PICK n \in DOMAIN drafts : Present(n) /\ d = drafts[n]
  BY DEF Replied, Present
<1>2. d \in Draft /\ d.parent \in Nat /\ d.parent > 0 /\ d.parent <= Len(mail)
  BY <1>1, DraftsAre DEF DraftInv, DraftsRefer, Refers, Draft, Replied
<1>3. text \in Body /\ source \in Body
  <2>1. mail \in Seq(Message) /\ d.parent \in DOMAIN mail
    BY <1>2 DEF TypeOK, DraftTypeOK
  <2>2. mail[d.parent] \in Message
    BY <2>1
  <2> QED BY <1>2, <2>2 DEF Draft, Flags, Message
<1>4. d.body = WithQuote(text, source)
  <2>1. Quotes(d, mail[d.parent])
    BY RepliesRightIs DEF DraftInv, Answers
  <2> QED BY <2>1 DEF Quotes, SourceShows
<1> HIDE DEF text, source
<1>5. SourceShows(source) /\ ~LooksQuoted(text)
  BY DEF text, source
<1>6. ElideQuotedReplyBody(WithQuote(text, source)).parts = Elided(text)
  BY <1>3, <1>5, ReadsBackPlain, ReadsBackHTML
<1> QED BY <1>4, <1>6 DEF text

LEMMA NothingHidden == TypeOK => NothingWrittenIsHidden
<1> SUFFICES ASSUME TypeOK, NEW n \in DOMAIN mail PROVE HidesHistory(mail[n].body)
  BY DEF NothingWrittenIsHidden
<1>1. mail \in Seq(Message)
  BY DEF TypeOK, DraftTypeOK
<1>2. mail[n] \in Message
  BY <1>1
<1>3. mail[n].body \in Body
  BY <1>2 DEF Message
<1> QED BY <1>3, HidesHistoryOnly

(* Reading a reply hides its quote and leaves the authored text as it was  *)
(* written; and whatever message is read, no line that somebody wrote is   *)
(* hidden with what is quoted.                                             *)
THEOREM HidesQuotesOnlyHolds == Spec => []HidesQuotesOnly
BY TypeCorrect, DraftInvHolds, RepliesReadBack, NothingHidden, PTL DEF HidesQuotesOnly

-----------------------------------------------------------------------------
(* The copies that are held until they are written back.                   *)

(* A field that was not changed since is as it was read.                   *)
VacationCopied(r) == \A f \in VacationField \ r.since : r.got[f] = vacation[f]

EventCopied(r) ==
    \A f \in Who \ r.since :
        /\ f \in DOMAIN r.got <=> f \in DOMAIN event.attendees
        /\ f \in DOMAIN r.got => r.got[f] = event.attendees[f]

(* The contact is as it was read as long as its etag is.                   *)
ContactCopied(r) ==
    /\ r.got.etag <= contact.etag
    /\ r.got.etag = contact.etag => r.got = contact

Copied(r) ==
    /\ r.op \in OnVacation => VacationCopied(r)
    /\ r.op = "rsvp" => EventCopied(r)
    /\ r.op = "contact" => ContactCopied(r)

CopiesTrue == \A p \in Proc : run[p].pc = "put" => Copied(run[p])

(* Whoever changes an object, those that hold a copy of it note it.        *)
LEMMA ObjectSteps ==
    ASSUME TypeOK, [Next]_vars
    PROVE  /\ vacation' = vacation \/ \E p : Write(OnVacation, p, Changed(vacation, vacation'))
           /\ event'.attendees = event.attendees
                \/ \E p : Write(OnEvent, p, Changed(event.attendees, event'.attendees))
           /\ contact' = contact \/ contact'.etag = contact.etag + 1
<1>1. CASE UNCHANGED objects
  BY <1>1 DEF objects
<1>2. CASE \E p \in Proc : PutVacation(p)
  BY <1>2 DEF PutVacation
<1>3. CASE \E p \in Proc : PatchAttendees(p)
  BY <1>3 DEF PatchAttendees
<1>4. CASE \E p \in Proc : PatchColor(p)
  <2>1. event'.attendees = event.attendees
    BY <1>4 DEF PatchColor, TypeOK
  <2> QED BY <1>4, <2>1 DEF PatchColor
<1>5. CASE \E p \in Proc : PutContact(p)
  <2>1. contact'.etag = contact.etag + 1
    BY <1>5, PutContactIs
  <2> QED BY <1>5, <2>1 DEF PutContact
<1>6. CASE WebVacation \/ WebEvent
  BY <1>6 DEF WebVacation, WebEvent
<1>7. CASE WebContact
  <2>1. PICK c \in WebContacts : contact' = Over([etag |-> contact.etag + 1], c)
    BY <1>7 DEF WebContact
  <2>2. contact'.etag = contact.etag + 1
    BY <2>1 DEF Over
  <2> QED BY <1>7, <2>2 DEF WebContact
<1>8. CASE UNCHANGED vars
  BY <1>1, <1>8 DEF vars
<1>9. ASSUME NEW p \in Proc, EditStep(p)
      PROVE  \/ UNCHANGED objects
             \/ PutVacation(p) \/ PatchAttendees(p) \/ PatchColor(p) \/ PutContact(p)
  BY <1>9 DEF EditStep, GetVacation, VacationRefused, GetEvent, GetContact, ContactRefused,
     Read, Refuse
<1>10. CASE Next
  BY <1>1, <1>2, <1>3, <1>4, <1>5, <1>6, <1>7, <1>9, <1>10 DEF Next, StartEdit
<1> QED BY <1>8, <1>10

(* Where a copy that is held after a step comes from.                      *)
Holds(q) ==
    /\ run[q].pc = "put" /\ run'[q].op = run[q].op /\ run'[q].got = run[q].got
    /\ run[q].since \subseteq run'[q].since

Notices(q) ==
    /\ run'[q].op \in OnVacation => Changed(vacation, vacation') \subseteq run'[q].since
    /\ run'[q].op = "rsvp" => Changed(event.attendees, event'.attendees) \subseteq run'[q].since

Reads(q) ==
    /\ UNCHANGED objects
    /\ run'[q].op \in OnVacation => run'[q].got = vacation
    /\ run'[q].op = "rsvp" => run'[q].got = event.attendees
    /\ run'[q].op = "contact" => run'[q].got = contact

LEMMA WriteNotices ==
    ASSUME TypeOK, [Next]_vars, NEW q \in Proc, run'[q].pc = "put"
    PROVE  Notices(q)
<1>1. \A x : Changed(x, x) = {}
  BY DEF Changed
<1>2. ASSUME NEW ops, NEW p, NEW fields, Write(ops, p, fields), run'[q].op \in ops
      PROVE  fields \subseteq run'[q].since
  <2>1. q # p /\ run[q].op \in ops /\ run'[q] = [run[q] EXCEPT !.since = @ \cup fields]
    <3>1. \/ run'[q] = Idle
          \/ q # p /\ run[q].op \in ops /\ run'[q] = [run[q] EXCEPT !.since = @ \cup fields]
          \/ run[q].op \notin ops /\ run'[q] = run[q]
      BY <1>2 DEF Write
    <3> QED BY <1>2, <3>1 DEF Idle
  <2>2. "since" \in DOMAIN run[q]
    BY DEF TypeOK, Invocation, Idle, DraftRun, SendRun, UpdateRun, ToggleRun, RsvpRun, ColorRun,
       ContactRun, EditRun
  <2> QED BY <2>1, <2>2
<1>3. ASSUME run'[q].op \in OnVacation PROVE Changed(vacation, vacation') \subseteq run'[q].since
  BY <1>1, <1>2, <1>3, ObjectSteps
<1>4. ASSUME run'[q].op = "rsvp"
      PROVE  Changed(event.attendees, event'.attendees) \subseteq run'[q].since
  BY <1>1, <1>2, <1>4, ObjectSteps DEF OnEvent
<1> QED BY <1>3, <1>4 DEF Notices

LEMMA CopyOrigin ==
    ASSUME TypeOK, [Next]_vars, NEW q \in Proc, run'[q].pc = "put", run'[q].op # "color"
    PROVE  Holds(q) \/ Reads(q)
<1>1. DOMAIN run[q] = DOMAIN Idle
  BY DEF TypeOK, Invocation, Idle, DraftRun, SendRun, UpdateRun, ToggleRun, RsvpRun, ColorRun,
     ContactRun, EditRun
<1>2. CASE Noted(q)
  <2>1. run'[q] # Idle
    BY DEF Idle
  <2>2. ASSUME NEW F, run'[q] = [run[q] EXCEPT !.since = @ \cup F]
        PROVE  Holds(q)
    BY <1>1, <2>2 DEF Holds, Idle
  <2> QED BY <1>2, <2>1, <2>2 DEF Noted, Holds
<1>3. ASSUME NEW copy, NEW label, Read(q, copy, label)
      PROVE  run'[q].op = run[q].op /\ run'[q].got = copy /\ UNCHANGED objects
  <2>1. run'[q] = [run[q] EXCEPT !.got = copy, !.since = {}, !.pc = label]
    BY <1>3 DEF Read, TypeOK
  <2>2. {"op", "got", "since", "pc"} \subseteq DOMAIN run[q]
    BY <1>1 DEF Idle
  <2> QED BY <1>3, <2>1, <2>2 DEF Read
<1>4. ASSUME Refuse(q) PROVE FALSE
  BY <1>4, EndIs DEF Refuse
<1>5. CASE GetVacation(q)
  <2>1. run[q].op \in OnVacation /\ Read(q, vacation, "put")
    BY <1>5 DEF GetVacation
  <2> QED BY <1>3, <2>1 DEF Reads, OnVacation
<1>6. CASE GetEvent(q)
  <2>1. run[q].op = "rsvp" /\ Read(q, event.attendees, "put")
    BY <1>4, <1>6 DEF GetEvent, At
  <2> QED BY <1>3, <2>1 DEF Reads, OnVacation
<1>7. CASE GetContact(q)
  <2>1. run[q].op = "contact" /\ Read(q, contact, "put")
    BY <1>7 DEF GetContact, At
  <2> QED BY <1>3, <2>1 DEF Reads, OnVacation
<1>8. CASE StartDraft(q)
  BY <1>8, StartedPc
<1>9. CASE StartSend(q) \/ StartEdit(q)
  BY <1>9, StartedPc
<1>10. CASE GetSource(q) \/ GetProfile(q) \/ GetDraft(q)
  BY <1>10, DraftPc
<1> QED BY <1>2, <1>5, <1>6, <1>7, <1>8, <1>9, <1>10, RunSteps

LEMMA CopiesTrueKept ==
    ASSUME TypeOK, [Next]_vars, CopiesTrue
    PROVE  CopiesTrue'
<1> SUFFICES ASSUME NEW q \in Proc, run'[q].pc = "put" PROVE Copied(run[q])'
  BY DEF CopiesTrue
<1>1. \A old, new : \A f : f \notin Changed(old, new) =>
         (f \in DOMAIN old <=> f \in DOMAIN new) /\ (f \in DOMAIN old => old[f] = new[f])
  BY DEF Changed
<1>2. /\ DOMAIN vacation = VacationField
      /\ contact.etag \in Nat
  BY ResponderFields DEF TypeOK, Contact
<1>3. CASE Holds(q)
  <2>1. Copied(run[q]) /\ Notices(q)
    BY <1>3, WriteNotices DEF CopiesTrue, Holds
  <2>2. run'[q].op \in OnVacation => VacationCopied(run[q])'
    <3> SUFFICES ASSUME run'[q].op \in OnVacation, NEW f \in VacationField \ run'[q].since
                 PROVE  run'[q].got[f] = vacation'[f]
      BY DEF VacationCopied
    <3>1. run[q].got[f] = vacation[f]
      BY <1>3, <2>1 DEF Copied, VacationCopied, Holds
    <3>2. vacation[f] = vacation'[f]
      BY <1>1, <1>2, <2>1 DEF Notices
    <3> QED BY <1>3, <3>1, <3>2 DEF Holds
  <2>3. run'[q].op = "rsvp" => EventCopied(run[q])'
    <3> SUFFICES ASSUME run'[q].op = "rsvp", NEW f \in Who \ run'[q].since
                 PROVE  /\ f \in DOMAIN run'[q].got <=> f \in DOMAIN event'.attendees
                        /\ f \in DOMAIN run'[q].got => run'[q].got[f] = event'.attendees[f]
      BY DEF EventCopied
    <3>1. /\ f \in DOMAIN run[q].got <=> f \in DOMAIN event.attendees
          /\ f \in DOMAIN run[q].got => run[q].got[f] = event.attendees[f]
      BY <1>3, <2>1 DEF Copied, EventCopied, Holds
    <3>2. f \notin Changed(event.attendees, event'.attendees)
      BY <2>1 DEF Notices
    <3> QED BY <1>1, <1>3, <3>1, <3>2 DEF Holds
  <2>4. run'[q].op = "contact" => ContactCopied(run[q])'
    <3> SUFFICES ASSUME run'[q].op = "contact" PROVE ContactCopied(run[q])'
      OBVIOUS
    <3>1. ContactCopied(run[q]) /\ run'[q].got = run[q].got
      BY <1>3, <2>1 DEF Copied, Holds
    <3>2. run[q].got.etag \in Nat
      <4>1. run[q] \in ContactRun
        BY <1>3, AtEdit DEF Holds
      <4> QED BY <1>3, <4>1 DEF ContactRun, EditRun, Contact, Holds
    <3> QED BY <1>2, <3>1, <3>2, ObjectSteps DEF ContactCopied
  <2> QED BY <2>2, <2>3, <2>4 DEF Copied
<1>4. CASE Reads(q)
  <2>1. vacation' = vacation /\ event' = event /\ contact' = contact
    BY <1>4 DEF Reads, objects
  <2> QED BY <1>2, <1>4, <2>1 DEF Reads, Copied, VacationCopied, EventCopied, ContactCopied
<1>5. CASE run'[q].op = "color"
  BY <1>5 DEF Copied, OnVacation
<1> QED BY <1>3, <1>4, <1>5, CopyOrigin

LEMMA InitCopies == Init => CopiesTrue
BY DEF Init, DraftInit, Idle, CopiesTrue

LEMMA CopiesTrueHolds == Spec => []CopiesTrue
<1>1. TypeOK /\ CopiesTrue /\ [Next]_vars => CopiesTrue'
  BY CopiesTrueKept
<1> QED BY <1>1, TypeCorrect, InitCopies, PTL DEF Spec

LEMMA VacationAsAsked ==
    ASSUME TypeOK, CopiesTrue, NEW p \in Proc, PutVacation(p)
    PROVE  LET set == run[p].arg.set
           IN  AsAsked(p, IF "plain" \in DOMAIN set THEN Over(set, [html |-> 0]) ELSE set,
                       vacation, vacation')
<1> DEFINE set == run[p].arg.set
           whole == IF "plain" \in DOMAIN set THEN Over(set, [html |-> 0]) ELSE set
<1>1. run[p].op \in OnVacation /\ run[p].pc = "put" /\ vacation' = Vacation(p)
  BY DEF PutVacation
<1>2. /\ DOMAIN set \subseteq VacationField \ {"html"}
      /\ DOMAIN vacation = VacationField /\ DOMAIN vacation' = VacationField
      /\ \A f \in DOMAIN set : vacation'[f] = set[f]
      /\ \A f \in VacationField \ DOMAIN set :
            vacation'[f] = IF f = "html" /\ "plain" \in DOMAIN set THEN 0 ELSE run[p].got[f]
  BY <1>1, VacationIs, ResponderFields DEF TypeOK
<1>3. \A f \in VacationField \ run[p].since : run[p].got[f] = vacation[f]
  BY <1>1 DEF CopiesTrue, Copied, VacationCopied
<1>4. /\ DOMAIN whole = IF "plain" \in DOMAIN set THEN DOMAIN set \cup {"html"} ELSE DOMAIN set
      /\ \A f \in DOMAIN set : whole[f] = set[f]
      /\ "plain" \in DOMAIN set => whole["html"] = 0
  <2> HIDE DEF set
  <2> QED BY <1>2 DEF Over
<1> HIDE DEF whole, set
<1>5. ASSUME NEW f \in VacationField
      PROVE  IF f \in DOMAIN whole THEN vacation'[f] = whole[f]
             ELSE f \in run[p].since \/ vacation'[f] = vacation[f]
  BY <1>2, <1>3, <1>4
<1>6. AsAsked(p, whole, vacation, vacation')
  <2>1. DOMAIN whole \subseteq DOMAIN vacation'
    BY <1>2, <1>4 DEF VacationField
  <2> QED BY <1>2, <1>5, <2>1 DEF AsAsked, Changed
<1> QED BY <1>6 DEF whole, set

LEMMA AnswerAsAsked ==
    ASSUME TypeOK, CopiesTrue, NEW p \in Proc, PatchAttendees(p)
    PROVE  AsAsked(p, [self \in {Self} |-> run[p].arg.set], event.attendees, event'.attendees)
<1>1. run[p] \in RsvpRun /\ run[p].pc = "put" /\ run[p].op = "rsvp"
  BY AtEdit DEF PatchAttendees, At
<1>2. /\ Self \in DOMAIN run[p].got /\ DOMAIN run[p].got \subseteq Who
  BY <1>1, GuestlistIs DEF RsvpRun, EditRun
<1>3. EventCopied(run[p])
  BY <1>1 DEF CopiesTrue, Copied
<1>4. event'.attendees = Answer(p)
  BY DEF PatchAttendees, TypeOK
<1>5. /\ DOMAIN Answer(p) = DOMAIN run[p].got
      /\ Answer(p)[Self] = run[p].arg.set
      /\ \A f \in DOMAIN run[p].got \ {Self} : Answer(p)[f] = run[p].got[f]
  BY <1>2 DEF Answer
<1>6. DOMAIN event.attendees \subseteq Who
  BY GuestlistIs DEF TypeOK
<1> QED BY <1>2, <1>3, <1>4, <1>5, <1>6 DEF AsAsked, Changed, EventCopied

(* What is written back is what was asked for and, in every other field,   *)
(* what was read - which is what was there, or another client changed that *)
(* field in between.                                                       *)
THEOREM EditsAsAskedHolds == Spec => EditsAsAsked
<1>1. TypeOK /\ CopiesTrue /\ [Next]_vars =>
        [\A p \in Proc :
            /\ PutVacation(p) =>
                  LET set == run[p].arg.set
                  IN  AsAsked(p, IF "plain" \in DOMAIN set THEN Over(set, [html |-> 0]) ELSE set,
                              vacation, vacation')
            /\ PatchAttendees(p) =>
                  AsAsked(p, [self \in {Self} |-> run[p].arg.set], event.attendees, event'.attendees)]_vars
  BY VacationAsAsked, AnswerAsAsked
<1> QED BY <1>1, TypeCorrect, CopiesTrueHolds, PTL DEF Spec, EditsAsAsked

LEMMA PutContactReverts ==
    ASSUME TypeOK, CopiesTrue, NEW p \in Proc, PutContact(p)
    PROVE  LET set == run[p].arg.set
               Says(f) == f \in DOMAIN set /\ set[f] # 0
           IN  /\ \A f \in {"given", "family", "org", "title", "email"} :
                     contact'[f] = IF Says(f) THEN set[f] ELSE contact[f]
               /\ contact'.phonetic =
                     IF Says("given") \/ Says("family") THEN 0 ELSE contact.phonetic
               /\ contact'.more = IF Says("org") \/ Says("title") THEN 0 ELSE contact.more
<1> DEFINE set == run[p].arg.set
           Says(f) == f \in DOMAIN set /\ set[f] # 0
<1>1. At(p, "contact", "put") /\ EtagFits(p)
  BY DEF PutContact
<1>2. run[p].got = contact
  BY <1>1 DEF At, EtagFits, CopiesTrue, Copied, ContactCopied
<1>3. \A f : f \in Named(p) <=> Says(f)
  BY DEF Named
<1>4. \A f \in ContactField :
         contact'[f] = IF f \in Mask(p)
                       THEN IF f \in Named(p) THEN set[f] ELSE IF f \in Derived THEN 0 ELSE contact[f]
                       ELSE contact[f]
  BY <1>2, PutContactIs DEF Merged
<1>5. Named(p) \subseteq ContactField \ Derived /\ Named(p) \subseteq Mask(p)
  BY <1>1, MergedIs
<1>6. /\ "phonetic" \in Mask(p) <=> "given" \in Named(p) \/ "family" \in Named(p)
      /\ "more" \in Mask(p) <=> "org" \in Named(p) \/ "title" \in Named(p)
  BY <1>5 DEF Mask, NameField, OrgField, Derived
<1> HIDE DEF set, Says
<1>7. \A f \in {"given", "family", "org", "title", "email"} :
         contact'[f] = IF Says(f) THEN set[f] ELSE contact[f]
  BY <1>3, <1>4, <1>5 DEF ContactField, NameField, OrgField, Derived
<1>8. /\ contact'["phonetic"] =
            IF Says("given") \/ Says("family") THEN 0 ELSE contact["phonetic"]
      /\ contact'["more"] = IF Says("org") \/ Says("title") THEN 0 ELSE contact["more"]
  BY <1>3, <1>4, <1>5, <1>6 DEF ContactField, NameField, OrgField, Derived
<1> QED BY <1>7, <1>8 DEF set, Says

(* An accepted update of a contact is of the contact as it is: the etag    *)
(* tells every change since it was read.  So whatever is not named in a    *)
(* group that is written is written as it is, and only how a replaced name *)
(* sounds and organizations after the first are lost.                      *)
THEOREM ContactNeverRevertsHolds == Spec => ContactNeverReverts
<1>1. TypeOK /\ CopiesTrue /\ [Next]_vars =>
        [\A p \in Proc :
            PutContact(p) =>
                LET set == run[p].arg.set
                    Says(f) == f \in DOMAIN set /\ set[f] # 0
                IN  /\ \A f \in {"given", "family", "org", "title", "email"} :
                          contact'[f] = IF Says(f) THEN set[f] ELSE contact[f]
                    /\ contact'.phonetic =
                          IF Says("given") \/ Says("family") THEN 0 ELSE contact.phonetic
                    /\ contact'.more =
                          IF Says("org") \/ Says("title") THEN 0 ELSE contact.more]_vars
  BY PutContactReverts
<1> QED BY <1>1, TypeCorrect, CopiesTrueHolds, PTL DEF Spec, ContactNeverReverts
=============================================================================
