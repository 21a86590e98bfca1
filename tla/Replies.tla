------------------------------ MODULE Replies ------------------------------
(***************************************************************************)
(* The rules of a reply (internal/cmd/mail/draft.go): who receives it, how *)
(* it is threaded and how it quotes its source; and the rule that hides    *)
(* quoted history when a message is read (quoted_reply.go).  No state.     *)
(*                                                                         *)
(* An address is [who, caps]: what is left when its case is folded, and    *)
(* how it is spelled.  A header that cannot be parsed is Malformed.        *)
(***************************************************************************)
EXTENDS Integers, Sequences, FiniteSets, SequencesExt

CONSTANTS
    None, Malformed,
    Who   \* addresses without their spelling

Address == [who : Who, caps : BOOLEAN]

Lower(a) == a.who
Folded(addrs) == {Lower(addrs[i]) : i \in DOMAIN addrs}

(* Mutant: every address is kept that is not the user's own.               *)
FilterSelfKeepsDoubles(addrs, selfSet) ==
    SelectSeq(addrs, LAMBDA a : Lower(a) \notin selfSet)

(* Not the user's own addresses, and each address once, in the order of    *)
(* the headers: out[n] is what the first n addresses leave.                *)
FilterSelf(addrs, selfSet) ==
    LET out[n \in 0..Len(addrs)] ==
            IF n = 0 THEN <<>>
            ELSE IF Lower(addrs[n]) \in selfSet \cup Folded(out[n - 1]) THEN out[n - 1]
            ELSE Append(out[n - 1], addrs[n])
    IN  out[Len(addrs)]

(* Mutant: a chain that ends with the source names it again.               *)
BuildReferencesAppends(refs, msgId) == Append(refs, msgId)

BuildReferences(refs, msgId) ==
    IF refs # <<>> /\ Last(refs) = msgId THEN refs ELSE Append(refs, msgId)

AddRePrefix(subject) == [subject EXCEPT !.re = IF @ = 0 THEN 1 ELSE @]

(* Mutant: a source without a sender gives a recipient like any other.     *)
DerivableUnchecked(src, needs) ==
    src.id # None /\ (needs.cc => Malformed \notin {src.to, src.cc})

(* Headers of slots the caller fills itself are not looked at.             *)
Derivable(src, needs) ==
    /\ src.id # None
    /\ needs.to => src.from \notin {None, Malformed}
    /\ needs.cc => Malformed \notin {src.to, src.cc}

DeriveReplyDefaults(src, needs, selfSet) ==
    [inReplyTo |-> src.id,
     refs |-> BuildReferences(src.refs, src.id),
     thread |-> src.thread,
     to |-> IF needs.to THEN <<src.from>> ELSE <<>>,
     cc |-> IF needs.cc THEN FilterSelf(src.to \o src.cc, selfSet) ELSE <<>>,
     subject |-> IF needs.subject THEN AddRePrefix(src.subject) ELSE None]

-----------------------------------------------------------------------------
(* Plain bodies.  A line is [q, k]: how many marks ">" it starts with, and *)
(* what the rest of it looks like.                                         *)

HeaderKind == {"from", "to", "subject", "sent", "cc"}   \* "sent" or "date"
LineKind == {"text", "blank",
             "attribution",   \* "On ... wrote:"
             "on",            \* "On ...", the attribution goes on below
             "wrote",         \* "... wrote:"
             "marker",        \* "-----Original Message-----", "________"
             "forwarded",     \* "---------- Forwarded message ----------"
             "elided"}        \* what stands for hidden history
            \cup HeaderKind

TextLine == [q : Nat, k : LineKind]
Line(kind) == [q |-> 0, k |-> kind]

Quoted(l) == l.q > 0
Blank(l) == l.q = 0 /\ l.k = "blank"
Is(l, kind) == l.q = 0 /\ l.k = kind

QuotePlain(lines) == [i \in DOMAIN lines |-> [lines[i] EXCEPT !.q = @ + 1]]

HasTopLevelForwardedMessage(lines) == \E i \in DOMAIN lines : Is(lines[i], "forwarded")

(* The last line of the attribution that starts at line i, if there is one:*)
(* at most two lines further down.                                         *)
AttributionEnds(lines, i) ==
    IF Is(lines[i], "attribution") THEN {i}
    ELSE IF ~Is(lines[i], "on") THEN {}
    ELSE LET ends == {e \in (i + 1)..(i + 2) :
                          /\ e <= Len(lines)
                          /\ Is(lines[e], "wrote") \/ Is(lines[e], "attribution")
                          /\ \A j \in (i + 1)..e : ~Blank(lines[j]) /\ ~Quoted(lines[j])}
         IN  {e \in ends : \A f \in ends : e <= f}

(* Mutant: an empty line ends the quote.                                   *)
HasQuotedSuffixNoGap(lines, e) ==
    /\ e < Len(lines)
    /\ \A j \in (e + 1)..Len(lines) : Quoted(lines[j])

(* Nothing but quoted lines below, some with content.                      *)
HasQuotedSuffix(lines, e) ==
    /\ \A j \in (e + 1)..Len(lines) : Blank(lines[j]) \/ Quoted(lines[j])
    /\ \E j \in (e + 1)..Len(lines) : Quoted(lines[j]) /\ lines[j].k # "blank"

(* Header lines as mail programs write them above a message they include,  *)
(* and something below them.                                               *)
HasReplyHeaderBlock(lines, start) ==
    \E first \in start..Len(lines) : \E last \in first..Len(lines) :
        LET header(j) == lines[j].q = 0 /\ lines[j].k \in HeaderKind
            seen == {lines[j].k : j \in first..last}
        IN  /\ \A j \in start..(first - 1) : Blank(lines[j])
            /\ \A j \in first..last : header(j)
            /\ last < Len(lines) => ~header(last + 1)
            /\ {"from", "to", "subject", "sent"} \subseteq seen
            /\ \E j \in (last + 1)..Len(lines) : ~Blank(lines[j])

(* The lines at which history starts.                                      *)
HistoryStarts(lines) ==
    {i \in DOMAIN lines :
        \/ \E e \in AttributionEnds(lines, i) : HasQuotedSuffix(lines, e)
        \/ Is(lines[i], "marker") /\ HasReplyHeaderBlock(lines, i + 1)}

ElidePlain(lines) ==
    LET starts == HistoryStarts(lines)
    IN  IF starts = {} \/ HasTopLevelForwardedMessage(lines) THEN lines
        ELSE LET first == CHOOSE i \in starts : \A j \in starts : i <= j
             IN  Append(SubSeq(lines, 1, first - 1), Line("elided"))

-----------------------------------------------------------------------------
(* HTML bodies.  Only the right edge of the tree matters: a body is the    *)
(* sequence of levels on the way down along last children, and a level the *)
(* sequence of its nodes.                                                  *)

NodeKind == {"text", "box",   \* an element that quotes nothing itself
             "space",         \* white space or a comment
             "cite",          \* "moz-cite-prefix"
             "quote",         \* gmail_quote, blockquote type=cite, ..., with content
             "hollow",        \* the same without content
             "rule",          \* Zimbra's divider
             "elided"}

Meaningful(level) == {i \in DOMAIN level : level[i] # "space"}

(* Zimbra's divider with something below it, the last one.                 *)
Divider(level) ==
    LET rules == {i \in Meaningful(level) :
                      level[i] = "rule" /\ \E j \in Meaningful(level) : j > i}
    IN  {i \in rules : \A j \in rules : j <= i}

LastNode(level) == {i \in Meaningful(level) : \A j \in Meaningful(level) : j <= i}

(* Mutant: the last quote, whatever is written below it.                   *)
LastQuote(level) == {i \in Meaningful(level) :
                        /\ level[i] = "quote"
                        /\ \A j \in Meaningful(level) : level[j] = "quote" => j <= i}

TerminalQuote(level) == {i \in LastNode(level) : level[i] = "quote"}

(* The level without its history: the quote and its attribution, or all    *)
(* from the divider on.                                                    *)
Cut(level) ==
    IF Divider(level) # {}
    THEN LET i == CHOOSE k \in Divider(level) : TRUE
         IN  Append(SubSeq(level, 1, i - 1), "elided")
    ELSE LET i == CHOOSE k \in TerminalQuote(level) : TRUE
             above == LastNode(SubSeq(level, 1, i - 1))
             first == IF \E k \in above : level[k] = "cite"
                      THEN CHOOSE k \in above : TRUE ELSE i
         IN  SubSeq(level, 1, first - 1) \o <<"elided">> \o SubSeq(level, i + 1, Len(level))

(* The outermost level that ends in history; markup that is not balanced   *)
(* is left alone.                                                          *)
ElideHTML(spine, balanced) ==
    LET deep == {d \in DOMAIN spine : Divider(spine[d]) # {} \/ TerminalQuote(spine[d]) # {}}
    IN  IF deep = {} \/ ~balanced THEN spine
        ELSE LET d == CHOOSE e \in deep : \A f \in deep : e <= f
             IN  Append(SubSeq(spine, 1, d - 1), Cut(spine[d]))

(* A body is [html, parts, balanced]: lines, or the levels of a tree.      *)
ElideQuotedReplyBody(body) ==
    [body EXCEPT !.parts = IF body.html THEN ElideHTML(body.parts, body.balanced)
                           ELSE ElidePlain(body.parts)]

Body == [html : {FALSE}, parts : Seq(TextLine), balanced : BOOLEAN]
        \cup [html : {TRUE}, parts : Seq(Seq(NodeKind)), balanced : BOOLEAN]

Empty(body) == body.parts = <<>>

(* A body as lines: the source text of HTML is quoted as it is.            *)
AsLines(body) == IF body.html THEN <<Line("text")>> ELSE body.parts

(* The authored text with the source quoted below it.                      *)
QuoteHTML(text) == <<(IF Empty(text) THEN <<>> ELSE Append(text.parts[1], "space"))
                       \o <<"quote">>>>

WithQuote(text, source) ==
    [text EXCEPT !.parts =
        IF text.html THEN QuoteHTML(text)
        ELSE (IF Empty(text) THEN <<>> ELSE Append(text.parts, Line("blank")))
             \o <<Line("attribution"), Line("blank")>> \o QuotePlain(AsLines(source))]

-----------------------------------------------------------------------------
(* What quoting and hiding promise each other.                             *)

SourceShows(body) == ~Empty(body) /\ \E i \in DOMAIN AsLines(body) : AsLines(body)[i].k # "blank"

(* Text written to look like a message that is forwarded or included: a   *)
(* marker, and lines like the headers of a message somewhere below it; and *)
(* markup out of balance or with what mail programs put above a quote.     *)
Headed == {"from", "to", "subject", "sent"}

LooksQuoted(text) ==
    LET body == text.parts
    IN  IF text.html
        THEN ~text.balanced \/ \E d \in DOMAIN body : \E i \in DOMAIN body[d] :
                                  body[d][i] \in {"rule", "cite"}
        ELSE \E i \in DOMAIN body :
                \/ Is(body[i], "forwarded")
                \/ /\ Is(body[i], "marker")
                   /\ \A name \in Headed : \E j \in (i + 1)..Len(body) : Is(body[j], name)

(* What is read of a text with a quote below it.                           *)
Elided(text) ==
    IF text.html
    THEN <<(IF Empty(text) THEN <<>> ELSE Append(text.parts[1], "space")) \o <<"elided">>>>
    ELSE (IF Empty(text) THEN <<>> ELSE Append(text.parts, Line("blank"))) \o <<Line("elided")>>

(* From line i on stands what somebody else wrote: nothing but quoted      *)
(* lines, below one to three lines that say whose they are ...             *)
QuotedFrom(lines, i) ==
    \E e \in i..(i + 2) :
        /\ IF e = i THEN Is(lines[i], "attribution")
           ELSE /\ Is(lines[i], "on") /\ e <= Len(lines)
                /\ Is(lines[e], "wrote") \/ Is(lines[e], "attribution")
        /\ \A j \in i..e : ~Blank(lines[j]) /\ ~Quoted(lines[j])
        /\ \A j \in (e + 1)..Len(lines) : Blank(lines[j]) \/ Quoted(lines[j])
        /\ \E j \in (e + 1)..Len(lines) : Quoted(lines[j]) /\ lines[j].k # "blank"

(* ... or a marker, the headers of a message, and that message.            *)
IncludedFrom(lines, i) ==
    /\ Is(lines[i], "marker")
    /\ \E h \in (i + 1)..Len(lines) :
          /\ \A j \in (i + 1)..h : \E name \in HeaderKind \cup {"blank"} : Is(lines[j], name)
          /\ \A name \in Headed : \E j \in (i + 1)..h : Is(lines[j], name)
          /\ \E j \in (h + 1)..Len(lines) : ~Blank(lines[j])

(* Nodes i to j of a level are a quote that nothing follows, with the      *)
(* attribution above it, or a divider and all that follows it.             *)
QuotedNodes(level, i, j) ==
    LET space(m, n) == \A k \in m..n : level[k] = "space"
    IN  \/ /\ level[j] = "quote" /\ space(j + 1, Len(level))
           /\ i = j \/ (level[i] = "cite" /\ space(i + 1, j - 1))
        \/ level[i] = "rule" /\ j = Len(level) /\ ~space(i + 1, j)

(* Hiding leaves a body as it is, or puts one mark in the place of what is *)
(* quoted and keeps every other line and node.  A message that forwards    *)
(* another, and markup that is not balanced, stay as they are.             *)
HidesHistory(body) ==
    LET parts == body.parts
        read == ElideQuotedReplyBody(body)
    IN  \/ read = body
        \/ /\ ~body.html /\ ~HasTopLevelForwardedMessage(parts)
           /\ \E i \in DOMAIN parts :
                 /\ read.parts = Append(SubSeq(parts, 1, i - 1), Line("elided"))
                 /\ QuotedFrom(parts, i) \/ IncludedFrom(parts, i)
        \/ /\ body.html /\ body.balanced
           /\ \E d \in DOMAIN parts : \E i, j \in DOMAIN parts[d] :
                 /\ read.parts = Append(SubSeq(parts, 1, d - 1),
                                        SubSeq(parts[d], 1, i - 1) \o <<"elided">>
                                            \o SubSeq(parts[d], j + 1, Len(parts[d])))
                 /\ i <= j /\ QuotedNodes(parts[d], i, j)
=============================================================================
