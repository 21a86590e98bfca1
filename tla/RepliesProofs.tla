--------------------------- MODULE RepliesProofs ---------------------------
EXTENDS Replies, FiniteSetTheorems, WellFoundedInduction, TLAPS

LEMMA LeastNatural ==
    ASSUME NEW T \in SUBSET Nat, T # {}
    PROVE  \E x \in T : \A y \in T : x <= y
<1> DEFINE R == {ss \in Nat \X Nat : ss[1] < ss[2]}
<1>1. IsWellFoundedOn(R, Nat)
  BY NatLessThanWellFounded, Zenon DEF OpToRel
<1>2. PICK x \in T : \A y \in T : ~(<<y, x>> \in R)
  <2> HIDE DEF R
  <2> QED BY <1>1, WFMin
<1>3. ASSUME NEW y \in T PROVE x <= y
  <2>1. x \in Nat /\ y \in Nat OBVIOUS
  <2>2. <<y, x>> \in R <=> y < x BY <2>1
  <2> QED BY <2>1, <2>2, <1>2
<1> QED BY <1>3

(* So what is true of 0 and carried from n to n + 1 is true of every n:    *)
(* here as a set of naturals.                                              *)
LEMMA Induction ==
    ASSUME NEW T, 0 \in T, \A n \in Nat : n \in T => n + 1 \in T
    PROVE  Nat \subseteq T
<1> SUFFICES ASSUME Nat \ T # {} PROVE FALSE
  OBVIOUS
<1>1. PICK x \in Nat \ T : \A y \in Nat \ T : x <= y
  BY LeastNatural
<1>2. x # 0 /\ x - 1 \in Nat /\ x - 1 \in T
  BY <1>1
<1>3. (x - 1) + 1 \in T
  BY <1>2
<1> QED BY <1>1, <1>2, <1>3

-----------------------------------------------------------------------------
(* Who receives a reply to all.                                            *)

(* One turn of FilterSelf's loop.                                          *)
Kept(out, a, selfSet) == IF Lower(a) \in selfSet \cup Folded(out) THEN out ELSE Append(out, a)

IsOut(f, addrs, selfSet, m) ==
    f = [n \in 0..m |-> IF n = 0 THEN <<>>
                        ELSE IF Lower(addrs[n]) \in selfSet \cup Folded(f[n - 1]) THEN f[n - 1]
                        ELSE Append(f[n - 1], addrs[n])]

LEMMA OutExists ==
    ASSUME NEW addrs, NEW selfSet, NEW m \in Nat
    PROVE  \E f : IsOut(f, addrs, selfSet, m)
<1> DEFINE T == {k \in Nat : \E f : IsOut(f, addrs, selfSet, k)}
<1>1. 0 \in T
  <2>1. IsOut([n \in 0..0 |-> <<>>], addrs, selfSet, 0)
    BY DEF IsOut
  <2> QED BY <2>1
<1>2. ASSUME NEW k \in Nat, k \in T PROVE k + 1 \in T
  <2>1. PICK f : IsOut(f, addrs, selfSet, k)
    BY <1>2
  <2> DEFINE next == Kept(f[k], addrs[k + 1], selfSet)
             g == [n \in 0..(k + 1) |-> IF n = k + 1 THEN next ELSE f[n]]
             h(n) == IF n = 0 THEN <<>> ELSE Kept(g[n - 1], addrs[n], selfSet)
  <2>2. DOMAIN f = 0..k /\ \A n \in 0..k : f[n] = IF n = 0 THEN <<>> ELSE Kept(f[n - 1], addrs[n], selfSet)
    BY <2>1 DEF IsOut, Kept
  <2>3. ASSUME NEW n \in 0..(k + 1) PROVE g[n] = h(n)
    <3> HIDE DEF next
    <3>1. CASE n = 0
      BY <3>1, <2>2
    <3>2. CASE n \in 1..k
      <4>1. g[n] = f[n] /\ g[n - 1] = f[n - 1] /\ n \in 0..k
        BY <3>2
      <4> QED BY <4>1, <2>2, <3>2
    <3>3. CASE n = k + 1
      <4>1. g[n] = next /\ g[n - 1] = f[k]
        BY <3>3
      <4> QED BY <4>1, <3>3 DEF next
    <3> QED BY <3>1, <3>2, <3>3
  <2>4. g = [n \in 0..(k + 1) |-> h(n)]
    <3> HIDE DEF h
    <3> QED BY <2>3
  <2>5. IsOut(g, addrs, selfSet, k + 1)
    <3> HIDE DEF g
    <3> QED BY <2>4 DEF IsOut, Kept
  <2> QED BY <2>5
<1> HIDE DEF T
<1>3. Nat \subseteq T
  BY <1>1, <1>2, Induction
<1> QED BY <1>3 DEF T

LEMMA OutIs ==
    ASSUME NEW addrs, NEW selfSet, Len(addrs) \in Nat
    PROVE  \E f : /\ IsOut(f, addrs, selfSet, Len(addrs))
                  /\ FilterSelf(addrs, selfSet) = f[Len(addrs)]
<1> DEFINE f == CHOOSE g : IsOut(g, addrs, selfSet, Len(addrs))
<1>1. IsOut(f, addrs, selfSet, Len(addrs))
  BY OutExists
<1>2. FilterSelf(addrs, selfSet) = f[Len(addrs)]
  BY DEF FilterSelf, IsOut
<1> HIDE DEF f
<1> QED BY <1>1, <1>2

Distinct(out) == \A i, j \in DOMAIN out : Lower(out[i]) = Lower(out[j]) => i = j

LEMMA AppendFacts ==
    ASSUME NEW S, NEW s \in Seq(S), NEW x \in S
    PROVE  /\ Append(s, x) \in Seq(S)
           /\ Len(s) \in Nat /\ Len(Append(s, x)) = Len(s) + 1
           /\ DOMAIN s = 1..Len(s)
           /\ DOMAIN Append(s, x) = 1..(Len(s) + 1)
           /\ \A i \in 1..Len(s) : Append(s, x)[i] = s[i] /\ s[i] \in S
           /\ Append(s, x)[Len(s) + 1] = x
OBVIOUS

LEMMA FoldedAppend ==
    ASSUME NEW S, NEW s \in Seq(S), NEW x \in S
    PROVE  Folded(Append(s, x)) = Folded(s) \cup {Lower(x)}
<1>1. ASSUME NEW w \in Folded(Append(s, x)) PROVE w \in Folded(s) \cup {Lower(x)}
  BY AppendFacts DEF Folded
<1>2. ASSUME NEW w \in Folded(s) PROVE w \in Folded(Append(s, x))
  BY AppendFacts DEF Folded
<1>3. Lower(x) \in Folded(Append(s, x))
  <2>1. Len(s) + 1 \in DOMAIN Append(s, x)
    BY AppendFacts
  <2> QED BY <2>1, AppendFacts DEF Folded
<1> QED BY <1>1, <1>2, <1>3

(* What the loop maintains: out lists each of names once, the user not.    *)
Lists(out, names, selfSet, A) ==
    out \in Seq(A) /\ Distinct(out) /\ Folded(out) = names \ selfSet

LEMMA KeptLists ==
    ASSUME NEW A, NEW out, NEW a \in A, NEW selfSet, NEW names, Lists(out, names, selfSet, A)
    PROVE  Lists(Kept(out, a, selfSet), names \cup {Lower(a)}, selfSet, A)
<1> USE DEF Lists
<1>1. CASE Lower(a) \in selfSet \cup Folded(out)
  BY <1>1 DEF Kept
<1>2. CASE Lower(a) \notin selfSet \cup Folded(out)
  <2> DEFINE next == Append(out, a)
  <2>1. next \in Seq(A)
    OBVIOUS
  <2>2. Folded(next) = (names \cup {Lower(a)}) \ selfSet
    BY <1>2, FoldedAppend
  <2>3. ASSUME NEW i \in DOMAIN out PROVE Lower(out[i]) # Lower(a)
    BY <1>2 DEF Folded
  <2>4. ASSUME NEW i \in DOMAIN next, NEW j \in DOMAIN next, Lower(next[i]) = Lower(next[j])
        PROVE  i = j
    <3>1. /\ Len(out) \in Nat /\ DOMAIN out = 1..Len(out) /\ DOMAIN next = 1..(Len(out) + 1)
          /\ \A k \in 1..Len(out) : next[k] = out[k]
          /\ next[Len(out) + 1] = a
      BY AppendFacts
    <3> HIDE DEF next
    <3>2. CASE i \in DOMAIN out /\ j \in DOMAIN out
      BY <3>1, <3>2, <2>4 DEF Distinct
    <3>3. CASE i = Len(out) + 1 /\ j \in DOMAIN out
      BY <3>1, <3>3, <2>3, <2>4
    <3>4. CASE j = Len(out) + 1 /\ i \in DOMAIN out
      BY <3>1, <3>4, <2>3, <2>4
    <3>5. CASE i = Len(out) + 1 /\ j = Len(out) + 1
      BY <3>5
    <3> QED BY <3>1, <3>2, <3>3, <3>4, <3>5
  <2>5. Distinct(next)
    <3> HIDE DEF next
    <3> QED BY <2>4 DEF Distinct
  <2> HIDE DEF next
  <2>6. Kept(out, a, selfSet) = next
    BY <1>2 DEF next, Kept
  <2> QED BY <2>1, <2>2, <2>5, <2>6
<1> QED BY <1>1, <1>2

(* FilterSelf leaves out the user and nobody else, and lists each once.    *)
LEMMA FilterSelfLists ==
    ASSUME NEW A, NEW addrs \in Seq(A), NEW selfSet
    PROVE  Lists(FilterSelf(addrs, selfSet), Folded(addrs), selfSet, A)
<1> DEFINE last == Len(addrs)
           names(n) == {Lower(addrs[i]) : i \in 1..n}
<1>1. last \in Nat /\ DOMAIN addrs = 1..last /\ \A n \in 1..last : addrs[n] \in A
  OBVIOUS
<1>2. PICK f : IsOut(f, addrs, selfSet, last) /\ FilterSelf(addrs, selfSet) = f[last]
  BY <1>1, OutIs
<1> DEFINE T == {n \in Nat : n <= last => Lists(f[n], names(n), selfSet, A)}
<1> HIDE DEF last
<1>3. f[0] = <<>> /\ \A n \in Nat : n + 1 <= last => f[n + 1] = Kept(f[n], addrs[n + 1], selfSet)
  <2> DEFINE h(n) == IF n = 0 THEN <<>> ELSE Kept(f[n - 1], addrs[n], selfSet)
  <2>1. \A n \in 0..last : f[n] = h(n)
    BY <1>1, <1>2 DEF IsOut, Kept
  <2>2. f[0] = <<>>
    BY <1>1, <2>1
  <2>3. ASSUME NEW n \in Nat, n + 1 <= last
        PROVE  f[n + 1] = Kept(f[n], addrs[n + 1], selfSet)
    <3>1. n + 1 \in 0..last /\ (n + 1) - 1 = n /\ n + 1 # 0
      BY <1>1, <2>3
    <3>2. f[n + 1] = h(n + 1)
      BY <3>1, <2>1
    <3> QED BY <3>1, <3>2
  <2> QED BY <2>2, <2>3
<1>4. 0 \in T
  <2>1. <<>> \in Seq(A) /\ Distinct(<<>>)
    BY DEF Distinct
  <2>2. Folded(<<>>) = {} /\ names(0) = {}
    BY DEF Folded
  <2> HIDE DEF names
  <2> QED BY <1>3, <2>1, <2>2 DEF Lists
<1>5. ASSUME NEW n \in Nat, n \in T PROVE n + 1 \in T
  <2> SUFFICES ASSUME n + 1 <= last PROVE Lists(f[n + 1], names(n + 1), selfSet, A)
    OBVIOUS
  <2>1. Lists(f[n], names(n), selfSet, A) /\ addrs[n + 1] \in A
    BY <1>1, <1>5
  <2>2. names(n + 1) = names(n) \cup {Lower(addrs[n + 1])}
    OBVIOUS
  <2> HIDE DEF names
  <2>3. Lists(Kept(f[n], addrs[n + 1], selfSet), names(n) \cup {Lower(addrs[n + 1])}, selfSet, A)
    BY <2>1, KeptLists
  <2> QED BY <2>2, <2>3, <1>3
<1> HIDE DEF T
<1>6. Nat \subseteq T
  BY <1>4, <1>5, Induction
<1>7. Lists(f[last], names(last), selfSet, A)
  <2>1. last \in T
    BY <1>1, <1>6
  <2> HIDE DEF names
  <2> QED BY <1>1, <2>1 DEF T
<1>8. names(last) = Folded(addrs)
  BY <1>1 DEF Folded
<1> HIDE DEF names
<1> QED BY <1>2, <1>7, <1>8

(* Without doubles there are as many names as entries.                     *)
LEMMA DistinctCounted ==
    ASSUME NEW A, NEW out \in Seq(A), Distinct(out)
    PROVE  Cardinality(Folded(out)) = Len(out)
<1> DEFINE f == [i \in 1..Len(out) |-> Lower(out[i])]
<1>1. Len(out) \in Nat /\ DOMAIN out = 1..Len(out)
  OBVIOUS
<1>2. f \in Bijection(1..Len(out), Folded(out))
  <2>1. f \in [1..Len(out) -> Folded(out)]
    BY <1>1 DEF Folded
  <2>2. \A i, j \in 1..Len(out) : f[i] = f[j] => i = j
    BY <1>1 DEF Distinct
  <2>3. \A w \in Folded(out) : \E i \in 1..Len(out) : f[i] = w
    BY <1>1 DEF Folded
  <2> HIDE DEF f
  <2> QED BY <2>1, <2>2, <2>3 DEF Bijection, Injection, IsInjective, Surjection
<1>3. IsFiniteSet(1..Len(out)) /\ Cardinality(1..Len(out)) = Len(out)
  BY <1>1, FS_Interval
<1>4. ExistsBijection(1..Len(out), Folded(out))
  <2> HIDE DEF f
  <2> QED BY <1>2 DEF ExistsBijection
<1> QED BY <1>3, <1>4, FS_Bijection

-----------------------------------------------------------------------------
(* What reading hides.                                                     *)

LEMMA ElidePlainIs ==
    ASSUME NEW lines \in Seq(TextLine), ~HasTopLevelForwardedMessage(lines),
           NEW a \in HistoryStarts(lines), \A i \in HistoryStarts(lines) : a <= i
    PROVE  ElidePlain(lines) = Append(SubSeq(lines, 1, a - 1), Line("elided"))
<1> DEFINE starts == HistoryStarts(lines)
           first == CHOOSE i \in starts : \A j \in starts : i <= j
<1>1. starts \subseteq Nat
  BY DEF HistoryStarts
<1>2. first \in starts /\ \A j \in starts : first <= j
  OBVIOUS
<1>3. first = a
  BY <1>1, <1>2
<1>4. ElidePlain(lines) = Append(SubSeq(lines, 1, first - 1), Line("elided"))
  BY DEF ElidePlain
<1> QED BY <1>3, <1>4

LEMMA AttributionIs ==
    ASSUME NEW lines \in Seq(TextLine), NEW i \in DOMAIN lines, NEW e \in AttributionEnds(lines, i)
    PROVE  \/ e = i /\ Is(lines[i], "attribution")
           \/ /\ Is(lines[i], "on") /\ e \in (i + 1)..(i + 2) /\ e <= Len(lines)
              /\ Is(lines[e], "wrote") \/ Is(lines[e], "attribution")
              /\ \A j \in (i + 1)..e : ~Blank(lines[j]) /\ ~Quoted(lines[j])
BY DEF AttributionEnds

LEMMA HidesPlain ==
    ASSUME NEW body \in Body, ~body.html, ElideQuotedReplyBody(body) # body
    PROVE  /\ ~HasTopLevelForwardedMessage(body.parts)
           /\ \E i \in DOMAIN body.parts :
                 /\ ElideQuotedReplyBody(body).parts = Append(SubSeq(body.parts, 1, i - 1), Line("elided"))
                 /\ QuotedFrom(body.parts, i) \/ IncludedFrom(body.parts, i)
<1> DEFINE lines == body.parts
           read == ElideQuotedReplyBody(body)
<1>1. body \in [html : {FALSE}, parts : Seq(TextLine), balanced : BOOLEAN]
  BY DEF Body
<1>2. read = [body EXCEPT !.parts = ElidePlain(lines)]
  BY <1>1 DEF ElideQuotedReplyBody
<1>3. read.parts = ElidePlain(lines) /\ lines \in Seq(TextLine)
  BY <1>1, <1>2
<1>4. ElidePlain(lines) # lines
  BY <1>1, <1>2
<1> HIDE DEF lines, read
<1>5. HistoryStarts(lines) # {} /\ ~HasTopLevelForwardedMessage(lines)
  BY <1>4 DEF ElidePlain
<1>6. HistoryStarts(lines) \in SUBSET Nat
  BY <1>3 DEF HistoryStarts
<1>7. PICK a \in HistoryStarts(lines) : \A i \in HistoryStarts(lines) : a <= i
  BY <1>5, <1>6, LeastNatural
<1>8. a \in DOMAIN lines /\ a \in 1..Len(lines) /\ Len(lines) \in Nat
  BY <1>3, <1>7 DEF HistoryStarts
<1>9. ElidePlain(lines) = Append(SubSeq(lines, 1, a - 1), Line("elided"))
  BY <1>3, <1>5, <1>7, ElidePlainIs
<1>10. CASE Is(lines[a], "marker") /\ HasReplyHeaderBlock(lines, a + 1)
  <2>1. PICK first \in (a + 1)..Len(lines) : \E last \in first..Len(lines) :
           /\ \A j \in (a + 1)..(first - 1) : Blank(lines[j])
           /\ \A j \in first..last : lines[j].q = 0 /\ lines[j].k \in HeaderKind
           /\ Headed \subseteq {lines[j].k : j \in first..last}
           /\ \E j \in (last + 1)..Len(lines) : ~Blank(lines[j])
    BY <1>10 DEF HasReplyHeaderBlock, Headed
  <2>2. PICK last \in first..Len(lines) :
           /\ \A j \in (a + 1)..(first - 1) : Blank(lines[j])
           /\ \A j \in first..last : lines[j].q = 0 /\ lines[j].k \in HeaderKind
           /\ Headed \subseteq {lines[j].k : j \in first..last}
           /\ \E j \in (last + 1)..Len(lines) : ~Blank(lines[j])
    BY <2>1
  <2>3. last \in (a + 1)..Len(lines)
    BY <1>8, <2>1, <2>2
  <2>4. ASSUME NEW j \in (a + 1)..last
        PROVE  \E name \in HeaderKind \cup {"blank"} : Is(lines[j], name)
    <3>1. j \in (a + 1)..(first - 1) \/ j \in first..last
      BY <1>8, <2>1, <2>2
    <3> QED BY <2>2, <3>1 DEF Blank, Is
  <2>5. ASSUME NEW name \in Headed PROVE \E j \in (a + 1)..last : Is(lines[j], name)
    <3>1. PICK j \in first..last : lines[j].k = name
      BY <2>2
    <3>2. j \in (a + 1)..last
      BY <1>8, <2>1, <3>1
    <3> QED BY <2>2, <3>1, <3>2 DEF Is
  <2>6. IncludedFrom(lines, a)
    BY <1>10, <2>2, <2>3, <2>4, <2>5 DEF IncludedFrom
  <2> QED BY <1>3, <1>5, <1>8, <1>9, <2>6 DEF lines, read
<1>11. CASE \E e \in AttributionEnds(lines, a) : HasQuotedSuffix(lines, e)
  <2>1. PICK e \in AttributionEnds(lines, a) : HasQuotedSuffix(lines, e)
    BY <1>11
  <2>2. /\ \A j \in (e + 1)..Len(lines) : Blank(lines[j]) \/ Quoted(lines[j])
        /\ \E j \in (e + 1)..Len(lines) : Quoted(lines[j]) /\ lines[j].k # "blank"
    BY <2>1 DEF HasQuotedSuffix
  <2>3. \/ e = a /\ Is(lines[a], "attribution")
        \/ /\ Is(lines[a], "on") /\ e \in (a + 1)..(a + 2) /\ e <= Len(lines)
           /\ Is(lines[e], "wrote") \/ Is(lines[e], "attribution")
           /\ \A j \in (a + 1)..e : ~Blank(lines[j]) /\ ~Quoted(lines[j])
    BY <1>3, <1>8, <2>1, AttributionIs
  <2>4. ASSUME Is(lines[a], "attribution") \/ Is(lines[a], "on")
        PROVE  ~Blank(lines[a]) /\ ~Quoted(lines[a])
    BY <2>4 DEF Is, Blank, Quoted
  <2>5. /\ e \in a..(a + 2)
        /\ \A j \in a..e : ~Blank(lines[j]) /\ ~Quoted(lines[j])
    <3>1. CASE e = a
      BY <1>8, <2>3, <2>4, <3>1
    <3>2. CASE e # a
      <4>1. \A j \in a..e : j = a \/ j \in (a + 1)..e
        BY <1>8, <2>3, <3>2
      <4> QED BY <1>8, <2>3, <2>4, <3>2, <4>1
    <3> QED BY <3>1, <3>2
  <2>6. IF e = a THEN Is(lines[a], "attribution")
        ELSE /\ Is(lines[a], "on") /\ e <= Len(lines)
             /\ Is(lines[e], "wrote") \/ Is(lines[e], "attribution")
    BY <1>8, <2>3
  <2>7. QuotedFrom(lines, a)
    BY <2>2, <2>5, <2>6 DEF QuotedFrom
  <2> QED BY <1>3, <1>5, <1>8, <1>9, <2>7 DEF lines, read
<1> QED BY <1>7, <1>10, <1>11 DEF HistoryStarts

LEMMA DividerCut ==
    ASSUME NEW level \in Seq(NodeKind), NEW i \in Divider(level)
    PROVE  /\ i \in DOMAIN level /\ Len(level) \in DOMAIN level /\ i <= Len(level)
           /\ Cut(level) = SubSeq(level, 1, i - 1) \o <<"elided">>
                              \o SubSeq(level, Len(level) + 1, Len(level))
           /\ QuotedNodes(level, i, Len(level))
<1>1. /\ Len(level) \in Nat /\ DOMAIN level = 1..Len(level)
      /\ \A k \in DOMAIN level : level[k] \in NodeKind
  OBVIOUS
<1>2. /\ i \in DOMAIN level /\ level[i] = "rule"
      /\ \E j \in DOMAIN level : j > i /\ level[j] # "space"
      /\ \A j \in Divider(level) : j <= i /\ j \in DOMAIN level
  BY DEF Divider, Meaningful
<1> DEFINE n == CHOOSE k \in Divider(level) : TRUE
<1>3. n \in Divider(level)
  OBVIOUS
<1>4. n = i
  <2>1. i <= n /\ n <= i /\ n \in Nat /\ i \in Nat
    BY <1>1, <1>2, <1>3 DEF Divider
  <2> QED BY <2>1
<1>5. Cut(level) = Append(SubSeq(level, 1, n - 1), "elided")
  BY <1>3 DEF Cut
<1> HIDE DEF n
<1> DEFINE head == SubSeq(level, 1, i - 1)
<1>6. head \in Seq(NodeKind) /\ "elided" \in NodeKind
  BY <1>1, <1>2 DEF NodeKind
<1>7. SubSeq(level, Len(level) + 1, Len(level)) = <<>>
  BY <1>1
<1> HIDE DEF head
<1>8. Append(head, "elided") = head \o <<"elided">> \o <<>>
  BY <1>6
<1>9. QuotedNodes(level, i, Len(level))
  BY <1>1, <1>2 DEF QuotedNodes
<1> QED BY <1>1, <1>2, <1>4, <1>5, <1>7, <1>8, <1>9 DEF head

LEMMA QuoteCut ==
    ASSUME NEW level \in Seq(NodeKind), Divider(level) = {}, NEW j \in TerminalQuote(level)
    PROVE  \E i \in DOMAIN level :
              /\ j \in DOMAIN level /\ i <= j
              /\ Cut(level) = SubSeq(level, 1, i - 1) \o <<"elided">>
                                 \o SubSeq(level, j + 1, Len(level))
              /\ QuotedNodes(level, i, j)
<1>1. /\ Len(level) \in Nat /\ DOMAIN level = 1..Len(level)
  OBVIOUS
<1>2. /\ j \in 1..Len(level) /\ level[j] = "quote"
      /\ \A k \in DOMAIN level : level[k] # "space" => k <= j
  BY <1>1 DEF TerminalQuote, LastNode, Meaningful
<1>3. \A k \in (j + 1)..Len(level) : level[k] = "space"
  BY <1>1, <1>2
<1> DEFINE n == CHOOSE k \in TerminalQuote(level) : TRUE
           above == LastNode(SubSeq(level, 1, n - 1))
           first == IF \E k \in above : level[k] = "cite" THEN CHOOSE k \in above : TRUE ELSE n
<1>4. n = j
  <2>1. n \in TerminalQuote(level)
    OBVIOUS
  <2>2. n \in 1..Len(level) /\ level[n] = "quote"
        /\ \A k \in DOMAIN level : level[k] # "space" => k <= n
    BY <1>1, <2>1 DEF TerminalQuote, LastNode, Meaningful
  <2>3. j <= n /\ n <= j
    BY <1>1, <1>2, <2>2
  <2> QED BY <1>2, <2>2, <2>3
<1>5. Cut(level) = SubSeq(level, 1, first - 1) \o <<"elided">> \o SubSeq(level, n + 1, Len(level))
  BY DEF Cut
<1> DEFINE head == SubSeq(level, 1, j - 1)
<1>6. /\ Len(head) = j - 1 /\ DOMAIN head = 1..(j - 1)
      /\ \A k \in 1..(j - 1) : head[k] = level[k]
  BY <1>1, <1>2
<1> HIDE DEF head
<1>7. above = LastNode(head)
  BY <1>4 DEF head
<1> HIDE DEF n, above
<1>8. \A k \in above : /\ k \in 1..(j - 1) /\ level[k] # "space"
                       /\ \A m \in (k + 1)..(j - 1) : level[m] = "space"
  <2> SUFFICES ASSUME NEW k \in above
               PROVE  /\ k \in 1..(j - 1) /\ level[k] # "space"
                      /\ \A m \in (k + 1)..(j - 1) : level[m] = "space"
    OBVIOUS
  <2>1. /\ k \in DOMAIN head /\ head[k] # "space"
        /\ \A m \in DOMAIN head : head[m] # "space" => m <= k
    BY <1>7 DEF LastNode, Meaningful
  <2> QED BY <1>2, <1>6, <2>1
<1>9. /\ first \in 1..j
      /\ first = j \/ (level[first] = "cite" /\ \A m \in (first + 1)..(j - 1) : level[m] = "space")
  <2>1. CASE \E k \in above : level[k] = "cite"
    <3>1. PICK k \in above : level[k] = "cite"
      BY <2>1
    <3>2. first \in above
      BY <2>1
    <3>3. first = k
      <4>1. /\ first \in 1..(j - 1) /\ k \in 1..(j - 1)
            /\ level[first] # "space" /\ level[k] # "space"
        BY <1>8, <3>1, <3>2
      <4>2. ~(first < k) /\ ~(k < first)
        BY <1>2, <1>8, <3>1, <3>2, <4>1
      <4> QED BY <1>2, <4>1, <4>2
    <3> HIDE DEF first
    <3> QED BY <1>2, <1>8, <3>1, <3>2, <3>3
  <2>2. CASE ~\E k \in above : level[k] = "cite"
    BY <1>2, <1>4, <2>2
  <2> QED BY <2>1, <2>2
<1> HIDE DEF first
<1>10. QuotedNodes(level, first, j)
  BY <1>2, <1>3, <1>9 DEF QuotedNodes
<1>11. first \in DOMAIN level /\ j \in DOMAIN level /\ first <= j
  BY <1>1, <1>2, <1>9
<1> QED BY <1>4, <1>5, <1>10, <1>11

LEMMA HidesHTML ==
    ASSUME NEW body \in Body, body.html, ElideQuotedReplyBody(body) # body
    PROVE  /\ body.balanced
           /\ \E d \in DOMAIN body.parts : \E i, j \in DOMAIN body.parts[d] :
                 /\ ElideQuotedReplyBody(body).parts =
                        Append(SubSeq(body.parts, 1, d - 1),
                               SubSeq(body.parts[d], 1, i - 1) \o <<"elided">>
                                   \o SubSeq(body.parts[d], j + 1, Len(body.parts[d])))
                 /\ i <= j /\ QuotedNodes(body.parts[d], i, j)
<1> DEFINE spine == body.parts
           read == ElideQuotedReplyBody(body)
           deep == {d \in DOMAIN spine : Divider(spine[d]) # {} \/ TerminalQuote(spine[d]) # {}}
           d == CHOOSE e \in deep : \A f \in deep : e <= f
<1>1. body \in [html : {TRUE}, parts : Seq(Seq(NodeKind)), balanced : BOOLEAN]
  BY DEF Body
<1>2. read = [body EXCEPT !.parts = ElideHTML(spine, body.balanced)]
  BY <1>1 DEF ElideQuotedReplyBody
<1>3. read.parts = ElideHTML(spine, body.balanced) /\ spine \in Seq(Seq(NodeKind))
  BY <1>1, <1>2
<1>4. ElideHTML(spine, body.balanced) # spine
  BY <1>1, <1>2
<1> HIDE DEF spine, read
<1>5. deep # {} /\ body.balanced
  BY <1>4 DEF ElideHTML
<1>6. read.parts = Append(SubSeq(spine, 1, d - 1), Cut(spine[d]))
  BY <1>3, <1>5 DEF ElideHTML
<1>7. d \in deep
  <2>1. deep \in SUBSET Nat
    BY <1>3
  <2> HIDE DEF deep
  <2>2. \E e \in deep : \A f \in deep : e <= f
    BY <1>5, <2>1, LeastNatural
  <2> QED BY <2>2
<1> HIDE DEF d
<1>8. /\ d \in DOMAIN spine /\ spine[d] \in Seq(NodeKind)
      /\ Divider(spine[d]) # {} \/ TerminalQuote(spine[d]) # {}
  BY <1>3, <1>7
<1> HIDE DEF deep
<1>9. \E i, j \in DOMAIN spine[d] :
         /\ Cut(spine[d]) = SubSeq(spine[d], 1, i - 1) \o <<"elided">>
                               \o SubSeq(spine[d], j + 1, Len(spine[d]))
         /\ i <= j /\ QuotedNodes(spine[d], i, j)
  <2>1. CASE Divider(spine[d]) # {}
    BY <1>8, <2>1, DividerCut
  <2>2. CASE Divider(spine[d]) = {}
    <3>1. PICK j \in TerminalQuote(spine[d]) : TRUE
      BY <1>8, <2>2
    <3> QED BY <1>8, <2>2, <3>1, QuoteCut
  <2> QED BY <2>1, <2>2
<1> QED BY <1>5, <1>6, <1>8, <1>9 DEF spine, read

(* Whatever a body looks like, reading it hides quoted history or nothing. *)
LEMMA HidesHistoryOnly ==
    ASSUME NEW body \in Body
    PROVE  HidesHistory(body)
BY HidesPlain, HidesHTML DEF HidesHistory, Body

-----------------------------------------------------------------------------
(* The header lines of a block that is found below a text are in the text. *)
LEMMA BlockKept ==
    ASSUME NEW lines \in Seq(TextLine), NEW text \in Seq(TextLine), NEW start \in Nat,
           Len(text) <= Len(lines), start > 0,
           \A j \in 1..Len(text) : lines[j] = text[j],
           \A j \in (Len(text) + 1)..Len(lines) : ~(lines[j].q = 0 /\ lines[j].k \in HeaderKind),
           HasReplyHeaderBlock(lines, start), NEW name \in Headed
    PROVE  \E j \in start..Len(text) : Is(text[j], name)
<1>1. PICK first \in start..Len(lines) : \E last \in first..Len(lines) :
         /\ \A j \in first..last : lines[j].q = 0 /\ lines[j].k \in HeaderKind
         /\ Headed \subseteq {lines[j].k : j \in first..last}
  BY DEF HasReplyHeaderBlock, Headed
<1>2. PICK last \in first..Len(lines) :
         /\ \A j \in first..last : lines[j].q = 0 /\ lines[j].k \in HeaderKind
         /\ Headed \subseteq {lines[j].k : j \in first..last}
  BY <1>1
<1>3. PICK j \in first..last : lines[j].k = name
  BY <1>2
<1>4. Len(text) \in Nat /\ Len(lines) \in Nat /\ j \in start..Len(lines)
  BY <1>1, <1>2, <1>3
<1>5. lines[j].q = 0 /\ lines[j].k \in HeaderKind
  BY <1>2, <1>3
<1>6. j \in start..Len(text)
  BY <1>4, <1>5
<1> QED BY <1>3, <1>4, <1>5, <1>6 DEF Is

LEMMA ConcatIs ==
    ASSUME NEW S, NEW s \in Seq(S), NEW t \in Seq(S)
    PROVE  /\ s \o t \in Seq(S) /\ Len(s \o t) = Len(s) + Len(t)
           /\ \A i \in 1..Len(s) : (s \o t)[i] = s[i]
           /\ \A i \in 1..Len(t) : (s \o t)[Len(s) + i] = t[i]
OBVIOUS

LEMMA ReadsBackPlain ==
    ASSUME NEW text \in Body, NEW source \in Body, ~text.html,
           ~LooksQuoted(text), SourceShows(source)
    PROVE  ElideQuotedReplyBody(WithQuote(text, source)).parts = Elided(text)
<1> DEFINE own == IF Empty(text) THEN <<>> ELSE Append(text.parts, Line("blank"))
           shown == AsLines(source)
           quoted == QuotePlain(shown)
           lines == own \o <<Line("attribution"), Line("blank")>> \o quoted
           T == text.parts
           n == Len(own)
           a == n + 1
<1>1. text \in [html : {FALSE}, parts : Seq(TextLine), balanced : BOOLEAN]
  BY DEF Body
<1>2. T \in Seq(TextLine) /\ Len(T) \in Nat
  BY <1>1
<1>3. /\ Line("attribution") \in TextLine /\ Line("blank") \in TextLine
      /\ Line("text") \in TextLine
  BY DEF Line, TextLine, LineKind
<1>4. /\ own \in Seq(TextLine) /\ n \in Nat
      /\ \A i \in 1..n : \/ i \in 1..Len(T) /\ own[i] = T[i] /\ i < n
                         \/ i = n /\ own[i] = Line("blank")
      /\ Len(T) <= n /\ (n > 0 => own[n] = Line("blank"))
      /\ \A i \in 1..Len(T) : own[i] = T[i]
  <2>1. CASE Empty(text)
    BY <2>1 DEF Empty
  <2>2. CASE ~Empty(text)
    BY <1>2, <1>3, <2>2 DEF Empty
  <2> QED BY <2>1, <2>2
<1>5. shown \in Seq(TextLine)
  <2>1. CASE source.html
    <3>1. shown = <<Line("text")>>
      BY <2>1 DEF AsLines
    <3> QED BY <1>3, <3>1
  <2>2. CASE ~source.html
    BY <2>2 DEF AsLines, Body
  <2> QED BY <2>1, <2>2
<1>6. PICK s \in DOMAIN shown : shown[s].k # "blank"
  BY DEF SourceShows
<1>7. /\ quoted \in Seq(TextLine) /\ Len(quoted) = Len(shown) /\ Len(shown) \in Nat
      /\ s \in 1..Len(quoted) /\ quoted[s].k # "blank"
      /\ \A i \in 1..Len(quoted) : quoted[i].q > 0
  <2>1. /\ Len(shown) \in Nat /\ DOMAIN shown = 1..Len(shown)
        /\ \A i \in 1..Len(shown) : shown[i] \in TextLine
    BY <1>5
  <2> HIDE DEF shown
  <2>2. ASSUME NEW l \in TextLine
        PROVE  LET m == [l EXCEPT !.q = @ + 1] IN m \in TextLine /\ m.q > 0 /\ m.k = l.k
    BY DEF TextLine
  <2>3. quoted = [i \in 1..Len(shown) |-> [shown[i] EXCEPT !.q = @ + 1]]
    BY <2>1 DEF QuotePlain
  <2> HIDE DEF quoted
  <2>4. \A i \in 1..Len(shown) : quoted[i] \in TextLine /\ quoted[i].q > 0 /\ quoted[i].k = shown[i].k
    BY <2>1, <2>2, <2>3
  <2>5. quoted \in [1..Len(shown) -> TextLine]
    BY <2>3, <2>4
  <2>6. quoted \in Seq(TextLine) /\ Len(quoted) = Len(shown)
    BY <2>1, <2>5
  <2> QED BY <1>6, <2>1, <2>4, <2>6
<1> HIDE DEF own, quoted, shown
<1>8. /\ lines \in Seq(TextLine) /\ Len(lines) = n + 2 + Len(quoted)
      /\ \A i \in 1..n : lines[i] = own[i]
      /\ lines[n + 1] = Line("attribution") /\ lines[n + 2] = Line("blank")
      /\ \A i \in 1..Len(quoted) : lines[n + 2 + i] = quoted[i]
  <2> DEFINE two == <<Line("attribution"), Line("blank")>>
  <2>1. two \in Seq(TextLine) /\ Len(two) = 2 /\ two[1] = Line("attribution") /\ two[2] = Line("blank")
    BY <1>3
  <2> HIDE DEF two
  <2>2. lines = (own \o two) \o quoted
    BY DEF two
  <2> HIDE DEF lines, n
  <2> DEFINE head == own \o two
  <2>3. /\ head \in Seq(TextLine) /\ Len(head) = Len(own) + 2
        /\ \A i \in 1..Len(own) : head[i] = own[i]
        /\ \A i \in 1..2 : head[Len(own) + i] = two[i]
    <3>1. own \in Seq(TextLine) /\ two \in Seq(TextLine)
      BY <1>4, <2>1
    <3>2. Len(two) = 2
      BY <2>1
    <3> QED BY <3>1, <3>2, ConcatIs
  <2>4. lines = head \o quoted
    BY <2>2
  <2> HIDE DEF head
  <2>5. /\ head \in Seq(TextLine) /\ Len(head) = n + 2
        /\ \A i \in 1..n : head[i] = own[i]
        /\ head[n + 1] = Line("attribution") /\ head[n + 2] = Line("blank")
    BY <2>1, <2>3 DEF n
  <2>6. /\ head \o quoted \in Seq(TextLine) /\ Len(head \o quoted) = n + 2 + Len(quoted)
        /\ \A i \in 1..(n + 2) : (head \o quoted)[i] = head[i]
        /\ \A i \in 1..Len(quoted) : (head \o quoted)[n + 2 + i] = quoted[i]
    <3>1. /\ head \o quoted \in Seq(TextLine) /\ Len(head \o quoted) = Len(head) + Len(quoted)
          /\ \A i \in 1..Len(head) : (head \o quoted)[i] = head[i]
          /\ \A i \in 1..Len(quoted) : (head \o quoted)[Len(head) + i] = quoted[i]
      <4>1. head \in Seq(TextLine) /\ quoted \in Seq(TextLine)
        BY <1>7, <2>5
      <4> QED BY <4>1, ConcatIs
    <3>2. Len(head) = n + 2
      BY <2>5
    <3> QED BY <3>1, <3>2
  <2> QED BY <1>4, <2>4, <2>5, <2>6
<1>9. \A i \in (n + 3)..Len(lines) : lines[i].q > 0
  <2> SUFFICES ASSUME NEW i \in (n + 3)..Len(lines) PROVE lines[i].q > 0
    OBVIOUS
  <2>1. i - n - 2 \in 1..Len(quoted) /\ i = n + 2 + (i - n - 2)
    BY <1>4, <1>7, <1>8
  <2> QED BY <1>7, <1>8, <2>1
<1> HIDE DEF n, lines, T
<1>10. \A i \in 1..Len(T) : lines[i] = T[i]
  BY <1>2, <1>4, <1>8
<1>11. \A i \in (Len(T) + 1)..Len(lines) :
          \/ lines[i] = Line("blank") \/ lines[i] = Line("attribution") \/ lines[i].q > 0
  <2> SUFFICES ASSUME NEW i \in (Len(T) + 1)..Len(lines)
               PROVE  \/ lines[i] = Line("blank") \/ lines[i] = Line("attribution")
                      \/ lines[i].q > 0
    OBVIOUS
  <2>1. i \in 1..n \/ i = n + 1 \/ i = n + 2 \/ i \in (n + 3)..Len(lines)
    BY <1>2, <1>4, <1>7, <1>8
  <2>2. CASE i \in 1..n
    BY <1>2, <1>4, <1>8, <2>2
  <2> QED BY <1>8, <1>9, <2>1, <2>2
<1>12. ~HasTopLevelForwardedMessage(lines)
  <2> SUFFICES ASSUME NEW i \in DOMAIN lines, Is(lines[i], "forwarded") PROVE FALSE
    BY DEF HasTopLevelForwardedMessage
  <2>1. i \in 1..Len(T) \/ i \in (Len(T) + 1)..Len(lines)
    BY <1>2, <1>8
  <2>2. CASE i \in 1..Len(T)
    <3>1. i \in DOMAIN T /\ Is(T[i], "forwarded")
      BY <1>2, <1>10, <2>2
    <3> QED BY <3>1 DEF LooksQuoted, T
  <2>3. CASE i \in (Len(T) + 1)..Len(lines)
    BY <1>11, <2>3 DEF Is, Line
  <2> QED BY <2>1, <2>2, <2>3
<1>13. a \in HistoryStarts(lines)
  <2>1. a \in DOMAIN lines /\ Is(lines[a], "attribution")
    BY <1>4, <1>7, <1>8 DEF Is, Line
  <2>2. AttributionEnds(lines, a) = {a}
    BY <2>1 DEF AttributionEnds
  <2>3. \A j \in (a + 1)..Len(lines) : Blank(lines[j]) \/ Quoted(lines[j])
    <3> SUFFICES ASSUME NEW j \in (a + 1)..Len(lines) PROVE Blank(lines[j]) \/ Quoted(lines[j])
      OBVIOUS
    <3>1. j = n + 2 \/ j \in (n + 3)..Len(lines)
      BY <1>4, <1>8
    <3> QED BY <1>8, <1>9, <3>1 DEF Blank, Quoted, Line
  <2>4. n + 2 + s \in (a + 1)..Len(lines) /\ Quoted(lines[n + 2 + s]) /\ lines[n + 2 + s].k # "blank"
    <3>1. lines[n + 2 + s] = quoted[s]
      BY <1>7, <1>8
    <3> QED BY <1>4, <1>7, <1>8, <3>1 DEF Quoted
  <2>5. HasQuotedSuffix(lines, a)
    BY <2>3, <2>4 DEF HasQuotedSuffix
  <2> QED BY <2>1, <2>2, <2>5 DEF HistoryStarts
<1>14. \A i \in HistoryStarts(lines) : a <= i
  <2> SUFFICES ASSUME NEW i \in HistoryStarts(lines), i < a PROVE FALSE
    BY <1>4, <1>8 DEF HistoryStarts
  <2>1. i \in 1..n /\ i \in DOMAIN lines
    BY <1>4, <1>8 DEF HistoryStarts
  <2>2. lines[n] = Line("blank") /\ n > 0
    BY <1>4, <1>8, <2>1
  <2>3. ASSUME NEW e \in AttributionEnds(lines, i), HasQuotedSuffix(lines, e) PROVE FALSE
    <3>1. \/ e = i /\ Is(lines[i], "attribution")
          \/ /\ Is(lines[i], "on") /\ e \in (i + 1)..(i + 2) /\ e <= Len(lines)
             /\ Is(lines[e], "wrote") \/ Is(lines[e], "attribution")
             /\ \A j \in (i + 1)..e : ~Blank(lines[j])
      BY <1>8, <2>1, <2>3, AttributionIs
    <3>2. CASE e < a
      <4>1. e \in Int /\ a \in (e + 1)..Len(lines)
        BY <1>4, <1>7, <1>8, <2>1, <3>1, <3>2
      <4>2. Blank(lines[a]) \/ Quoted(lines[a])
        BY <2>3, <4>1 DEF HasQuotedSuffix
      <4> QED BY <1>8, <4>2 DEF Blank, Quoted, Line
    <3>3. CASE e >= a
      <4>1. Is(lines[i], "on") /\ e \in (i + 1)..(i + 2) /\ \A j \in (i + 1)..e : ~Blank(lines[j])
        BY <1>4, <2>1, <3>1, <3>3
      <4>2. i # n
        BY <2>2, <4>1 DEF Is, Line
      <4>3. n \in (i + 1)..e
        BY <1>4, <2>1, <3>3, <4>1, <4>2
      <4> QED BY <2>2, <4>1, <4>3 DEF Blank, Line
    <3> QED BY <1>4, <2>1, <3>1, <3>2, <3>3
  <2>4. ASSUME Is(lines[i], "marker"), HasReplyHeaderBlock(lines, i + 1) PROVE FALSE
    <3>1. i \in 1..Len(T) /\ lines[i] = T[i]
      <4>1. lines[i] # Line("blank")
        BY <2>4 DEF Is, Line
      <4> QED BY <1>4, <1>8, <2>1, <4>1
    <3>2. \A j \in (Len(T) + 1)..Len(lines) : ~(lines[j].q = 0 /\ lines[j].k \in HeaderKind)
      BY <1>11 DEF Line, HeaderKind
    <3>3. Len(T) <= Len(lines)
      BY <1>2, <1>4, <1>7, <1>8
    <3>4. \A name \in Headed : \E j \in (i + 1)..Len(T) : Is(T[j], name)
      BY <1>2, <1>8, <1>10, <2>1, <2>4, <3>2, <3>3, BlockKept
    <3>5. i \in DOMAIN T /\ Is(T[i], "marker")
      BY <1>2, <2>4, <3>1
    <3> QED BY <3>4, <3>5 DEF LooksQuoted, T
  <2> QED BY <2>3, <2>4 DEF HistoryStarts
<1>15. ElidePlain(lines) = Append(SubSeq(lines, 1, n), Line("elided"))
  <2>1. ElidePlain(lines) = Append(SubSeq(lines, 1, a - 1), Line("elided"))
    BY <1>8, <1>12, <1>13, <1>14, ElidePlainIs
  <2> QED BY <1>4, <2>1
<1>16. SubSeq(lines, 1, n) = own
  BY <1>4, <1>7, <1>8 DEF n
<1>17. WithQuote(text, source) = [text EXCEPT !.parts = lines]
  BY DEF WithQuote, lines, own, quoted, shown
<1>18. ElideQuotedReplyBody(WithQuote(text, source)).parts = ElidePlain(lines)
  BY <1>1, <1>17 DEF ElideQuotedReplyBody
<1>19. Elided(text) = own \o <<Line("elided")>>
  BY DEF Elided, own
<1>20. Append(own, Line("elided")) = own \o <<Line("elided")>>
  BY <1>4
<1> QED BY <1>15, <1>16, <1>18, <1>19, <1>20

LEMMA ReadsBackHTML ==
    ASSUME NEW text \in Body, NEW source \in Body, text.html, ~LooksQuoted(text)
    PROVE  ElideQuotedReplyBody(WithQuote(text, source)).parts = Elided(text)
<1> DEFINE own == IF Empty(text) THEN <<>> ELSE Append(text.parts[1], "space")
           level == own \o <<"quote">>
           m == Len(own) + 1
<1>1. text \in [html : {TRUE}, parts : Seq(Seq(NodeKind)), balanced : BOOLEAN]
  BY DEF Body
<1>2. own \in Seq(NodeKind) /\ \A i \in 1..Len(own) : own[i] \notin {"rule", "cite"}
  <2>1. CASE Empty(text)
    BY <2>1
  <2>2. CASE ~Empty(text)
    <3>1. 1 \in DOMAIN text.parts /\ text.parts[1] \in Seq(NodeKind)
      BY <1>1, <2>2 DEF Empty
    <3> DEFINE first == text.parts[1]
    <3>2. \A i \in DOMAIN first : first[i] \notin {"rule", "cite"}
      BY <3>1 DEF LooksQuoted
    <3>3. own = Append(first, "space")
      BY <2>2
    <3> HIDE DEF first, own
    <3>4. first \in Seq(NodeKind) /\ "space" \in NodeKind
      BY <3>1 DEF first, NodeKind
    <3> QED BY <3>2, <3>3, <3>4
  <2> QED BY <2>1, <2>2
<1>3. text.balanced
  BY DEF LooksQuoted
<1> HIDE DEF own
<1>4. /\ level \in Seq(NodeKind) /\ Len(level) = m /\ m \in Nat /\ m > 0
      /\ \A i \in 1..(m - 1) : level[i] = own[i]
      /\ level[m] = "quote"
  <2> DEFINE quote == <<"quote">>
  <2>1. quote \in Seq(NodeKind) /\ Len(quote) = 1 /\ quote[1] = "quote"
    BY DEF NodeKind
  <2> HIDE DEF quote
  <2>2. /\ own \o quote \in Seq(NodeKind) /\ Len(own \o quote) = Len(own) + Len(quote)
        /\ \A i \in 1..Len(own) : (own \o quote)[i] = own[i]
        /\ \A i \in 1..Len(quote) : (own \o quote)[Len(own) + i] = quote[i]
    BY <1>2, <2>1, ConcatIs
  <2>3. level = own \o quote
    BY DEF quote
  <2>4. Len(own) \in Nat
    BY <1>2
  <2> HIDE DEF level
  <2> QED BY <2>1, <2>2, <2>3, <2>4
<1> HIDE DEF level, m
<1>5. \A i \in DOMAIN level : level[i] \notin {"rule", "cite"}
  <2> SUFFICES ASSUME NEW i \in DOMAIN level PROVE level[i] \notin {"rule", "cite"}
    OBVIOUS
  <2>1. i = m \/ i \in 1..(m - 1)
    BY <1>4
  <2>2. m - 1 = Len(own)
    BY <1>2 DEF m
  <2> QED BY <1>2, <1>4, <2>1, <2>2
<1>6. Divider(level) = {}
  BY <1>5 DEF Divider, Meaningful
<1>7. LastNode(level) = {m} /\ TerminalQuote(level) = {m}
  <2>1. m \in Meaningful(level) /\ \A j \in Meaningful(level) : j \in Int /\ j <= m
    BY <1>4 DEF Meaningful
  <2>2. LastNode(level) = {m}
    <3>1. m \in LastNode(level)
      BY <2>1 DEF LastNode
    <3>2. ASSUME NEW i \in LastNode(level) PROVE i = m
      <4>1. i \in Int /\ i <= m /\ m <= i
        BY <2>1 DEF LastNode
      <4> QED BY <1>4, <4>1
    <3> QED BY <3>1, <3>2
  <2> QED BY <1>4, <2>2 DEF TerminalQuote
<1>8. SubSeq(level, 1, m - 1) = own
  BY <1>2, <1>4 DEF m
<1>9. Cut(level) = own \o <<"elided">>
  <2> DEFINE i == CHOOSE k \in TerminalQuote(level) : TRUE
             above == LastNode(SubSeq(level, 1, i - 1))
             first == IF \E k \in above : level[k] = "cite" THEN CHOOSE k \in above : TRUE ELSE i
  <2>1. i = m
    BY <1>7
  <2>2. above \subseteq DOMAIN own
    BY <1>8, <2>1 DEF LastNode, Meaningful
  <2>3. \A k \in above : level[k] # "cite"
    <3>1. DOMAIN own \subseteq DOMAIN level
      BY <1>2, <1>4 DEF m
    <3> QED BY <1>5, <2>2, <3>1
  <2>4. first = m
    BY <2>1, <2>3
  <2>5. Cut(level) = SubSeq(level, 1, first - 1) \o <<"elided">> \o SubSeq(level, i + 1, Len(level))
    BY <1>6 DEF Cut
  <2>6. SubSeq(level, m + 1, Len(level)) = <<>>
    BY <1>4
  <2> HIDE DEF i, above, first
  <2>7. Cut(level) = (own \o <<"elided">>) \o <<>>
    BY <1>8, <2>1, <2>4, <2>5, <2>6
  <2>8. own \o <<"elided">> \in Seq(NodeKind)
    BY <1>2 DEF NodeKind
  <2> QED BY <2>7, <2>8
<1>10. ElideHTML(<<level>>, TRUE) = <<Cut(level)>>
  <2> DEFINE spine == <<level>>
             deep == {d \in DOMAIN spine : Divider(spine[d]) # {} \/ TerminalQuote(spine[d]) # {}}
             d == CHOOSE e \in deep : \A f \in deep : e <= f
  <2>1. DOMAIN spine = {1} /\ spine[1] = level
    OBVIOUS
  <2>2. deep = {1}
    BY <1>7, <2>1
  <2>3. d = 1
    BY <2>2
  <2>4. ElideHTML(spine, TRUE) = Append(SubSeq(spine, 1, d - 1), Cut(spine[d]))
    BY <2>2 DEF ElideHTML
  <2>5. SubSeq(spine, 1, 0) = <<>>
    OBVIOUS
  <2> HIDE DEF spine, deep, d
  <2>6. SubSeq(spine, 1, d - 1) = <<>>
    <3>1. d - 1 = 0
      BY <2>3
    <3> QED BY <2>5, <3>1
  <2>7. spine[d] = level
    BY <2>1, <2>3
  <2>8. ElideHTML(spine, TRUE) = Append(<<>>, Cut(level))
    BY <2>4, <2>6, <2>7
  <2>9. Append(<<>>, Cut(level)) = <<Cut(level)>>
    OBVIOUS
  <2> QED BY <2>8, <2>9 DEF spine
<1>11. WithQuote(text, source) = [text EXCEPT !.parts = <<level>>]
  BY DEF WithQuote, QuoteHTML, level, own
<1>12. ElideQuotedReplyBody(WithQuote(text, source)).parts = ElideHTML(<<level>>, TRUE)
  BY <1>1, <1>3, <1>11 DEF ElideQuotedReplyBody
<1>13. Elided(text) = <<own \o <<"elided">>>>
  BY DEF Elided, own
<1> QED BY <1>9, <1>10, <1>12, <1>13
=============================================================================
