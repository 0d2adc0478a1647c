-------------------------- MODULE HttpServerProofs --------------------------
(***************************************************************************)
(* HttpParser, for every request: the loop over the header lines never     *)
(* steps over its end, whatever part of whatever request was received,     *)
(* with whatever behind it (ParserInv); and of a request that arrived      *)
(* whole it makes what its peer wrote, without an exception (WholeInv).    *)
(* If that is a task, CreateTask finds its fields in the decoded form, and *)
(* the response its peer decodes is the result of that task.               *)
(***************************************************************************)
EXTENDS HttpServer, TextProofs

\* Where a line break begins, and where an empty line does.
LEMMA HitsOfBreaks ==
  ASSUME NEW s \in Seq(Byte), NEW pos \in Nat, NEW i
  PROVE  /\ i \in Hits(s, Crlf, pos) <=>
              i \in Nat /\ i >= pos /\ i + 2 <= Len(s) /\ s[i + 1] = Cr /\ s[i + 2] = Lf
         /\ i \in Hits(s, Crlf \o Crlf, pos) <=>
              /\ i \in Nat /\ i >= pos /\ i + 4 <= Len(s)
              /\ s[i + 1] = Cr /\ s[i + 2] = Lf /\ s[i + 3] = Cr /\ s[i + 4] = Lf
  <1>1. /\ Len(s) \in Nat
        /\ Crlf \in Seq(Byte) /\ Len(Crlf) = 2 /\ Crlf[1] = Cr /\ Crlf[2] = Lf
        /\ Crlf \o Crlf \in Seq(Byte) /\ Len(Crlf \o Crlf) = 4
        /\ (Crlf \o Crlf)[1] = Cr /\ (Crlf \o Crlf)[2] = Lf
        /\ (Crlf \o Crlf)[3] = Cr /\ (Crlf \o Crlf)[4] = Lf
    BY LenProperties DEF Crlf, Cr, Lf, Byte
  <1>2. ASSUME NEW j \in Nat, NEW n \in Nat, j + n <= Len(s)
        PROVE  /\ SubSeq(s, j + 1, j + n) \in Seq(Byte)
               /\ Len(SubSeq(s, j + 1, j + n)) = n
               /\ \A k \in 1 .. n : SubSeq(s, j + 1, j + n)[k] = s[j + k]
    <2>1. \A k \in j + 1 .. j + n : s[k] \in Byte
      BY <1>1, <1>2, ElementOfSeq
    <2> QED
      BY <1>2, <2>1, SubSeqProperties
  <1>3. ASSUME i \in Nat, i + 2 <= Len(s)
        PROVE  SubSeq(s, i + 1, i + 2) = Crlf <=> s[i + 1] = Cr /\ s[i + 2] = Lf
    <2> DEFINE t == SubSeq(s, i + 1, i + 2)
    <2>1. t \in Seq(Byte) /\ Len(t) = 2 /\ t[1] = s[i + 1] /\ t[2] = s[i + 2]
      BY <1>2, <1>3
    <2> HIDE DEF t
    <2>2. ASSUME t[1] = Cr, t[2] = Lf
          PROVE  t = Crlf
      <3>1. \A k \in 1 .. 2 : t[k] = Crlf[k]
        BY <1>1, <2>2
      <3> QED
        BY <1>1, <2>1, <3>1, SeqEqual
    <2> QED
      BY <1>1, <2>1, <2>2 DEF t
  <1>4. ASSUME i \in Nat, i + 4 <= Len(s)
        PROVE  SubSeq(s, i + 1, i + 4) = Crlf \o Crlf <=>
                 s[i + 1] = Cr /\ s[i + 2] = Lf /\ s[i + 3] = Cr /\ s[i + 4] = Lf
    <2> DEFINE t == SubSeq(s, i + 1, i + 4)
               cc == Crlf \o Crlf
    <2>1. /\ t \in Seq(Byte) /\ Len(t) = 4 /\ t[1] = s[i + 1] /\ t[2] = s[i + 2]
          /\ t[3] = s[i + 3] /\ t[4] = s[i + 4]
      BY <1>2, <1>4
    <2>2. cc \in Seq(Byte) /\ Len(cc) = 4 /\ cc[1] = Cr /\ cc[2] = Lf /\ cc[3] = Cr /\ cc[4] = Lf
      BY <1>1
    <2> HIDE DEF t, cc
    <2>3. ASSUME t[1] = Cr, t[2] = Lf, t[3] = Cr, t[4] = Lf
          PROVE  t = cc
      <3>1. \A k \in 1 .. 4 : t[k] = cc[k]
        BY <2>2, <2>3
      <3> QED
        BY <2>1, <2>2, <3>1, SeqEqual
    <2> QED
      BY <2>1, <2>2, <2>3 DEF t, cc
  <1>5. i \in Hits(s, Crlf, pos) <=> i \in pos .. Len(s) - 2 /\ SubSeq(s, i + 1, i + 2) = Crlf
    BY <1>1 DEF Hits
  <1>6. i \in Hits(s, Crlf \o Crlf, pos) <=>
          i \in pos .. Len(s) - 4 /\ SubSeq(s, i + 1, i + 4) = Crlf \o Crlf
    BY <1>1 DEF Hits
  <1>7. /\ i \in pos .. Len(s) - 2 <=> i \in Nat /\ i >= pos /\ i + 2 <= Len(s)
        /\ i \in pos .. Len(s) - 4 <=> i \in Nat /\ i >= pos /\ i + 4 <= Len(s)
    BY <1>1
  <1> QED
    BY <1>3, <1>4, <1>5, <1>6, <1>7

\* Where an empty line begins, a line break begins; and no line break begins
\* one byte behind another.
LEMMA LineBreaks ==
  ASSUME NEW s \in Seq(Byte), NEW pos \in Nat
  PROVE  /\ \A i \in Hits(s, Crlf \o Crlf, pos) : i \in Hits(s, Crlf, pos)
         /\ \A i \in Hits(s, Crlf, pos) : i + 1 \notin Hits(s, Crlf, pos)
  <1>1. \A i \in Hits(s, Crlf \o Crlf, pos) : i \in Hits(s, Crlf, pos)
    <2> SUFFICES ASSUME NEW i \in Hits(s, Crlf \o Crlf, pos)
                 PROVE  i \in Hits(s, Crlf, pos)
      OBVIOUS
    <2>1. i \in Nat /\ i >= pos /\ i + 4 <= Len(s) /\ s[i + 1] = Cr /\ s[i + 2] = Lf
      BY HitsOfBreaks
    <2>2. i + 2 <= Len(s)
      BY <2>1, LenProperties
    <2> QED
      BY <2>1, <2>2, HitsOfBreaks
  <1>2. ASSUME NEW i \in Hits(s, Crlf, pos), i + 1 \in Hits(s, Crlf, pos)
        PROVE  FALSE
    <2>1. i \in Nat /\ s[i + 2] = Lf
      BY HitsOfBreaks
    <2>2. s[(i + 1) + 1] = Cr
      BY <1>2, HitsOfBreaks
    <2>3. (i + 1) + 1 = i + 2 /\ Cr # Lf
      BY <2>1 DEF Cr, Lf
    <2> QED
      BY <2>1, <2>2, <2>3
  <1> QED
    BY <1>1, <1>2
------------------------------------------------------------------------------
\* What was received is a text; and while the header lines are parsed, the last
\* line break found is at or before the empty line, if there is one.
ParserInv ==
  /\ data \in Seq(Byte) /\ Len(data) < NPos
  /\ stage = "headers" =>
       \/ pos_crlfcrlf = NPos /\ prev \in {0, NPos} \cup Hits(data, Crlf, 0)
       \/ /\ pos_crlfcrlf \in Hits(data, Crlf \o Crlf, 0)
          /\ prev \in Hits(data, Crlf, 0)
          /\ prev <= pos_crlfcrlf

\* What stands before the first NUL is the beginning of a text.
LEMMA BeforeNul ==
  ASSUME NEW text \in Seq(Byte)
  PROVE  \E n \in 0 .. Len(text) : UpToNul(text) = SubSeq(text, 1, n)
  <1> DEFINE ends == {i \in DOMAIN text : text[i] = 0} \cup {Len(text) + 1}
  <1>1. DOMAIN text = 1 .. Len(text) /\ Len(text) \in Nat
    BY LenProperties
  <1>2. ends \in SUBSET (1 .. Len(text) + 1) /\ ends # {} /\ ends \in SUBSET Nat
    BY <1>1
  <1>3. UpToNul(text) = SubSeq(text, 1, Min(ends) - 1)
    BY DEF UpToNul
  <1> HIDE DEF ends
  <1>4. Min(ends) \in 1 .. Len(text) + 1
    BY <1>2, MinOfNats
  <1>5. Min(ends) - 1 \in 0 .. Len(text)
    BY <1>1, <1>4
  <1> QED
    BY <1>3, <1>5

\* The beginning of a text is a text.
LEMMA TextBegins ==
  ASSUME NEW text \in Seq(Byte), NEW n \in 0 .. Len(text)
  PROVE  SubSeq(text, 1, n) \in Seq(Byte) /\ Len(SubSeq(text, 1, n)) = n
  <1>1. n \in Nat /\ \A i \in 1 .. n : text[i] \in Byte
    <2>1. \A i \in 1 .. n : i \in 1 .. Len(text)
      BY LenProperties
    <2> QED
      BY <2>1, LenProperties, ElementOfSeq
  <1> QED
    BY <1>1, SubSeqProperties

\* A message is a text shorter than npos.
LEMMA ReceiveText ==
  ASSUME ParserInv, RecvRequestData
  PROVE  data' \in Seq(Byte) /\ Len(data') < NPos
  <1>1. PICK r \in Requests, n \in Nat :
          n <= Len(Texts[r]) /\ data' \in Appended(Texts[r], n)
    <2>1. PICK r \in Requests : \E n \in Cuts \cup {Len(Texts[r]), BufferSize} :
            n <= Len(Texts[r]) /\ data' \in Appended(Texts[r], n)
      BY DEF RecvRequestData
    <2>2. Len(Texts[r]) \in Nat
      BY TextsFit, LenProperties
    <2> QED
      BY <2>1, <2>2, TextsFit
  <1>2. PICK junk \in Junk \cup {<<>>} : data' = UpToNul(SubSeq(Texts[r], 1, n) \o junk)
    BY <1>1 DEF Appended
  <1>3. /\ Texts[r] \in Seq(Byte) /\ junk \in Seq(Byte)
        /\ Len(Texts[r]) + Len(junk) < NPos
    BY TextsFit
  <1>4. Len(Texts[r]) \in Nat /\ Len(junk) \in Nat
    BY <1>3, LenProperties
  <1>5. SubSeq(Texts[r], 1, n) \in Seq(Byte) /\ Len(SubSeq(Texts[r], 1, n)) = n
    <2>1. n \in 0 .. Len(Texts[r])
      BY <1>1, <1>4
    <2> QED
      BY <1>3, <2>1, TextBegins
  <1>6. PICK text \in Seq(Byte) :
          text = SubSeq(Texts[r], 1, n) \o junk /\ Len(text) = n + Len(junk)
    <2>1. PICK part \in Seq(Byte) : part = SubSeq(Texts[r], 1, n) /\ Len(part) = n
      BY <1>5
    <2>2. part \o junk \in Seq(Byte) /\ Len(part \o junk) = n + Len(junk)
      BY <1>3, <2>1, ConcatIndex
    <2> QED
      BY <2>1, <2>2
  <1>7. PICK k \in 0 .. Len(text) : data' = SubSeq(text, 1, k)
    BY <1>2, <1>6, BeforeNul
  <1>8. data' \in Seq(Byte) /\ Len(data') = k
    BY <1>7, TextBegins
  <1> QED
    BY <1>1, <1>3, <1>4, <1>6, <1>7, <1>8, NPosIsLarge

\* Both line breaks are looked for from the end of the first line on.
LEMMA LineKeepsEnd ==
  ASSUME ParserInv, ParseLine
  PROVE  ParserInv'
  <1> DEFINE next == Find(data, Crlf, 0)
  <1>1. /\ data' = data /\ stage' = "headers"
        /\ prev' = IF next # NPos THEN next ELSE 0
        /\ pos_crlfcrlf' = Find(data, Crlf \o Crlf, prev')
    BY DEF ParseLine
  <1>2. /\ data \in Seq(Byte) /\ Len(data) < NPos /\ NPos \in Nat /\ Len(data) \in Nat
        /\ Crlf \in Seq(Byte) /\ Crlf \o Crlf \in Seq(Byte)
    BY NPosIsLarge, LenProperties DEF ParserInv, Crlf, Cr, Lf, Byte
  <1>3. prev' \in {0, NPos} \cup Hits(data, Crlf, 0) /\ prev' \in 0 .. NPos
    BY <1>1, <1>2, FindFinds
  <1> DEFINE p == prev'
  <1>4. p \in Nat /\ pos_crlfcrlf' = Find(data, Crlf \o Crlf, p)
    BY <1>1, <1>2, <1>3
  <1>5. /\ Hits(data, Crlf \o Crlf, p) = {} => pos_crlfcrlf' = NPos
        /\ Hits(data, Crlf \o Crlf, p) # {} =>
             pos_crlfcrlf' \in Hits(data, Crlf \o Crlf, p)
    <2> HIDE DEF p
    <2> QED
      BY <1>2, <1>4, FindFinds
  <1>6. CASE Hits(data, Crlf \o Crlf, p) = {}
    BY <1>1, <1>2, <1>3, <1>5, <1>6 DEF ParserInv
  <1>7. CASE Hits(data, Crlf \o Crlf, p) # {}
    <2>1. pos_crlfcrlf' \in Hits(data, Crlf \o Crlf, p)
      BY <1>5, <1>7
    <2>2. /\ pos_crlfcrlf' \in Hits(data, Crlf \o Crlf, 0)
          /\ prev' <= pos_crlfcrlf'
      <3>1. p \in Nat /\ 0 \in Nat /\ Len(data) - Len(Crlf \o Crlf) \in Int /\ p = prev'
        BY <1>2, <1>3, LenProperties
      <3> HIDE DEF p
      <3> QED
        BY <2>1, <3>1 DEF Hits
    <2>3. Hits(data, Crlf, 0) # {}
      BY <1>2, <2>2, LineBreaks
    <2>4. next \in Hits(data, Crlf, 0) /\ next # NPos
      <3>1. next \in Hits(data, Crlf, 0)
        BY <1>2, <2>3, FindFinds
      <3>2. next <= Len(data)
        BY <1>2, <3>1, LenProperties DEF Hits
      <3> QED
        BY <1>2, <3>1, <3>2 DEF Hits
    <2> QED
      BY <1>1, <1>2, <2>2, <2>4 DEF ParserInv
  <1> QED
    BY <1>6, <1>7

\* The next line break is looked for two bytes on: it is not the one before the
\* empty line, nor can the empty line begin in between.
LEMMA HeaderKeepsEnd ==
  ASSUME ParserInv, ParseHeader
  PROVE  /\ ParserInv'
         /\ stage' # "dead" => prev < prev' /\ prev' <= pos_crlfcrlf
  <1>1. /\ stage = "headers" /\ prev # pos_crlfcrlf
        /\ UNCHANGED <<data, pos_crlfcrlf>>
        /\ \/ stage' = "dead"
           \/ prev' = Find(data, Crlf, SizeT(prev + 2))
    BY DEF ParseHeader
  <1>2. /\ data \in Seq(Byte) /\ Len(data) < NPos /\ NPos \in Nat /\ Len(data) \in Nat
        /\ Crlf \in Seq(Byte)
    BY NPosIsLarge, LenProperties DEF ParserInv, Crlf, Cr, Lf, Byte
  <1>3. CASE stage' = "dead"
    BY <1>1, <1>2, <1>3 DEF ParserInv
  <1>4. CASE /\ prev' = Find(data, Crlf, SizeT(prev + 2))
             /\ pos_crlfcrlf = NPos /\ prev \in {0, NPos} \cup Hits(data, Crlf, 0)
    <2>1. prev \in Nat /\ prev + 2 <= NPos
      <3>1. CASE prev = 0
        BY <3>1, NPosIsLarge
      <3>2. CASE prev \in Hits(data, Crlf, 0)
        BY <1>2, <3>2 DEF Hits, Crlf
      <3> QED
        BY <1>1, <1>4, <3>1, <3>2
    <2> DEFINE p == prev + 2
    <2>2. p \in Nat /\ prev' = Find(data, Crlf, p)
      BY <1>2, <1>4, <2>1 DEF SizeT
    <2>3. prev' \in {NPos} \cup Hits(data, Crlf, 0) /\ p <= prev' /\ prev' <= NPos
      <3> HIDE DEF p
      <3>1. CASE Hits(data, Crlf, p) = {}
        <4>1. prev' = NPos
          BY <1>2, <2>2, <3>1, FindFinds
        <4> QED
          BY <1>2, <2>1, <4>1 DEF p
      <3>2. CASE Hits(data, Crlf, p) # {}
        <4>1. prev' \in Hits(data, Crlf, p)
          BY <1>2, <2>2, <3>2, FindFinds
        <4>2. prev' \in Hits(data, Crlf, 0) /\ prev' \in Nat /\ p <= prev' /\ prev' <= Len(data)
          BY <1>2, <2>2, <4>1, HitsBehind
        <4> QED
          BY <1>2, <4>2
      <3> QED
        BY <3>1, <3>2
    <2> QED
      BY <1>1, <1>2, <1>4, <2>1, <2>3 DEF ParserInv
  <1>5. CASE /\ prev' = Find(data, Crlf, SizeT(prev + 2))
             /\ pos_crlfcrlf \in Hits(data, Crlf \o Crlf, 0)
             /\ prev \in Hits(data, Crlf, 0) /\ prev <= pos_crlfcrlf
    <2>1. pos_crlfcrlf \in Hits(data, Crlf, 0) /\ prev + 1 # pos_crlfcrlf
      BY <1>2, <1>5, LineBreaks
    <2>2. /\ prev \in Nat /\ pos_crlfcrlf \in Nat /\ pos_crlfcrlf <= Len(data)
          /\ prev + 2 <= pos_crlfcrlf
      BY <1>1, <1>2, <1>5, <2>1, LenProperties DEF Hits
    <2>3. SizeT(prev + 2) = prev + 2
      BY <1>2, <2>2 DEF SizeT
    <2>4. pos_crlfcrlf \in Hits(data, Crlf, prev + 2)
      BY <1>2, <2>1, <2>2 DEF Hits
    <2> DEFINE p == prev + 2
    <2>5. p \in Nat /\ prev' = Find(data, Crlf, p) /\ pos_crlfcrlf \in Hits(data, Crlf, p)
      BY <1>5, <2>2, <2>3, <2>4
    <2> HIDE DEF p
    <2>6. prev' \in Hits(data, Crlf, p) /\ prev' <= pos_crlfcrlf
      BY <1>2, <2>5, FindFinds
    <2>7. prev' \in Hits(data, Crlf, 0)
      BY <1>2, <2>5, <2>6, HitsBehind
    <2>8. prev < prev'
      BY <1>2, <2>2, <2>5, <2>6, HitsBehind DEF p
    <2> QED
      BY <1>1, <1>2, <1>5, <2>6, <2>7, <2>8 DEF ParserInv
  <1> QED
    BY <1>1, <1>3, <1>4, <1>5 DEF ParserInv

\* It is an invariant.
LEMMA ParserInvariance == Spec => []ParserInv
  <1>1. Init => ParserInv
    BY NPosIsLarge, EmptySeq DEF Init, ParserInv
  <1>2. ParserInv /\ [Next]_vars => ParserInv'
    <2> SUFFICES ASSUME ParserInv, [Next]_vars PROVE ParserInv'
      OBVIOUS
    <2>1. CASE RecvRequestData
      BY <2>1, ReceiveText DEF RecvRequestData, ParserInv
    <2>2. CASE ParseLine \/ ParseHeader
      BY <2>2, LineKeepsEnd, HeaderKeepsEnd
    <2>3. CASE ParseBody \/ DataHandler \/ SendResonseData
      <3>1. data' = data /\ stage' # "headers"
        BY <2>3 DEF ParseBody, DataHandler, SendResonseData
      <3> QED
        BY <3>1 DEF ParserInv
    <2>4. CASE UNCHANGED vars
      BY <2>4 DEF vars, ParserInv
    <2> QED
      BY <2>1, <2>2, <2>3, <2>4 DEF Next, StartHttpServer, HttpParser
  <1> QED
    BY <1>1, <1>2, PTL DEF Spec

\* HttpServer.cpp:42: the loop over the header lines ends only on equality of
\* prev with pos_crlfcrlf, and prev never gets beyond it: whatever was received,
\* each round leads towards the end.
THEOREM EndNotSteppedOver == Spec => []StopsAtTheEnd
  <1>1. ParserInv => StopsAtTheEnd
    <2> SUFFICES ASSUME ParserInv, prev \in Hits(data, Crlf, 0), pos_crlfcrlf = NPos
                 PROVE  prev <= NPos
      BY NPosIsLarge DEF ParserInv, StopsAtTheEnd
    <2>1. Crlf \in Seq(Byte)
      BY DEF Crlf, Cr, Lf, Byte
    <2>2. data \in Seq(Byte) /\ Len(data) < NPos /\ Len(data) \in Nat
      BY LenProperties DEF ParserInv
    <2>3. prev \in Nat /\ prev <= Len(data)
      BY <2>1, <2>2, HitsBehind
    <2> QED
      BY <2>2, <2>3, NPosIsLarge
  <1> QED
    BY <1>1, ParserInvariance, PTL

\* Each round that does not end the process leads from prev to a later line
\* break, at most to the end: so the loop terminates, as the run checks it does.
THEOREM LoopAdvances == Spec => RoundsAdvance
  <1>1. ParserInv /\ [Next]_vars =>
          [stage = "headers" /\ stage' = "headers" =>
             prev < prev' /\ prev' <= pos_crlfcrlf]_vars
    <2> SUFFICES ASSUME ParserInv, Next, stage = "headers", stage' = "headers"
                 PROVE  prev < prev' /\ prev' <= pos_crlfcrlf
      OBVIOUS
    <2>1. ParseHeader
      BY DEF Next, StartHttpServer, HttpParser, RecvRequestData, ParseLine, ParseBody,
             DataHandler, SendResonseData
    <2> QED
      BY <2>1, HeaderKeepsEnd
  <1> QED
    BY <1>1, ParserInvariance, PTL DEF Spec, RoundsAdvance
------------------------------------------------------------------------------
\* What >> extracts behind pos: from the first byte that is no space, up to the
\* space behind it.
LEMMA ExtractWord ==
  ASSUME NEW s \in Seq(Byte), NEW pos \in Nat, NEW old \in Seq(Byte)
  PROVE  /\ Extract(s, pos, old).word \in Seq(Byte) /\ Extract(s, pos, old).pos \in Nat
         /\ \A i \in Nat, j \in Nat :
              /\ pos < i /\ i <= j /\ j <= Len(s)
              /\ \A k \in pos + 1 .. i - 1 : IsSpace(s[k])
              /\ \A k \in i .. j : ~IsSpace(s[k])
              /\ j = Len(s) \/ IsSpace(s[j + 1])
              => /\ Extract(s, pos, old).word = SubSeq(s, i, j)
                 /\ Extract(s, pos, old).pos = j
  <1> DEFINE visible == {i \in pos + 1 .. Len(s) : ~IsSpace(s[i])}
             begin == Min(visible)
             ends == {i \in begin .. Len(s) + 1 : i = Len(s) + 1 \/ IsSpace(s[i])}
             behind == Min(ends)
  <1>1. Len(s) \in Nat
    BY LenProperties
  <1>2. CASE visible = {}
    <2>1. Extract(s, pos, old) = [word |-> old, pos |-> Len(s)]
      BY <1>2 DEF Extract
    <2>2. ASSUME NEW i \in Nat, NEW j \in Nat, pos < i /\ i <= j /\ j <= Len(s),
                 \A k \in i .. j : ~IsSpace(s[k])
          PROVE  FALSE
      <3>1. i \in visible
        BY <1>1, <2>2
      <3> QED
        BY <1>2, <3>1
    <2> HIDE DEF visible, begin, ends, behind
    <2> QED
      BY <1>1, <2>1, <2>2
  <1>3. CASE visible # {}
    <2>1. Extract(s, pos, old) = [word |-> SubSeq(s, begin, behind - 1), pos |-> behind - 1]
      BY <1>3 DEF Extract
    <2>2. begin \in visible /\ \A i \in visible : begin <= i
      <3>1. visible \in SUBSET Nat
        BY <1>1
      <3> HIDE DEF visible
      <3> QED
        BY <1>3, <3>1, MinOfNats
    <2>3. begin \in Nat /\ pos < begin /\ begin <= Len(s) /\ ~IsSpace(s[begin])
      <3> HIDE DEF begin
      <3> QED
        BY <1>1, <2>2
    <2> HIDE DEF begin
    <2>4. behind \in ends /\ \A i \in ends : behind <= i
      <3>1. ends \in SUBSET Nat /\ Len(s) + 1 \in ends
        BY <1>1, <2>3
      <3> HIDE DEF ends
      <3> QED
        BY <3>1, MinOfNats
    <2> HIDE DEF behind
    <2>5. behind \in Nat /\ begin < behind /\ behind <= Len(s) + 1
      <3>1. behind # begin
        BY <1>1, <2>3, <2>4
      <3> QED
        BY <1>1, <2>3, <2>4, <3>1
    <2>6. SubSeq(s, begin, behind - 1) \in Seq(Byte)
      <3>1. \A i \in begin .. behind - 1 : s[i] \in Byte
        BY <1>1, <2>3, <2>5, ElementOfSeq
      <3> QED
        BY <2>3, <2>5, <3>1, SubSeqProperties
    <2>7. ASSUME NEW i \in Nat, NEW j \in Nat, pos < i /\ i <= j /\ j <= Len(s),
                 \A k \in pos + 1 .. i - 1 : IsSpace(s[k]),
                 \A k \in i .. j : ~IsSpace(s[k]),
                 j = Len(s) \/ IsSpace(s[j + 1])
          PROVE  begin = i /\ behind = j + 1
      <3>1. i \in visible
        BY <1>1, <2>7
      <3>2. begin \in pos + 1 .. i - 1 => FALSE
        BY <2>3, <2>7
      <3>3. begin = i
        BY <2>2, <2>3, <3>1, <3>2
      <3>4. j + 1 \in ends
        BY <1>1, <2>7, <3>3
      <3>5. behind \in i .. j => FALSE
        BY <1>1, <2>4, <2>7
      <3> QED
        BY <2>4, <2>5, <3>3, <3>4, <3>5
    <2> HIDE DEF visible, ends
    <2>8. Extract(s, pos, old).word = SubSeq(s, begin, behind - 1)
          /\ Extract(s, pos, old).pos = behind - 1
      <3> DEFINE w == SubSeq(s, begin, behind - 1)
                 p == behind - 1
      <3>1. Extract(s, pos, old) = [word |-> w, pos |-> p]
        BY <2>1
      <3> HIDE DEF w, p
      <3>2. Extract(s, pos, old).word = w /\ Extract(s, pos, old).pos = p
        BY <3>1
      <3> QED
        BY <3>2 DEF w, p
    <2>9. behind - 1 \in Nat
      BY <2>3, <2>5
    <2>10. \A j \in Nat : (j + 1) - 1 = j
      OBVIOUS
    <2> QED
      BY <2>6, <2>7, <2>8, <2>9, <2>10
  <1> QED
    BY <1>2, <1>3

\* Whatever was asked, the result is a text.
LEMMA ResultIsText ==
  ASSUME NEW body
  PROVE  ScheduleResult(body) \in Seq(Byte)
  <1>1. Run(CreateTask(body)) \in Seq(Byte) /\ Lit["post info error,try again"] \in Seq(Byte)
    BY RunIsText, LiteralTexts
  <1> QED
    BY <1>1 DEF ScheduleResult

\* Every variable keeps a value of its kind: no position is computed that is not
\* one, and no text that is not made of bytes, whatever was received.
THEOREM TypeCorrect == Spec => []TypeOK
  <1>1. Init => TypeOK
    BY NPosIsLarge, EmptySeq DEF Init, TypeOK
  <1>2. TypeOK /\ ParserInv /\ ParserInv' /\ [Next]_vars => TypeOK'
    <2> SUFFICES ASSUME TypeOK, ParserInv, ParserInv', [Next]_vars
                 PROVE  TypeOK'
      OBVIOUS
    <2>1. /\ data \in Seq(Byte) /\ Len(data) < NPos /\ Len(data) \in Nat
          /\ NPos \in Nat /\ data' \in Seq(Byte)
      BY LenProperties, NPosIsLarge DEF ParserInv
    <2>2. Crlf \in Seq(Byte) /\ Crlf \o Crlf \in Seq(Byte) /\ Colon \in Seq(Byte)
      BY DEF Crlf, Cr, Lf, Byte, Colon
    <2>3. \A n \in Int : SizeT(n) \in Nat
      BY <2>1 DEF SizeT
    <2>4. \A p \in Nat : /\ Find(data, Crlf, p) \in 0 .. NPos
                         /\ Find(data, Crlf \o Crlf, p) \in 0 .. NPos
      BY <2>1, <2>2, FindFinds
    <2>5. CASE RecvRequestData
      BY <2>1, <2>5 DEF RecvRequestData, TypeOK, parser
    <2>6. CASE ParseLine
      <3> DEFINE next == Find(data, Crlf, 0)
                 first_line == SubStr(data, 0, next)
      <3>1. next \in 0 .. NPos /\ first_line \in Seq(Byte)
        BY <2>1, <2>4, SubStrType
      <3>2. prev' \in 0 .. NPos
        BY <2>1, <2>6, <3>1 DEF ParseLine
      <3>3. pos_crlfcrlf' \in 0 .. NPos
        <4>1. pos_crlfcrlf' = Find(data, Crlf \o Crlf, prev') /\ prev' \in Nat
          BY <3>2, <2>6 DEF ParseLine
        <4> QED
          BY <2>4, <4>1
      <3>4. header' \in [method : Seq(Byte), url : Seq(Byte), body : Seq(Byte)]
        <4>1. CASE next = NPos
          BY <2>6, <4>1 DEF ParseLine, TypeOK
        <4>2. CASE next # NPos
          <5> DEFINE method == Extract(first_line, 0, header.method)
                     url == Extract(first_line, method.pos, header.url)
          <5>1. header' = [header EXCEPT !.method = method.word, !.url = url.word]
            BY <2>6, <4>2 DEF ParseLine
          <5> HIDE DEF first_line
          <5>2. header.method \in Seq(Byte) /\ header.url \in Seq(Byte) /\ 0 \in Nat
            BY DEF TypeOK
          <5>3. method.word \in Seq(Byte) /\ method.pos \in Nat
            BY <3>1, <5>2, ExtractWord
          <5> HIDE DEF method
          <5>4. url.word \in Seq(Byte)
            BY <3>1, <5>2, <5>3, ExtractWord
          <5> HIDE DEF url
          <5> QED
            BY <5>1, <5>3, <5>4 DEF TypeOK
        <4> QED
          BY <4>1, <4>2
      <3> QED
        BY <2>1, <2>6, <3>2, <3>3, <3>4 DEF ParseLine, TypeOK
    <2>7. CASE ParseHeader
      <3>1. prev' \in 0 .. NPos
        <4>1. prev' = prev \/ prev' = Find(data, Crlf, SizeT(prev + 2))
          BY <2>7 DEF ParseHeader
        <4>2. SizeT(prev + 2) \in Nat
          <5>1. prev + 2 \in Int
            BY <2>1 DEF TypeOK
          <5> QED
            BY <2>3, <5>1
        <4> QED
          BY <2>4, <4>1, <4>2 DEF TypeOK
      <3> QED
        BY <2>1, <2>7, <3>1 DEF ParseHeader, TypeOK
    <2>8. CASE ParseBody
      <3> DEFINE pos == SizeT(pos_crlfcrlf + 4)
      <3>1. pos \in Nat
        <4>1. pos_crlfcrlf + 4 \in Int
          BY <2>1 DEF TypeOK
        <4> QED
          BY <2>3, <4>1
      <3>2. SubStr(data, pos, NPos) \in Seq(Byte)
        BY <2>1, <3>1, SubStrType
      <3> HIDE DEF pos
      <3>3. /\ stage' \in {"dead", "handle"}
            /\ header' \in {header, [header EXCEPT !.body = SubStr(data, pos, NPos)]}
            /\ UNCHANGED <<request, data, prev, pos_crlfcrlf, responseData>>
        BY <2>8 DEF ParseBody, parser, pos
      <3> QED
        BY <2>1, <3>2, <3>3 DEF TypeOK
    <2>9. CASE DataHandler
      <3>1. responseData' \in Seq(Byte)
        <4>1. UrlEncode(ScheduleResult(UrlDecode(header.body))) \in Seq(Byte)
          BY ResultIsText, EncodedReadBack
        <4>2. responseData' \in {responseData, UrlEncode(ScheduleResult(UrlDecode(header.body)))}
          BY <2>9 DEF DataHandler
        <4> QED
          BY <4>1, <4>2 DEF TypeOK
      <3>2. stage' \in {"dead", "send"} /\ UNCHANGED <<request, data, header, parser>>
        BY <2>9 DEF DataHandler
      <3> QED
        BY <3>1, <3>2 DEF TypeOK, parser
    <2>10. CASE SendResonseData
      BY <2>10, EmptySeq DEF SendResonseData, TypeOK, parser
    <2>11. CASE UNCHANGED vars
      BY <2>11 DEF vars, TypeOK
    <2> QED
      BY <2>5, <2>6, <2>7, <2>8, <2>9, <2>10, <2>11 DEF Next, StartHttpServer, HttpParser
  <1> QED
    BY <1>1, <1>2, ParserInvariance, PTL DEF Spec

\* cJSON.c:282, 486, 629: nothing that is printed for a page is written behind the
\* block that was allocated for it.
THEOREM PagesInBounds == Spec => []PrintsInBounds
  <1>1. PrintsInBounds
    <2> SUFFICES ASSUME WantsPage(TaskOf(request)),
                        NEW item \in DOMAIN PrintedPage[TaskOf(request)["type"]]
                 PROVE  Len(PrintedPage[TaskOf(request)["type"]][item].text) + 1
                          <= PrintedPage[TaskOf(request)["type"]][item].room
      BY DEF PrintsInBounds
    <2> DEFINE t == TaskOf(request)["type"]
    <2>1. t \in HomePageTypes
      BY DEF WantsPage
    <2> HIDE DEF t
    <2>2. \A i \in DOMAIN PrintedPage[t] : Fits(PrintedPage[t][i])
      BY <2>1, PagesFit
    <2> QED
      BY <2>2 DEF t, Fits
  <1> QED
    BY <1>1, PTL

\* The page a peer asks for is read by cJSON_Parse as the tree it is printed from.
THEOREM PagesRead == Spec => []PagesReadable
  <1>1. PagesReadable
    <2> SUFFICES ASSUME WantsPage(TaskOf(request))
                 PROVE  LET task == TaskOf(request)
                            text == CreateHomePage(task)
                        IN  Parse(text) = [items |-> <<HomePage[task["type"]]>>,
                                           next |-> Len(text) + 1]
      BY Zenon DEF PagesReadable
    <2> DEFINE t == TaskOf(request)["type"]
               text == CreateHomePage(TaskOf(request))
    <2>1. t \in HomePageTypes
      BY DEF WantsPage
    <2>2. text = PrintedPage[t][HomePage[t]].text
      BY DEF CreateHomePage
    <2> HIDE DEF t, text
    <2>3. Parse(text) = [items |-> <<HomePage[t]>>, next |-> Len(text) + 1]
      BY <2>1, <2>2, PagesReadBack
    <2> QED
      BY <2>3, Zenon DEF t, text
  <1> QED
    BY <1>1, PTL
------------------------------------------------------------------------------
\* Texts joined with separators.
Joined(words, sep) == [i \in DOMAIN words |-> IF i = 1 THEN words[i] ELSE sep \o words[i]]

\* Join is FlattenSeq of them.
LEMMA JoinedType ==
  ASSUME NEW S, NEW words \in Seq(Seq(S)), NEW sep \in Seq(S)
  PROVE  /\ Joined(words, sep) \in Seq(Seq(S)) /\ Len(Joined(words, sep)) = Len(words)
         /\ \A i \in 1 .. Len(words) :
              Joined(words, sep)[i] = IF i = 1 THEN words[i] ELSE sep \o words[i]
         /\ Join(words, sep) = FlattenSeq(Joined(words, sep))
  <1>1. DOMAIN words = 1 .. Len(words) /\ Len(words) \in Nat
        /\ \A i \in DOMAIN words : words[i] \in Seq(S)
    BY LenProperties, ElementOfSeq
  <1>2. \A i \in DOMAIN words : sep \o words[i] \in Seq(S)
    BY <1>1, ConcatProperties
  <1>3. \A i \in DOMAIN words : (IF i = 1 THEN words[i] ELSE sep \o words[i]) \in Seq(S)
    BY <1>1, <1>2
  <1>4. Joined(words, sep) \in Seq(Seq(S)) /\ Len(Joined(words, sep)) = Len(words)
    BY <1>1, <1>3 DEF Joined
  <1>5. \A i \in 1 .. Len(words) :
              Joined(words, sep)[i] = IF i = 1 THEN words[i] ELSE sep \o words[i]
    BY <1>1 DEF Joined
  <1>6. Join(words, sep) = FlattenSeq(Joined(words, sep))
    BY DEF Join, Joined
  <1> QED
    BY <1>4, <1>5, <1>6

\* The first line and the header lines of a request, as they are sent.
Line(r) == Join(r.line, <<Space>>)

HeaderLines(r) == FlattenSeq([i \in DOMAIN r.headers |-> Crlf \o r.headers[i]])

\* The words and the header lines of a request.
Word == Seq({c \in Byte : ~IsSpace(c)}) \ {<<>>}

HeaderLine == Seq(Byte \ {Cr}) \ {<<>>}

\* The bytes of a line break and of an empty line.
LEMMA Breaks ==
  /\ Crlf \in Seq(Byte) /\ Len(Crlf) = 2 /\ Crlf[1] = Cr /\ Crlf[2] = Lf
  /\ Crlf \o Crlf \in Seq(Byte) /\ Len(Crlf \o Crlf) = 4
  /\ (Crlf \o Crlf)[1] = Cr /\ (Crlf \o Crlf)[2] = Lf
  /\ (Crlf \o Crlf)[3] = Cr /\ (Crlf \o Crlf)[4] = Lf
  /\ Cr \in Byte /\ Lf \in Byte /\ Space \in Byte /\ Cr # Lf /\ Space # Cr
  /\ Crlf \o <<>> = Crlf
  BY DEF Crlf, Cr, Lf, Byte, Space

\* A request is its first line, its header lines, an empty line and the body.
LEMMA RequestParts ==
  ASSUME NEW line \in Seq(Byte), NEW headers \in Seq(Seq(Byte)), NEW body \in Seq(Byte)
  PROVE  LET hs == FlattenSeq([i \in DOMAIN headers |-> Crlf \o headers[i]])
         IN  /\ hs \in Seq(Byte)
             /\ Join(<<line>> \o headers \o <<<<>>, body>>, Crlf) =
                  (line \o hs) \o ((Crlf \o Crlf) \o body)
  <1> DEFINE h == [i \in DOMAIN headers |-> Crlf \o headers[i]]
             n == Len(headers)
             w == <<line>> \o headers \o <<<<>>, body>>
             p == Joined(w, Crlf)
             e == <<Crlf, Crlf \o body>>
             q == (<<line>> \o h) \o e
  <1>1. n \in Nat /\ DOMAIN headers = 1 .. n /\ \A i \in 1 .. n : headers[i] \in Seq(Byte)
    BY LenProperties, ElementOfSeq
  <1>2. \A i \in 1 .. n : Crlf \o headers[i] \in Seq(Byte)
    BY <1>1, Breaks, ConcatProperties
  <1>3. h \in Seq(Seq(Byte)) /\ Len(h) = n /\ \A i \in 1 .. n : h[i] = Crlf \o headers[i]
    BY <1>1, <1>2
  <1> HIDE DEF h, n
  <1>4. <<line>> \in Seq(Seq(Byte)) /\ Len(<<line>>) = 1 /\ <<line>>[1] = line
    OBVIOUS
  <1>5. <<<<>>, body>> \in Seq(Seq(Byte)) /\ Len(<<<<>>, body>>) = 2
        /\ <<<<>>, body>>[1] = <<>> /\ <<<<>>, body>>[2] = body
    BY EmptySeq
  <1>6. Crlf \o body \in Seq(Byte)
    BY Breaks, ConcatProperties
  <1>7. e \in Seq(Seq(Byte)) /\ Len(e) = 2 /\ e[1] = Crlf /\ e[2] = Crlf \o body
    BY <1>6, Breaks
  <1> DEFINE lh == <<line>> \o headers
             ll == <<line>> \o h
  <1>8. /\ lh \in Seq(Seq(Byte)) /\ Len(lh) = n + 1 /\ lh[1] = line
        /\ \A i \in 1 .. n : lh[1 + i] = headers[i]
    <2> DEFINE o == <<line>>
    <2>1. o \in Seq(Seq(Byte)) /\ headers \in Seq(Seq(Byte))
      BY <1>3, <1>4
    <2>2. Len(o) = 1 /\ o[1] = line /\ Len(headers) = n
      BY <1>3, <1>4 DEF n
    <2> HIDE DEF o
    <2>3. /\ o \o headers \in Seq(Seq(Byte)) /\ Len(o \o headers) = Len(o) + Len(headers)
          /\ \A i \in 1 .. Len(o) : (o \o headers)[i] = o[i]
          /\ \A i \in 1 .. Len(headers) : (o \o headers)[Len(o) + i] = headers[i]
      BY <2>1, ConcatTexts
    <2>4. lh = o \o headers
      BY DEF o
    <2> HIDE DEF lh
    <2>5. 1 + n = n + 1 /\ 1 \in 1 .. 1
      BY <1>1
    <2> QED
      BY <2>2, <2>3, <2>4, <2>5
  <1>9. /\ ll \in Seq(Seq(Byte)) /\ Len(ll) = n + 1 /\ ll[1] = line
        /\ \A i \in 1 .. n : ll[1 + i] = h[i]
    <2> DEFINE o == <<line>>
    <2>1. o \in Seq(Seq(Byte)) /\ h \in Seq(Seq(Byte))
      BY <1>3, <1>4
    <2>2. Len(o) = 1 /\ o[1] = line /\ Len(h) = n
      BY <1>3, <1>4 
    <2> HIDE DEF o
    <2>3. /\ o \o h \in Seq(Seq(Byte)) /\ Len(o \o h) = Len(o) + Len(h)
          /\ \A i \in 1 .. Len(o) : (o \o h)[i] = o[i]
          /\ \A i \in 1 .. Len(h) : (o \o h)[Len(o) + i] = h[i]
      BY <2>1, ConcatTexts
    <2>4. ll = o \o h
      BY DEF o
    <2> HIDE DEF ll
    <2>5. 1 + n = n + 1 /\ 1 \in 1 .. 1
      BY <1>1
    <2> QED
      BY <2>2, <2>3, <2>4, <2>5
  <1>10. /\ w \in Seq(Seq(Byte)) /\ Len(w) = n + 3
         /\ \A i \in 1 .. n + 1 : w[i] = lh[i]
         /\ w[n + 2] = <<>> /\ w[n + 3] = body
    <2> DEFINE z == <<<<>>, body>>
    <2>1. z \in Seq(Seq(Byte)) /\ Len(z) = 2 /\ z[1] = <<>> /\ z[2] = body
      BY <1>5
    <2> HIDE DEF lh, z
    <2>2. /\ lh \o z \in Seq(Seq(Byte)) /\ Len(lh \o z) = (n + 1) + 2
          /\ \A i \in 1 .. n + 1 : (lh \o z)[i] = lh[i]
          /\ \A i \in 1 .. 2 : (lh \o z)[(n + 1) + i] = z[i]
      <3>0. Len(lh) = n + 1 /\ Len(z) = 2
        BY <1>7, <1>8, <1>9, <2>1
      <3>1. lh \in Seq(Seq(Byte)) /\ z \in Seq(Seq(Byte))
        BY <1>8, <2>1
      <3>2. /\ lh \o z \in Seq(Seq(Byte)) /\ Len(lh \o z) = Len(lh) + Len(z)
            /\ \A i \in 1 .. Len(lh) : (lh \o z)[i] = lh[i]
            /\ \A i \in 1 .. Len(z) : (lh \o z)[Len(lh) + i] = z[i]
        BY <3>1, ConcatTexts
      <3> QED
        BY <3>0, <3>2
    <2>3. w = lh \o z
      BY DEF lh, z
    <2> HIDE DEF w
    <2>4. (n + 1) + 1 = n + 2 /\ (n + 1) + 2 = n + 3 /\ 1 \in 1 .. 2 /\ 2 \in 1 .. 2
      BY <1>1
    <2>5. (lh \o z)[n + 2] = <<>> /\ (lh \o z)[n + 3] = body /\ Len(lh \o z) = n + 3
      BY <2>1, <2>2, <2>4
    <2> QED
      BY <2>2, <2>3, <2>5, Zenon
  <1>11. /\ q \in Seq(Seq(Byte)) /\ Len(q) = n + 3
         /\ \A i \in 1 .. n + 1 : q[i] = ll[i]
         /\ q[n + 2] = Crlf /\ q[n + 3] = Crlf \o body
    <2> HIDE DEF ll, e
    <2>2. /\ ll \o e \in Seq(Seq(Byte)) /\ Len(ll \o e) = (n + 1) + 2
          /\ \A i \in 1 .. n + 1 : (ll \o e)[i] = ll[i]
          /\ \A i \in 1 .. 2 : (ll \o e)[(n + 1) + i] = e[i]
      <3>0. Len(ll) = n + 1 /\ Len(e) = 2
        BY <1>7, <1>8, <1>9
      <3>1. ll \in Seq(Seq(Byte)) /\ e \in Seq(Seq(Byte))
        BY <1>7, <1>9
      <3>2. /\ ll \o e \in Seq(Seq(Byte)) /\ Len(ll \o e) = Len(ll) + Len(e)
            /\ \A i \in 1 .. Len(ll) : (ll \o e)[i] = ll[i]
            /\ \A i \in 1 .. Len(e) : (ll \o e)[Len(ll) + i] = e[i]
        BY <3>1, ConcatTexts
      <3> QED
        BY <3>0, <3>2
    <2>3. q = ll \o e
      BY DEF ll
    <2> HIDE DEF q
    <2>4. (n + 1) + 1 = n + 2 /\ (n + 1) + 2 = n + 3 /\ 1 \in 1 .. 2 /\ 2 \in 1 .. 2
      BY <1>1
    <2>5. (ll \o e)[n + 2] = Crlf /\ (ll \o e)[n + 3] = Crlf \o body /\ Len(ll \o e) = n + 3
      <3>1. e[1] = Crlf /\ e[2] = Crlf \o body
        BY <1>7, Zenon
      <3> HIDE DEF e
      <3> QED
        BY <2>2, <2>4, <3>1
    <2> QED
      BY <2>2, <2>3, <2>5, Zenon
  <1> HIDE DEF w, lh, ll, e
  <1>12. /\ p \in Seq(Seq(Byte)) /\ Len(p) = n + 3
         /\ \A i \in 1 .. n + 3 : p[i] = IF i = 1 THEN w[i] ELSE Crlf \o w[i]
         /\ Join(w, Crlf) = FlattenSeq(p)
    <2>1. w \in Seq(Seq(Byte)) /\ Crlf \in Seq(Byte)
      BY <1>10, Breaks
    <2>2. /\ Joined(w, Crlf) \in Seq(Seq(Byte)) /\ Len(Joined(w, Crlf)) = Len(w)
          /\ \A i \in 1 .. Len(w) :
               Joined(w, Crlf)[i] = IF i = 1 THEN w[i] ELSE Crlf \o w[i]
          /\ Join(w, Crlf) = FlattenSeq(Joined(w, Crlf))
      BY <2>1, JoinedType
    <2>3. Len(w) = n + 3
      BY <1>10
    <2> HIDE DEF n
    <2> QED
      BY <2>2, <2>3, Zenon DEF p
  <1> HIDE DEF p, q
  <1>13. p = q
    <2>1. ASSUME NEW i \in 1 .. n + 3
          PROVE  p[i] = q[i]
      <3>1. CASE i = 1
        <4>1. 1 \in 1 .. n + 1
          BY <1>1
        <4> QED
          BY <1>8, <1>9, <1>10, <1>11, <1>12, <3>1, <4>1
      <3>2. CASE i \in 2 .. n + 1
        <4>1. i - 1 \in 1 .. n /\ 1 + (i - 1) = i /\ i \in 1 .. n + 1 /\ i # 1
          BY <1>1, <3>2
        <4>2. PICK j \in 1 .. n : i = 1 + j
          BY <4>1
        <4>3. w[i] = headers[j]
          <5>1. w[i] = lh[i]
            BY <1>10, <4>1
          <5>2. lh[i] = headers[j]
            BY <1>8, <4>2
          <5> QED
            BY <5>1, <5>2
        <4>4. q[i] = Crlf \o headers[j]
          <5>1. q[i] = ll[i]
            BY <1>11, <4>1
          <5>2. ll[i] = h[j]
            BY <1>9, <4>2
          <5>3. h[j] = Crlf \o headers[j]
            BY <1>3
          <5> QED
            BY <5>1, <5>2, <5>3, Zenon
        <4>5. p[i] = Crlf \o w[i]
          BY <1>12, <4>1
        <4> QED
          BY <4>3, <4>4, <4>5, Zenon
      <3>3. CASE i = n + 2
        <4>1. i # 1 /\ i \in 1 .. n + 3
          BY <1>1, <3>3
        <4> QED
          BY <1>10, <1>11, <1>12, <3>3, <4>1, Breaks
      <3>4. CASE i = n + 3
        <4>1. i # 1 /\ i \in 1 .. n + 3
          BY <1>1, <3>4
        <4> QED
          BY <1>10, <1>11, <1>12, <3>4, <4>1
      <3> QED
        BY <1>1, <3>1, <3>2, <3>3, <3>4
    <2> QED
      BY <1>11, <1>12, <2>1, SeqEqual
  <1>14. FlattenSeq(q) = (line \o FlattenSeq(h)) \o (Crlf \o (Crlf \o body))
    <2>1. FlattenSeq(ll) = line \o FlattenSeq(h)
      <3>1. FlattenSeq(<<line>> \o h) = FlattenSeq(<<line>>) \o FlattenSeq(h)
        BY <1>3, <1>4, FlattenConcat
      <3>2. FlattenSeq(<<line>>) = line
        BY FlattenOne
      <3> QED
        BY <3>1, <3>2 DEF ll
    <2>2. FlattenSeq(e) = Crlf \o (Crlf \o body)
      BY <1>6, Breaks, FlattenTwo DEF e
    <2>3. FlattenSeq(ll \o e) = FlattenSeq(ll) \o FlattenSeq(e)
      BY <1>7, <1>9, FlattenConcat
    <2> QED
      BY <2>1, <2>2, <2>3, Zenon DEF q, ll
  <1>15. (Crlf \o Crlf) \o body = Crlf \o (Crlf \o body)
    <2> DEFINE c == Crlf
    <2>1. c \in Seq(Byte)
      BY Breaks
    <2> HIDE DEF c
    <2>2. (c \o c) \o body = c \o (c \o body)
      BY <2>1, ConcatAssociative
    <2> QED
      BY <2>2 DEF c
  <1>16. FlattenSeq(h) \in Seq(Byte)
    BY <1>3, FlattenType
  <1>17. Join(w, Crlf) = (line \o FlattenSeq(h)) \o ((Crlf \o Crlf) \o body)
    BY <1>12, <1>13, <1>14, <1>15, Zenon
  <1> QED
    BY <1>16, <1>17, Zenon DEF h, w
------------------------------------------------------------------------------
\* The last byte of a concatenation.
LEMMA LastOfConcat ==
  ASSUME NEW s \in Seq(Byte), NEW t \in Seq(Byte)
  PROVE  /\ s \o t \in Seq(Byte)
         /\ t # <<>> => s \o t # <<>> /\ (s \o t)[Len(s \o t)] = t[Len(t)]
         /\ t = <<>> => s \o t = s
  <1> DEFINE u == s \o t
             m == Len(s)
             n == Len(t)
  <1>1. /\ u \in Seq(Byte) /\ Len(u) = m + n /\ m \in Nat /\ n \in Nat
        /\ \A i \in 1 .. n : u[m + i] = t[i]
    BY ConcatIndex
  <1>2. t # <<>> => n # 0
    BY EmptySeq
  <1>3. u = <<>> => Len(u) = 0
    BY EmptySeq
  <1>4. t = <<>> => s \o t = s
    BY ConcatEmptySeq
  <1> HIDE DEF u, m, n
  <1>5. ASSUME t # <<>>
        PROVE  u # <<>> /\ u[Len(u)] = t[n]
    <2>1. n \in 1 .. n /\ m + n # 0
      BY <1>1, <1>2, <1>5
    <2> QED
      BY <1>1, <1>3, <2>1
  <1> QED
    BY <1>1, <1>4, <1>5 DEF u, n

\* A form, field by field.
Segment(field) == (Lit[field.key] \o Equal) \o field.value
Segments(form) == [i \in DOMAIN form |-> Segment(form[i])]

\* The fields of a form.
Fields == [key : Keys, value : Seq(Byte)]

\* The names of the fields, byte by byte.
LEMMA KeyTexts ==
  /\ \A key \in Keys : /\ Lit[key] \in Seq(Byte) /\ Lit[key] # <<>>
                       /\ \A i \in DOMAIN Lit[key] : Lit[key][i] \notin {Percent, Plus, 61, 38}
  /\ Equal \in Seq(Byte) /\ And \in Seq(Byte) /\ 61 \in Byte /\ 38 \in Byte
  /\ Equal = <<61>> /\ And = <<38>>
  /\ ~Aborts(Equal) /\ UrlDecode(Equal) = Equal /\ ~Aborts(And) /\ UrlDecode(And) = And
  <1>1. Keys \subseteq Literals
    BY DEF Literals
  <1>2. \A key \in Keys : Lit[key] \in Seq(Byte)
    BY <1>1, LitIsText, CStringIsText
  <1>3. Equal[1] = 61 /\ And[1] = 38
    BY DEF Equal, And
  <1>4. \A key \in Keys : /\ Lit[key] # <<>>
                          /\ \A i \in DOMAIN Lit[key] :
                               Lit[key][i] \notin {Percent, Plus, 61, 38}
    BY <1>3, KeysApart
  <1>5. 61 \in Byte /\ 38 \in Byte /\ 61 \notin {Percent, Plus} /\ 38 \notin {Percent, Plus}
    BY DEF Byte, Percent, Plus
  <1>6. ~Aborts(Equal) /\ UrlDecode(Equal) = Equal /\ ~Aborts(And) /\ UrlDecode(And) = And
    BY <1>5, DecodeOne DEF Equal, And
  <1>7. Equal \in Seq(Byte) /\ And \in Seq(Byte)
    BY <1>5 DEF Equal, And
  <1> QED
    BY <1>2, <1>4, <1>5, <1>6, <1>7 DEF Equal, And

\* The fields of a form and its segments are texts.
LEMMA FormTexts ==
  ASSUME NEW form \in Seq(Fields)
  PROVE  /\ DOMAIN form = 1 .. Len(form) /\ Len(form) \in Nat
         /\ \A i \in DOMAIN form : /\ form[i].key \in Keys /\ form[i].value \in Seq(Byte)
                                   /\ Segment(form[i]) \in Seq(Byte)
         /\ Segments(form) \in Seq(Seq(Byte)) /\ Len(Segments(form)) = Len(form)
         /\ \A i \in DOMAIN form : Segments(form)[i] = Segment(form[i])
  <1>1. DOMAIN form = 1 .. Len(form) /\ Len(form) \in Nat
        /\ \A i \in DOMAIN form : form[i] \in Fields
    BY LenProperties, ElementOfSeq
  <1>2. \A i \in DOMAIN form : form[i].key \in Keys /\ form[i].value \in Seq(Byte)
    BY <1>1 DEF Fields
  <1>3. ASSUME NEW i \in DOMAIN form
        PROVE  Segment(form[i]) \in Seq(Byte)
    <2> DEFINE u == Lit[form[i].key] \o Equal
    <2>1. u \in Seq(Byte)
      BY <1>2, KeyTexts, ConcatIndex
    <2> HIDE DEF u
    <2>2. u \o form[i].value \in Seq(Byte)
      BY <1>2, <2>1, ConcatIndex
    <2> QED
      BY <2>2 DEF Segment, u
  <1>4. Segments(form) \in Seq(Seq(Byte)) /\ Len(Segments(form)) = Len(form)
    BY <1>1, <1>3 DEF Segments
  <1>5. \A i \in DOMAIN form : Segments(form)[i] = Segment(form[i])
    BY DEF Segments
  <1> QED
    BY <1>1, <1>2, <1>3, <1>4, <1>5

\* So is the form.
LEMMA BodyIsText ==
  ASSUME NEW form \in Seq(Fields)
  PROVE  BodyText(form) = Join(Segments(form), And) /\ BodyText(form) \in Seq(Byte)
  <1> DEFINE words == Segments(form)
  <1>1. BodyText(form) = Join(words, And)
    BY Zenon DEF BodyText, Segments, Segment
  <1>2. words \in Seq(Seq(Byte))
    BY FormTexts
  <1> HIDE DEF words
  <1>3. /\ Joined(words, And) \in Seq(Seq(Byte))
        /\ Join(words, And) = FlattenSeq(Joined(words, And))
    <2>1. And \in Seq(Byte)
      BY KeyTexts
    <2> QED
      BY <1>2, <2>1, JoinedType
  <1>4. FlattenSeq(Joined(words, And)) \in Seq(Byte)
    BY <1>3, FlattenType
  <1> QED
    BY <1>1, <1>3, <1>4 DEF words

------------------------------------------------------------------------------
\* The header lines of a request: a Cr is two bytes before the end at least, and
\* what stands there is no Cr.
Guarded == {s \in Seq(Byte) : \A p \in 1 .. Len(s) : s[p] = Cr => p + 2 <= Len(s) /\ s[p + 2] # Cr}

\* They are closed under concatenation.
LEMMA GuardedConcat ==
  /\ <<>> \in Guarded
  /\ \A s, t \in Guarded : s \o t \in Guarded
  <1>1. <<>> \in Guarded
    BY EmptySeq DEF Guarded
  <1>2. ASSUME NEW s \in Guarded, NEW t \in Guarded
        PROVE  s \o t \in Guarded
    <2> DEFINE u == s \o t
               m == Len(s)
               n == Len(t)
    <2>1. s \in Seq(Byte) /\ t \in Seq(Byte)
      BY DEF Guarded
    <2>2. /\ u \in Seq(Byte) /\ Len(u) = m + n /\ m \in Nat /\ n \in Nat
          /\ \A i \in 1 .. m : u[i] = s[i]
          /\ \A i \in 1 .. n : u[m + i] = t[i]
      BY <2>1, ConcatIndex
    <2>3. /\ \A p \in 1 .. m : s[p] = Cr => p + 2 <= m /\ s[p + 2] # Cr
          /\ \A p \in 1 .. n : t[p] = Cr => p + 2 <= n /\ t[p + 2] # Cr
      BY DEF Guarded
    <2> HIDE DEF u, m, n
    <2>4. ASSUME NEW p \in 1 .. m + n, u[p] = Cr
          PROVE  p + 2 <= m + n /\ u[p + 2] # Cr
      <3>1. CASE p \in 1 .. m
        <4>1. p + 2 <= m /\ s[p + 2] # Cr
          BY <2>2, <2>3, <2>4, <3>1
        <4>2. p + 2 \in 1 .. m
          BY <2>2, <3>1, <4>1
        <4> QED
          BY <2>2, <4>1, <4>2
      <3>2. CASE p \notin 1 .. m
        <4>1. PICK k \in 1 .. n : p = m + k
          <5>1. p - m \in 1 .. n /\ p = m + (p - m)
            BY <2>2, <3>2
          <5> QED
            BY <5>1
        <4>2. k + 2 <= n /\ t[k + 2] # Cr
          BY <2>2, <2>3, <2>4, <4>1
        <4>3. k + 2 \in 1 .. n /\ p + 2 = m + (k + 2) /\ p + 2 <= m + n
          BY <2>2, <4>1, <4>2
        <4>4. u[m + (k + 2)] = t[k + 2]
          BY <2>2, <4>3
        <4> QED
          BY <4>2, <4>3, <4>4
      <3> QED
        BY <3>1, <3>2
    <2> QED
      BY <2>2, <2>4 DEF Guarded, u
  <1> QED
    BY <1>1, <1>2

\* The header lines of a request are; and they begin with a line break, if any.
LEMMA GuardedLines ==
  ASSUME NEW r \in Requests
  PROVE  /\ r.headers \in Seq(Seq(Byte))
         /\ HeaderLines(r) \in Guarded
         /\ HeaderLines(r) # <<>> =>
              Len(HeaderLines(r)) >= 2 /\ HeaderLines(r)[1] = Cr /\ HeaderLines(r)[2] = Lf
  <1> DEFINE h == r.headers
             w == [i \in DOMAIN h |-> Crlf \o h[i]]
             Headed == {s \in Seq(Byte) : Len(s) >= 2 /\ s[1] = Cr /\ s[2] = Lf}
             P == {s \in Guarded : s = <<>> \/ s \in Headed}
  <1>1. h \in Seq(HeaderLine)
    BY RequestsWellFormed DEF HeaderLine
  <1> HIDE DEF h
  <1>2. DOMAIN h = 1 .. Len(h) /\ Len(h) \in Nat /\ \A i \in DOMAIN h : h[i] \in HeaderLine
    BY <1>1, LenProperties, ElementOfSeq
  <1>3. ASSUME NEW l \in HeaderLine
        PROVE  l \in Seq(Byte) /\ Crlf \o l \in P
    <2> DEFINE u == Crlf \o l
               n == Len(l)
    <2>1. l \in Seq(Byte \ {Cr}) /\ l # <<>>
      BY DEF HeaderLine
    <2>2. l \in Seq(Byte)
      <3>1. Byte \ {Cr} \subseteq Byte
        OBVIOUS
      <3> QED
        BY <2>1, <3>1, SeqMonotonic
    <2>3. /\ u \in Seq(Byte) /\ Len(u) = Len(Crlf) + n /\ n \in Nat
          /\ \A i \in 1 .. Len(Crlf) : u[i] = Crlf[i]
          /\ \A i \in 1 .. n : u[Len(Crlf) + i] = l[i]
      BY <2>2, Breaks, ConcatIndex
    <2>4. \A i \in 1 .. n : l[i] # Cr
      BY <2>1, ElementOfSeq
    <2>5. n # 0
      BY <2>1, EmptySeq
    <2> HIDE DEF u, n
    <2>6. /\ Len(u) = 2 + n /\ u[1] = Cr /\ u[2] = Lf
          /\ \A i \in 1 .. n : u[2 + i] # Cr
      <3>1. Len(Crlf) = 2 /\ Crlf[1] = Cr /\ Crlf[2] = Lf
        BY Breaks
      <3>2. 1 \in 1 .. 2 /\ 2 \in 1 .. 2
        OBVIOUS
      <3>6. /\ \A i \in 1 .. 2 : u[i] = Crlf[i]
            /\ \A i \in 1 .. n : u[2 + i] = l[i]
        BY <2>3, <3>1, Zenon
      <3>3. u[1] = Cr /\ u[2] = Lf
        BY <3>1, <3>2, <3>6, Zenon
      <3>4. \A i \in 1 .. n : u[2 + i] # Cr
        BY <2>4, <3>6, Zenon
      <3>5. Len(u) = 2 + n
        BY <2>3, <3>1
      <3> QED
        BY <3>3, <3>4, <3>5
    <2>7. ASSUME NEW p \in 1 .. 2 + n, u[p] = Cr
          PROVE  p + 2 <= 2 + n /\ u[p + 2] # Cr
      <3>1. p # 2
        BY <2>6, <2>7, Breaks
      <3>2. ~(p \in 3 .. 2 + n)
        <4> SUFFICES ASSUME p \in 3 .. 2 + n PROVE FALSE
          OBVIOUS
        <4>1. p - 2 \in 1 .. n /\ p = 2 + (p - 2)
          BY <2>3
        <4> QED
          BY <2>6, <2>7, <4>1
      <3>3. p = 1
        BY <2>3, <3>1, <3>2
      <3>4. 1 \in 1 .. n /\ p + 2 = 2 + 1
        BY <2>3, <2>5, <3>3
      <3> QED
        BY <2>3, <2>6, <3>4
    <2>8. u \in Guarded
      BY <2>3, <2>6, <2>7 DEF Guarded
    <2>9. u \in P
      BY <2>3, <2>5, <2>6, <2>8
    <2> QED
      BY <2>2, <2>9 DEF u
  <1>4. h \in Seq(Seq(Byte))
    <2>1. HeaderLine \subseteq Seq(Byte)
      BY <1>3
    <2> QED
      BY <1>1, <2>1, SeqMonotonic
  <1>5. w \in Seq(P)
    BY <1>2, <1>3
  <1>6. <<>> \in P
    BY GuardedConcat
  <1>7. ASSUME NEW s \in P, NEW t \in P
        PROVE  s \o t \in P
    <2> DEFINE u == s \o t
    <2>1. s \in Seq(Byte) /\ t \in Seq(Byte)
      BY DEF Guarded
    <2>2. u \in Guarded
      BY GuardedConcat
    <2>3. /\ u \in Seq(Byte) /\ Len(u) = Len(s) + Len(t) /\ Len(s) \in Nat /\ Len(t) \in Nat
          /\ \A i \in 1 .. Len(s) : u[i] = s[i]
      BY <2>1, ConcatIndex
    <2>4. CASE s = <<>>
      <3>1. u = t
        BY <2>1, <2>4, ConcatEmptySeq
      <3> QED
        BY <3>1, Zenon
    <2>5. CASE s \in Headed
      <3> HIDE DEF u
      <3>1. 1 \in 1 .. Len(s) /\ 2 \in 1 .. Len(s)
        BY <2>3, <2>5
      <3>2. u[1] = Cr /\ u[2] = Lf /\ Len(u) >= 2
        BY <2>3, <2>5, <3>1
      <3> QED
        BY <2>2, <2>3, <3>2 DEF u
    <2> QED
      BY <2>4, <2>5
  <1>8. P \in SUBSET Seq(Byte)
    BY DEF Guarded
  <1> HIDE DEF P, w
  <1>9. FlattenSeq(w) \in P
    BY <1>5, <1>6, <1>7, <1>8, FlattenKeeps
  <1>10. HeaderLines(r) = FlattenSeq(w)
    BY DEF HeaderLines, w, h
  <1> QED
    BY <1>4, <1>9, <1>10 DEF P, h
------------------------------------------------------------------------------
\* The first line holds no line break, and its words can be extracted.
LEMMA LineWords ==
  ASSUME NEW r \in Requests
  PROVE  /\ Line(r) \in Seq(Byte)
         /\ \A i \in 1 .. Len(Line(r)) : Line(r)[i] # Cr
         /\ Len(r.line) >= 2 => \A old, old2 \in Seq(Byte) :
              LET method == Extract(Line(r), 0, old)
              IN  /\ method.word = r.line[1]
                  /\ Extract(Line(r), method.pos, old2).word = r.line[2]
  <1> DEFINE line == r.line
             L == Line(r)
             n == Len(line)
             Plain == Byte \ {Cr}
             Sp == <<Space>>
             j == Joined(line, Sp)
  <1>1. line \in Seq(Word)
    BY RequestsWellFormed DEF Word
  <1> HIDE DEF line
  <1>2. n \in Nat /\ \A i \in 1 .. n : line[i] \in Word
    BY <1>1, LenProperties, ElementOfSeq
  <1>3. Word \subseteq Seq(Plain)
    <2>1. {c \in Byte : ~IsSpace(c)} \subseteq Plain
      BY DEF IsSpace, Cr
    <2> HIDE DEF Plain
    <2> QED
      BY <2>1, SeqMonotonic DEF Word
  <1>4. line \in Seq(Seq(Plain)) /\ Sp \in Seq(Plain)
    <2>1. line \in Seq(Seq(Plain))
      BY <1>1, <1>3, SeqMonotonic
    <2>2. Sp \in Seq(Plain)
      BY Breaks
    <2> QED
      BY <2>1, <2>2
  <1>5. /\ j \in Seq(Seq(Plain)) /\ Len(j) = n
        /\ \A i \in 1 .. n : j[i] = IF i = 1 THEN line[i] ELSE Sp \o line[i]
        /\ Join(line, Sp) = FlattenSeq(j)
    <2> HIDE DEF Plain, Sp
    <2> QED
      BY <1>4, JoinedType
  <1>6. L = FlattenSeq(j)
    BY <1>5 DEF Line, line
  <1> HIDE DEF L, j
  <1>7. L \in Seq(Plain)
    <2> HIDE DEF Plain
    <2> QED
      BY <1>5, <1>6, FlattenType
  <1>8. L \in Seq(Byte) /\ \A i \in 1 .. Len(L) : L[i] # Cr
    <2>1. Plain \subseteq Byte
      OBVIOUS
    <2>2. L \in Seq(Byte)
      <3> HIDE DEF Plain
      <3> QED
        BY <1>7, <2>1, SeqMonotonic
    <2>3. \A i \in 1 .. Len(L) : L[i] \in Plain
      BY <1>7, ElementOfSeq
    <2> QED
      BY <2>2, <2>3
  <1>9. ASSUME n >= 2, NEW old \in Seq(Byte), NEW old2 \in Seq(Byte)
        PROVE  /\ Extract(L, 0, old).word = line[1]
               /\ Extract(L, Extract(L, 0, old).pos, old2).word = line[2]
    <2> DEFINE v == line[1]
               w == line[2]
               m == Len(v)
               k == Len(w)
               sw == Sp \o w
               rest == FlattenSeq(Tail(Tail(j)))
               wr == sw \o rest
    <2>1. v \in Word /\ w \in Word
      <3>1. 1 \in 1 .. n /\ 2 \in 1 .. n
        BY <1>2, <1>9
      <3> QED
        BY <1>2, <3>1
    <2>2. /\ v \in Seq(Byte) /\ v # <<>> /\ m \in Nat /\ m # 0 /\ \A i \in 1 .. m : ~IsSpace(v[i])
          /\ w \in Seq(Byte) /\ w # <<>> /\ k \in Nat /\ k # 0 /\ \A i \in 1 .. k : ~IsSpace(w[i])
      <3> HIDE DEF v, w
      <3>1. \A x \in Word : /\ x \in Seq(Byte) /\ x # <<>> /\ Len(x) \in Nat /\ Len(x) # 0
                            /\ \A i \in 1 .. Len(x) : ~IsSpace(x[i])
        <4> SUFFICES ASSUME NEW x \in Word
                     PROVE  /\ x \in Seq(Byte) /\ x # <<>> /\ Len(x) \in Nat /\ Len(x) # 0
                            /\ \A i \in 1 .. Len(x) : ~IsSpace(x[i])
          OBVIOUS
        <4> DEFINE V == {c \in Byte : ~IsSpace(c)}
        <4>1. x \in Seq(V) /\ x # <<>>
          BY DEF Word
        <4>2. V \subseteq Byte
          OBVIOUS
        <4>3. \A c \in V : ~IsSpace(c)
          OBVIOUS
        <4> HIDE DEF V
        <4>4. x \in Seq(Byte)
          BY <4>1, <4>2, SeqMonotonic
        <4>5. Len(x) \in Nat /\ Len(x) # 0
          BY <4>1, EmptySeq, LenProperties
        <4>6. \A i \in 1 .. Len(x) : x[i] \in V
          BY <4>1, ElementOfSeq
        <4> QED
          BY <4>1, <4>3, <4>4, <4>5, <4>6
      <3> QED
        BY <2>1, <3>1
    <2>3. /\ j[1] = v /\ j[2] = sw /\ j[1] \in Seq(Plain) /\ Tail(j) \in Seq(Seq(Plain))
          /\ L = v \o (sw \o rest)
          /\ rest \in Seq(Byte) /\ (rest = <<>> \/ rest[1] = Space)
      <3> HIDE DEF Plain
      <3>1. j[1] = v /\ j[2] = sw
        <4>1. 1 \in 1 .. n /\ 2 \in 1 .. n /\ 2 # 1
          BY <1>2, <1>9
        <4>2. \A i \in 1 .. n : j[i] = IF i = 1 THEN line[i] ELSE Sp \o line[i]
          BY <1>5
        <4> QED
          BY <4>1, <4>2, Zenon
      <3> DEFINE t == Tail(j)
                 t2 == Tail(t)
      <3>2. /\ j[1] \in Seq(Plain) /\ t \in Seq(Seq(Plain))
            /\ FlattenSeq(j) = j[1] \o FlattenSeq(t)
        <4>1. j # <<>>
          BY <1>2, <1>5, <1>9, EmptySeq
        <4> QED
          BY <1>5, <4>1, FlattenHead
      <3>3. Len(t) = n - 1 /\ \A i \in 1 .. n - 1 : t[i] = j[i + 1]
        <4>1. Len(t) = Len(j) - 1 /\ \A i \in 1 .. Len(j) - 1 : t[i] = j[i + 1]
          BY <1>2, <1>5, <1>9, EmptySeq, HeadTailProperties
        <4> QED
          BY <1>5, <4>1
      <3> HIDE DEF t
      <3>4. /\ t[1] \in Seq(Plain) /\ t2 \in Seq(Seq(Plain))
            /\ FlattenSeq(t) = t[1] \o FlattenSeq(t2)
        <4>1. t # <<>>
          BY <1>2, <1>9, <3>3, EmptySeq
        <4> QED
          BY <3>2, <4>1, FlattenHead
      <3>5. t[1] = sw
        <4>1. 1 \in 1 .. n - 1 /\ 1 + 1 = 2
          BY <1>2, <1>9
        <4> QED
          BY <3>1, <3>3, <4>1
      <3>6. Len(t2) = n - 2 /\ \A i \in 1 .. n - 2 : t2[i] = j[i + 2]
        <4>1. Len(t2) = Len(t) - 1 /\ \A i \in 1 .. Len(t) - 1 : t2[i] = t[i + 1]
          BY <1>2, <1>9, <3>2, <3>3, EmptySeq, HeadTailProperties
        <4>2. \A i \in 1 .. n - 2 : i + 1 \in 1 .. n - 1 /\ (i + 1) + 1 = i + 2
          BY <1>2
        <4>3. \A i \in 1 .. n - 2 : t2[i] = t[i + 1]
          BY <1>2, <3>3, <4>1
        <4>4. \A i \in 1 .. n - 2 : t[i + 1] = j[i + 2]
          BY <3>3, <4>2
        <4>5. Len(t2) = n - 2
          BY <1>2, <3>3, <4>1
        <4> QED
          BY <4>3, <4>4, <4>5
      <3>7. rest = FlattenSeq(t2)
        BY DEF t
      <3> HIDE DEF t2, rest
      <3>8. rest \in Seq(Byte)
        <4>1. rest \in Seq(Plain)
          BY <3>4, <3>7, FlattenType
        <4>2. Plain \subseteq Byte
          BY DEF Plain
        <4> QED
          BY <4>1, <4>2, SeqMonotonic
      <3>9. rest = <<>> \/ rest[1] = Space
        <4>1. CASE n = 2
          <5>1. t2 = <<>>
            BY <3>4, <3>6, <4>1, EmptySeq
          <5> QED
            BY <3>7, <5>1, FlattenEmpty
        <4>2. CASE n >= 3
          <5>1. t2 # <<>>
            BY <1>2, <3>6, <4>2, EmptySeq
          <5> DEFINE a == t2[1]
                     b == FlattenSeq(Tail(t2))
          <5>2. /\ a \in Seq(Plain) /\ Tail(t2) \in Seq(Seq(Plain))
                /\ rest = a \o b
            BY <3>4, <3>7, <5>1, FlattenHead
          <5>3. b \in Seq(Plain)
            BY <5>2, FlattenType
          <5>4. a = Sp \o line[3]
            <6>1. 1 \in 1 .. n - 2 /\ 1 + 2 = 3 /\ 3 \in 1 .. n /\ 3 # 1
              BY <1>2, <4>2
            <6>2. a = j[3]
              BY <3>6, <6>1
            <6>3. \A i \in 1 .. n : j[i] = IF i = 1 THEN line[i] ELSE Sp \o line[i]
              BY <1>5
            <6> QED
              BY <6>1, <6>2, <6>3, Zenon
          <5>5. Len(a) >= 1 /\ a[1] = Space
            <6> DEFINE x == line[3]
            <6>1. x \in Seq(Plain)
              BY <1>2, <1>3, <4>2
            <6>2. Len(Sp) = 1 /\ Sp[1] = Space /\ 1 \in 1 .. 1
              OBVIOUS
            <6> HIDE DEF x, Sp
            <6>3. /\ Len(Sp \o x) = Len(Sp) + Len(x) /\ Len(x) \in Nat
                  /\ \A i \in 1 .. Len(Sp) : (Sp \o x)[i] = Sp[i]
              BY <1>4, <6>1, ConcatIndex
            <6>4. a = Sp \o x
              BY <5>4 DEF x
            <6> HIDE DEF a
            <6> QED
              BY <6>2, <6>3, <6>4
          <5> HIDE DEF a, b
          <5>6. \A i \in 1 .. Len(a) : (a \o b)[i] = a[i]
            BY <5>2, <5>3, ConcatIndex
          <5>7. Len(a) \in Nat
            BY <5>2, LenProperties
          <5>8. 1 \in 1 .. Len(a)
            BY <5>5, <5>7
          <5>9. rest = a \o b
            BY <5>2
          <5> QED
            BY <5>5, <5>6, <5>8, <5>9, Zenon
        <4>3. n = 2 \/ n >= 3
          <5>1. n \in Nat
            BY <1>2
          <5>2. n >= 2
            BY <1>9
          <5> HIDE DEF n
          <5> QED
            BY <5>1, <5>2
        <4> QED
          BY <4>1, <4>2, <4>3, Zenon
      <3>10. L = v \o (sw \o rest)
        BY <1>6, <3>1, <3>2, <3>4, <3>5, <3>7, Zenon
      <3>11. Tail(j) \in Seq(Seq(Plain))
        BY <3>2 DEF t
      <3> QED
        BY <3>1, <3>2, <3>8, <3>9, <3>10, <3>11
    <2> HIDE DEF v, w, rest
    <2>4. /\ sw \in Seq(Byte) /\ Len(sw) = 1 + k /\ sw[1] = Space
          /\ \A i \in 1 .. k : sw[1 + i] = w[i]
      <3>1. Sp \in Seq(Byte) /\ Len(Sp) = 1 /\ Sp[1] = Space /\ 1 \in 1 .. 1
        BY Breaks
      <3> HIDE DEF Sp
      <3>2. /\ sw \in Seq(Byte) /\ Len(sw) = Len(Sp) + Len(w)
            /\ \A i \in 1 .. Len(Sp) : sw[i] = Sp[i]
            /\ \A i \in 1 .. Len(w) : sw[Len(Sp) + i] = w[i]
        <4>1. Sp \in Seq(Byte) /\ w \in Seq(Byte)
          BY <2>2, <3>1
        <4> QED
          BY <4>1, ConcatIndex
      <3> HIDE DEF sw
      <3> QED
        BY <3>1, <3>2
    <2> HIDE DEF sw
    <2>5. /\ wr \in Seq(Byte) /\ Len(wr) = Len(sw) + Len(rest) /\ Len(rest) \in Nat
          /\ \A i \in 1 .. Len(sw) : wr[i] = sw[i]
          /\ \A i \in 1 .. Len(rest) : wr[Len(sw) + i] = rest[i]
      <3>1. sw \in Seq(Byte) /\ rest \in Seq(Byte)
        BY <2>3, <2>4
      <3> QED
        BY <3>1, ConcatIndex
    <2> HIDE DEF wr
    <2>6. /\ L \in Seq(Byte) /\ Len(L) = m + Len(wr)
          /\ \A i \in 1 .. m : L[i] = v[i]
          /\ \A i \in 1 .. Len(wr) : L[m + i] = wr[i]
      <3>1. L = v \o wr
        BY <2>3 DEF wr
      <3>2. /\ v \o wr \in Seq(Byte) /\ Len(v \o wr) = Len(v) + Len(wr)
            /\ \A i \in 1 .. Len(v) : (v \o wr)[i] = v[i]
            /\ \A i \in 1 .. Len(wr) : (v \o wr)[Len(v) + i] = wr[i]
        <4>1. v \in Seq(Byte) /\ wr \in Seq(Byte)
          BY <2>2, <2>5
        <4> QED
          BY <4>1, ConcatIndex
      <3> QED
        BY <3>1, <3>2, Zenon
    <2>7. /\ L[m + 1] = Space
          /\ \A i \in 1 .. k : L[(m + 1) + i] = w[i]
          /\ Len(L) = (m + 1) + k + Len(rest)
          /\ rest # <<>> => L[(m + 1) + k + 1] = Space
      <3>1. L[m + 1] = Space
        <4>1. 1 \in 1 .. Len(wr) /\ 1 \in 1 .. Len(sw)
          BY <2>2, <2>4, <2>5
        <4> QED
          BY <2>4, <2>5, <2>6, <4>1
      <3>2. ASSUME NEW i \in 1 .. k PROVE L[(m + 1) + i] = w[i]
        <4>1. 1 + i \in 1 .. Len(wr) /\ 1 + i \in 1 .. Len(sw) /\ (m + 1) + i = m + (1 + i)
          BY <2>2, <2>4, <2>5
        <4> QED
          BY <2>4, <2>5, <2>6, <4>1
      <3>3. Len(L) = (m + 1) + k + Len(rest)
        BY <2>2, <2>4, <2>5, <2>6
      <3>4. ASSUME rest # <<>> PROVE L[(m + 1) + k + 1] = Space
        <4>1. Len(rest) # 0 /\ rest[1] = Space
          BY <2>3, <3>4, EmptySeq
        <4>2. /\ 1 \in 1 .. Len(rest) /\ Len(sw) + 1 \in 1 .. Len(wr)
              /\ (m + 1) + k + 1 = m + (Len(sw) + 1)
          BY <2>2, <2>4, <2>5, <4>1
        <4> QED
          BY <2>5, <2>6, <4>1, <4>2
      <3> QED
        BY <3>1, <3>2, <3>3, <3>4
    <2>8. Extract(L, 0, old).word = v /\ Extract(L, 0, old).pos = m
      <3>1. /\ 0 < 1 /\ 1 <= m /\ m <= Len(L)
            /\ \A i \in 0 + 1 .. 1 - 1 : IsSpace(L[i])
            /\ \A i \in 1 .. m : ~IsSpace(L[i])
            /\ IsSpace(L[m + 1])
        <4>1. 1 <= m /\ m <= Len(L)
          BY <2>2, <2>5, <2>7
        <4>2. \A i \in 1 .. m : ~IsSpace(L[i])
          BY <2>2, <2>6
        <4>3. IsSpace(L[m + 1])
          BY <2>7 DEF IsSpace
        <4> QED
          BY <4>1, <4>2, <4>3
      <3>2. Extract(L, 0, old).word = SubSeq(L, 1, m) /\ Extract(L, 0, old).pos = m
        <4>1. 0 \in Nat /\ 1 \in Nat /\ m \in Nat /\ L \in Seq(Byte)
          BY <1>8, <2>2
        <4>2. \A i \in Nat, i2 \in Nat :
                 /\ 0 < i /\ i <= i2 /\ i2 <= Len(L)
                 /\ \A p \in 0 + 1 .. i - 1 : IsSpace(L[p])
                 /\ \A p \in i .. i2 : ~IsSpace(L[p])
                 /\ i2 = Len(L) \/ IsSpace(L[i2 + 1])
                 => /\ Extract(L, 0, old).word = SubSeq(L, i, i2)
                    /\ Extract(L, 0, old).pos = i2
          BY <4>1, ExtractWord
        <4> QED
          BY <3>1, <4>1, <4>2, ZenonT(60)
      <3>3. SubSeq(L, 0 + 1, 0 + Len(v)) = v
        <4>1. 0 \in Nat /\ 0 + Len(v) <= Len(L) /\ \A i \in 1 .. Len(v) : L[0 + i] = v[i]
          BY <2>2, <2>6, <3>1
        <4> QED
          BY <1>8, <2>2, <4>1, Cut
      <3>4. 0 + 1 = 1 /\ 0 + Len(v) = m
        BY <2>2
      <3> QED
        BY <3>2, <3>3, <3>4
    <2>9. Extract(L, m, old2).word = w
      <3> DEFINE a == (m + 1) + 1
                 b == (m + 1) + k
      <3>1. /\ a \in Nat /\ b \in Nat /\ m < a /\ a <= b /\ b <= Len(L)
            /\ \A i \in m + 1 .. a - 1 : IsSpace(L[i])
            /\ \A i \in a .. b : ~IsSpace(L[i])
            /\ (b = Len(L) \/ IsSpace(L[b + 1]))
        <4>1. a \in Nat /\ b \in Nat /\ m < a /\ a <= b /\ b <= Len(L)
          BY <2>2, <2>5, <2>7
        <4>2. \A i \in m + 1 .. a - 1 : IsSpace(L[i])
          <5>1. IsSpace(L[m + 1])
            BY <2>7 DEF IsSpace
          <5>2. \A i \in m + 1 .. a - 1 : i = m + 1
            BY <2>2
          <5> QED
            BY <5>1, <5>2
        <4>3. ASSUME NEW i \in a .. b PROVE ~IsSpace(L[i])
          <5>1. i - (m + 1) \in 1 .. k /\ i = (m + 1) + (i - (m + 1))
            BY <2>2
          <5>2. PICK p \in 1 .. k : i = (m + 1) + p
            BY <5>1
          <5> QED
            BY <2>2, <2>7, <5>2
        <4>4. b = Len(L) \/ IsSpace(L[b + 1])
          <5>1. CASE rest = <<>>
            <6>1. Len(rest) = 0
              BY <5>1, EmptySeq
            <6> QED
              BY <2>2, <2>7, <6>1
          <5>2. CASE rest # <<>>
            BY <2>7, <5>2 DEF IsSpace
          <5> QED
            BY <5>1, <5>2
        <4> QED
          BY <4>1, <4>2, <4>3, <4>4
      <3> HIDE DEF a, b
      <3>2. Extract(L, m, old2).word = SubSeq(L, a, b)
        <4>1. m \in Nat /\ L \in Seq(Byte)
          BY <1>8, <2>2
        <4>2. \A i \in Nat, i2 \in Nat :
                 /\ m < i /\ i <= i2 /\ i2 <= Len(L)
                 /\ \A p \in m + 1 .. i - 1 : IsSpace(L[p])
                 /\ \A p \in i .. i2 : ~IsSpace(L[p])
                 /\ i2 = Len(L) \/ IsSpace(L[i2 + 1])
                 => /\ Extract(L, m, old2).word = SubSeq(L, i, i2)
                    /\ Extract(L, m, old2).pos = i2
          <5> HIDE DEF m
          <5> QED
            BY <4>1, ExtractWord
        <4> QED
          BY <3>1, <4>2, ZenonT(60)
      <3>3. SubSeq(L, (m + 1) + 1, (m + 1) + Len(w)) = w
        <4>1. m + 1 \in Nat /\ (m + 1) + Len(w) <= Len(L)
              /\ \A i \in 1 .. Len(w) : L[(m + 1) + i] = w[i]
          BY <2>2, <2>5, <2>7
        <4> QED
          BY <1>8, <2>2, <4>1, Cut
      <3> QED
        BY <3>2, <3>3 DEF a, b
    <2> QED
      BY <2>8, <2>9 DEF v, w
  <1> QED
    BY <1>8, <1>9 DEF L, line
------------------------------------------------------------------------------
\* A request, byte by byte: where the first line ends, where the header lines
\* end, what stands behind the empty line.
LEMMA RequestBytes ==
  ASSUME NEW r \in Requests
  PROVE  LET T == Texts[r]  l == Len(Line(r))  h == Len(HeaderLines(r))
             E == l + h     B == BodyText(r.form)
         IN  /\ T \in Seq(Byte) /\ Len(T) < NPos /\ Len(T) \in Nat
             /\ l \in Nat /\ h \in Nat /\ E \in Nat /\ Len(B) \in Nat
             /\ Len(T) = E + 4 + Len(B)
             /\ \A i \in 1 .. l : T[i] = Line(r)[i]
             /\ \A i \in 1 .. h : T[l + i] = HeaderLines(r)[i]
             /\ T[E + 1] = Cr /\ T[E + 2] = Lf /\ T[E + 3] = Cr /\ T[E + 4] = Lf
             /\ \A i \in 1 .. Len(B) : T[(E + 4) + i] = B[i]
  <1> DEFINE T == Texts[r]
             L == Line(r)
             H == HeaderLines(r)
             B == BodyText(r.form)
             X == L \o H
             C == Crlf \o Crlf
             Y == C \o B
             l == Len(L)
             h == Len(H)
             E == l + h
  <1>1. T \in Seq(Byte) /\ Len(T) < NPos /\ Len(T) \in Nat
    <2>1. T \in Seq(Byte) /\ Len(T) + Len(<<>>) < NPos
      BY TextsFit
    <2>2. Len(<<>>) = 0
      BY EmptySeq
    <2> HIDE DEF T
    <2> QED
      BY <2>1, <2>2, LenProperties
  <1>2. T = X \o Y
    <2>1. T = RequestText(r)
      BY DEF Texts
    <2>2. L \in Seq(Byte) /\ r.headers \in Seq(Seq(Byte)) /\ B \in Seq(Byte)
      BY LineWords, GuardedLines, RequestsWellFormed, BodyIsText DEF Fields
    <2>3. RequestText(r) = Join(<<L>> \o r.headers \o <<<<>>, B>>, Crlf)
      BY DEF RequestText, Line
    <2> DEFINE headers == r.headers
    <2>4. headers \in Seq(Seq(Byte))
      BY <2>2
    <2>5. H = FlattenSeq([i \in DOMAIN headers |-> Crlf \o headers[i]])
      BY DEF HeaderLines
    <2> HIDE DEF L, B, H, headers
    <2>6. Join(<<L>> \o headers \o <<<<>>, B>>, Crlf) =
            (L \o FlattenSeq([i \in DOMAIN headers |-> Crlf \o headers[i]])) \o ((Crlf \o Crlf) \o B)
      BY <2>2, <2>4, RequestParts
    <2> QED
      BY <2>1, <2>3, <2>5, <2>6, Zenon DEF headers
  <1>3. L \in Seq(Byte) /\ H \in Seq(Byte)
    BY LineWords, GuardedLines DEF Guarded
  <1>4. B \in Seq(Byte)
    BY RequestsWellFormed, BodyIsText DEF Fields
  <1>5. C \in Seq(Byte) /\ Len(C) = 4 /\ C[1] = Cr /\ C[2] = Lf /\ C[3] = Cr /\ C[4] = Lf
    BY Breaks
  <1> HIDE DEF T, L, H, B, C
  <1>6. /\ X \in Seq(Byte) /\ Len(X) = l + h /\ l \in Nat /\ h \in Nat
        /\ \A i \in 1 .. l : X[i] = L[i]
        /\ \A i \in 1 .. h : X[l + i] = H[i]
    BY <1>3, ConcatIndex
  <1>7. /\ Y \in Seq(Byte) /\ Len(Y) = Len(C) + Len(B) /\ Len(B) \in Nat
        /\ \A i \in 1 .. Len(C) : Y[i] = C[i]
        /\ \A i \in 1 .. Len(B) : Y[Len(C) + i] = B[i]
    <2>1. C \in Seq(Byte) /\ B \in Seq(Byte)
      BY <1>4, <1>5
    <2> QED
      BY <2>1, ConcatIndex
  <1> HIDE DEF X, Y, l, h
  <1>8. /\ Len(X \o Y) = Len(X) + Len(Y)
        /\ \A i \in 1 .. Len(X) : (X \o Y)[i] = X[i]
        /\ \A i \in 1 .. Len(Y) : (X \o Y)[Len(X) + i] = Y[i]
    <2>1. X \in Seq(Byte) /\ Y \in Seq(Byte)
      BY <1>6, <1>7
    <2> QED
      BY <2>1, ConcatIndex
  <1>9. /\ Len(T) = Len(X) + Len(Y)
        /\ \A i \in 1 .. Len(X) : T[i] = X[i]
        /\ \A i \in 1 .. Len(Y) : T[Len(X) + i] = Y[i]
    BY <1>2, <1>8, Zenon
  <1>10. E \in Nat /\ Len(X) = E /\ Len(Y) = 4 + Len(B)
    BY <1>5, <1>6, <1>7
  <1>11. Len(T) = E + 4 + Len(B)
    BY <1>7, <1>9, <1>10
  <1>12. ASSUME NEW i \in 1 .. l PROVE T[i] = L[i]
    <2>1. i \in 1 .. Len(X)
      BY <1>6
    <2> QED
      BY <1>6, <1>9, <2>1
  <1>13. ASSUME NEW i \in 1 .. h PROVE T[l + i] = H[i]
    <2>1. l + i \in 1 .. Len(X)
      BY <1>6
    <2> QED
      BY <1>6, <1>9, <2>1
  <1>14. T[E + 1] = Cr /\ T[E + 2] = Lf /\ T[E + 3] = Cr /\ T[E + 4] = Lf
    <2>1. \A i \in 1 .. 4 : i \in 1 .. Len(Y) /\ i \in 1 .. Len(C)
      BY <1>5, <1>7, <1>10
    <2>2. \A i \in 1 .. 4 : T[E + i] = C[i]
      BY <1>7, <1>9, <1>10, <2>1
    <2>3. 1 \in 1 .. 4 /\ 2 \in 1 .. 4 /\ 3 \in 1 .. 4 /\ 4 \in 1 .. 4
      OBVIOUS
    <2> HIDE DEF E
    <2> QED
      BY <1>5, <2>2, <2>3
  <1>15. ASSUME NEW i \in 1 .. Len(B) PROVE T[(E + 4) + i] = B[i]
    <2>1. 4 + i \in 1 .. Len(Y) /\ (E + 4) + i = E + (4 + i)
      BY <1>7, <1>10
    <2>2. T[E + (4 + i)] = Y[4 + i]
      BY <1>9, <1>10, <2>1
    <2>3. Y[4 + i] = B[i]
      BY <1>5, <1>7
    <2> QED
      BY <2>1, <2>2, <2>3
  <1> QED
    BY <1>1, <1>6, <1>7, <1>10, <1>11, <1>12, <1>13, <1>14, <1>15 DEF T, L, H, B, l, h

\* What HttpParser looks for and cuts out of a request.
LEMMA RequestLayout ==
  ASSUME NEW r \in Requests
  PROVE  LET T == Texts[r]  l == Len(Line(r))  E == l + Len(HeaderLines(r))
         IN  /\ Find(T, Crlf, 0) = l
             /\ SubStr(T, 0, l) = Line(r)
             /\ Find(T, Crlf \o Crlf, l) = E
             /\ SubStr(T, E + 4, NPos) = BodyText(r.form)
  <1> DEFINE T == Texts[r]
             L == Line(r)
             H == HeaderLines(r)
             B == BodyText(r.form)
             l == Len(L)
             h == Len(H)
             E == l + h
  <1>1. /\ T \in Seq(Byte) /\ Len(T) < NPos /\ Len(T) \in Nat
        /\ l \in Nat /\ h \in Nat /\ E \in Nat /\ Len(B) \in Nat
        /\ Len(T) = E + 4 + Len(B)
    BY RequestBytes
  <1>2. \A i \in 1 .. l : T[i] = L[i]
    BY RequestBytes
  <1>3. \A i \in 1 .. h : T[l + i] = H[i]
    BY RequestBytes
  <1>4. T[E + 1] = Cr /\ T[E + 2] = Lf /\ T[E + 3] = Cr /\ T[E + 4] = Lf
    BY RequestBytes
  <1>5. \A i \in 1 .. Len(B) : T[(E + 4) + i] = B[i]
    BY RequestBytes
  <1>6. L \in Seq(Byte) /\ \A i \in 1 .. l : L[i] # Cr
    BY LineWords
  <1>7. /\ \A p \in 1 .. h : H[p] = Cr => p + 2 <= h /\ H[p + 2] # Cr
        /\ H # <<>> => h >= 2 /\ H[1] = Cr /\ H[2] = Lf
        /\ H \in Seq(Byte)
    BY GuardedLines DEF Guarded
  <1>8. B \in Seq(Byte)
    BY RequestsWellFormed, BodyIsText DEF Fields
  <1>9. H = <<>> <=> h = 0
    BY <1>7, EmptySeq
  <1>10. NPos \in Nat /\ Crlf \in Seq(Byte) /\ Crlf \o Crlf \in Seq(Byte)
    BY NPosIsLarge, Breaks
  <1> HIDE DEF T, L, H, B, l, h
  <1>11. Find(T, Crlf, 0) = l
    <2>1. T[l + 1] = Cr /\ T[l + 2] = Lf
      <3>1. CASE h = 0
        <4>1. E + 1 = l + 1 /\ E + 2 = l + 2
          BY <1>1, <3>1
        <4> QED
          BY <1>4, <4>1
      <3>2. CASE h # 0
        <4>1. h >= 2 /\ H[1] = Cr /\ H[2] = Lf /\ 1 \in 1 .. h /\ 2 \in 1 .. h
          BY <1>1, <1>7, <1>9, <3>2
        <4> QED
          BY <1>3, <4>1
      <3> QED
        BY <3>1, <3>2
    <2>2. l \in Hits(T, Crlf, 0)
      <3>1. l \in Nat /\ l >= 0 /\ l + 2 <= Len(T)
        BY <1>1
      <3> QED
        BY <1>1, <2>1, <3>1, HitsOfBreaks
    <2>3. \A i \in Hits(T, Crlf, 0) : ~(i < l)
      <3> SUFFICES ASSUME NEW i \in Hits(T, Crlf, 0), i < l PROVE FALSE
        OBVIOUS
      <3>1. i \in Nat /\ T[i + 1] = Cr
        BY <1>1, HitsOfBreaks
      <3>2. i + 1 \in 1 .. l
        BY <1>1, <3>1
      <3> QED
        BY <1>2, <1>6, <3>1, <3>2
    <2>4. 0 \in Nat /\ T \in Seq(Byte) /\ Len(T) < NPos
      BY <1>1
    <2> QED
      BY <1>10, <2>2, <2>3, <2>4, FindFirst
  <1>12. SubStr(T, 0, l) = L
    <2>1. ~(l > Len(T) - 0) /\ 0 \in Nat /\ 0 + l <= Len(T) /\ T \in Seq(Byte)
      BY <1>1
    <2>2. SubStr(T, 0, l) = SubSeq(T, 0 + 1, 0 + l)
      BY <2>1, Zenon DEF SubStr
    <2>3. \A i \in 1 .. l : T[0 + i] = L[i]
      BY <1>2
    <2>4. SubSeq(T, 0 + 1, 0 + l) = L
      BY <1>6, <2>1, <2>3, Cut DEF l
    <2> QED
      BY <2>2, <2>4
  <1>13. Find(T, Crlf \o Crlf, l) = E
    <2>1. E \in Hits(T, Crlf \o Crlf, l)
      <3>1. E \in Nat /\ E >= l /\ E + 4 <= Len(T)
        BY <1>1
      <3> HIDE DEF E
      <3> QED
        BY <1>1, <1>4, <3>1, HitsOfBreaks
    <2>2. \A i \in Hits(T, Crlf \o Crlf, l) : ~(i < E)
      <3> SUFFICES ASSUME NEW i \in Hits(T, Crlf \o Crlf, l), i < E PROVE FALSE
        OBVIOUS
      <3>1. i \in Nat /\ i >= l /\ T[i + 1] = Cr /\ T[i + 3] = Cr
        BY <1>1, HitsOfBreaks
      <3>2. PICK p \in 1 .. h : i + 1 = l + p
        <4>1. (i + 1) - l \in 1 .. h /\ i + 1 = l + ((i + 1) - l)
          BY <1>1, <3>1
        <4> QED
          BY <4>1
      <3>3. H[p] = Cr
        BY <1>3, <3>1, <3>2
      <3>4. p + 2 <= h /\ H[p + 2] # Cr
        BY <1>7, <3>3
      <3>5. p + 2 \in 1 .. h /\ l + (p + 2) = i + 3
        BY <1>1, <3>1, <3>2, <3>4
      <3>6. T[l + (p + 2)] = H[p + 2]
        BY <1>3, <3>5
      <3> QED
        BY <3>1, <3>4, <3>5, <3>6
    <2>3. T \in Seq(Byte) /\ Len(T) < NPos /\ l \in Nat
      BY <1>1
    <2> HIDE DEF E
    <2> QED
      BY <1>10, <2>1, <2>2, <2>3, FindFirst
  <1>14. SubStr(T, E + 4, NPos) = B
    <2>1. /\ E + 4 \in Nat /\ (E + 4) + Len(B) <= Len(T) /\ T \in Seq(Byte)
          /\ NPos > Len(T) - (E + 4) /\ Len(T) = (E + 4) + Len(B)
      BY <1>1, <1>10
    <2>2. SubStr(T, E + 4, NPos) = SubSeq(T, (E + 4) + 1, Len(T))
      BY <2>1, Zenon DEF SubStr
    <2>3. SubSeq(T, (E + 4) + 1, (E + 4) + Len(B)) = B
      <3> DEFINE m == E + 4
      <3>1. m \in Nat /\ m + Len(B) <= Len(T) /\ \A i \in 1 .. Len(B) : T[m + i] = B[i]
        BY <1>5, <2>1
      <3> HIDE DEF m
      <3>2. SubSeq(T, m + 1, m + Len(B)) = B
        BY <1>1, <1>8, <3>1, Cut
      <3> QED
        BY <3>2 DEF m
    <2> QED
      BY <2>1, <2>2, <2>3
  <1> QED
    BY <1>11, <1>12, <1>13, <1>14 DEF T, L, H, B, l, h
------------------------------------------------------------------------------
\* What UrlDecode makes of a form whose values are well escaped is the form with
\* its values decoded.
LEMMA BodyDecoded ==
  ASSUME NEW form \in Seq(Fields), \A i \in DOMAIN form : ~Aborts(form[i].value)
  PROVE  /\ Decoded(form) \in Seq(Fields)
         /\ ~Aborts(BodyText(form))
         /\ UrlDecode(BodyText(form)) = BodyText(Decoded(form))
  <1> DEFINE d == Decoded(form)
             w == Segments(form)
             g == Segments(d)
             j == Joined(w, And)
             p == Joined(g, And)
  <1>1. DOMAIN form = 1 .. Len(form) /\ Len(form) \in Nat
        /\ \A i \in DOMAIN form : form[i].key \in Keys /\ form[i].value \in Seq(Byte)
    BY FormTexts
  <1>2. d \in Seq(Fields) /\ DOMAIN d = DOMAIN form /\ Len(d) = Len(form)
        /\ \A i \in DOMAIN form :
             d[i].key = form[i].key /\ d[i].value = UrlDecode(form[i].value)
    <2>1. \A i \in DOMAIN form : UrlDecode(form[i].value) \in Seq(Byte)
      BY <1>1, DecodeType
    <2> QED
      BY <1>1, <2>1 DEF Decoded, Fields
  <1> HIDE DEF d
  <1>3. ASSUME NEW i \in DOMAIN form
        PROVE  /\ Segment(form[i]) \in Seq(Byte) /\ ~Aborts(Segment(form[i]))
               /\ UrlDecode(Segment(form[i])) = Segment(d[i])
    <2> DEFINE key == form[i].key
               u == Lit[key] \o Equal
               v == form[i].value
    <2>1. Lit[key] \in Seq(Byte) /\ ~Aborts(Lit[key]) /\ UrlDecode(Lit[key]) = Lit[key]
      <3>1. Lit[key] \in Seq(Byte) /\ \A k \in DOMAIN Lit[key] : Lit[key][k] \notin {Percent, Plus}
        BY <1>1, KeyTexts
      <3> HIDE DEF key
      <3> QED
        BY <3>1, DecodePlain
    <2>2. u \in Seq(Byte)
      <3> HIDE DEF key
      <3> QED
        BY <2>1, KeyTexts, ConcatIndex
    <2>3. ~Aborts(u) /\ UrlDecode(u) = u
      <3> HIDE DEF key
      <3>1. ~Aborts(u) /\ UrlDecode(u) = UrlDecode(Lit[key]) \o UrlDecode(Equal)
        BY <2>1, KeyTexts, DecodeConcat
      <3> QED
        BY <2>1, <3>1, KeyTexts
    <2>4. v \in Seq(Byte) /\ ~Aborts(v) /\ d[i].value = UrlDecode(v) /\ d[i].key = key
      BY <1>1, <1>2
    <2>5. Segment(form[i]) = u \o v /\ Segment(d[i]) = u \o UrlDecode(v)
      BY <2>4 DEF Segment
    <2> HIDE DEF u, v
    <2>6. u \o v \in Seq(Byte)
      BY <2>2, <2>4, ConcatIndex
    <2>7. ~Aborts(u \o v) /\ UrlDecode(u \o v) = u \o UrlDecode(v)
      <3>1. ~Aborts(u \o v) /\ UrlDecode(u \o v) = UrlDecode(u) \o UrlDecode(v)
        BY <2>2, <2>3, <2>4, DecodeConcat
      <3> QED
        BY <2>3, <3>1
    <2> QED
      BY <2>5, <2>6, <2>7
  <1>4. /\ w \in Seq(Seq(Byte)) /\ Len(w) = Len(form) /\ BodyText(form) = Join(w, And)
        /\ \A i \in DOMAIN form : w[i] = Segment(form[i])
    BY FormTexts, BodyIsText
  <1>5. /\ g \in Seq(Seq(Byte)) /\ Len(g) = Len(form) /\ BodyText(d) = Join(g, And)
        /\ \A i \in DOMAIN form : g[i] = Segment(d[i])
    BY <1>2, FormTexts, BodyIsText
  <1> HIDE DEF w, g
  <1>6. /\ j \in Seq(Seq(Byte)) /\ Len(j) = Len(form) /\ Join(w, And) = FlattenSeq(j)
        /\ \A i \in DOMAIN form : j[i] = IF i = 1 THEN w[i] ELSE And \o w[i]
    <2>1. And \in Seq(Byte)
      BY KeyTexts
    <2>2. /\ j \in Seq(Seq(Byte)) /\ Len(j) = Len(w) /\ Join(w, And) = FlattenSeq(j)
          /\ \A i \in 1 .. Len(w) : j[i] = IF i = 1 THEN w[i] ELSE And \o w[i]
      BY <1>4, <2>1, JoinedType
    <2> HIDE DEF j
    <2> QED
      BY <1>1, <1>4, <2>2
  <1>7. /\ p \in Seq(Seq(Byte)) /\ Len(p) = Len(form) /\ Join(g, And) = FlattenSeq(p)
        /\ \A i \in DOMAIN form : p[i] = IF i = 1 THEN g[i] ELSE And \o g[i]
    <2>1. And \in Seq(Byte)
      BY KeyTexts
    <2>2. /\ p \in Seq(Seq(Byte)) /\ Len(p) = Len(g) /\ Join(g, And) = FlattenSeq(p)
          /\ \A i \in 1 .. Len(g) : p[i] = IF i = 1 THEN g[i] ELSE And \o g[i]
      BY <1>5, <2>1, JoinedType
    <2> HIDE DEF p
    <2> QED
      BY <1>1, <1>5, <2>2
  <1> HIDE DEF j, p
  <1>8. ASSUME NEW i \in DOMAIN form
        PROVE  ~Aborts(j[i]) /\ UrlDecode(j[i]) = p[i]
    <2>1. /\ w[i] \in Seq(Byte) /\ ~Aborts(w[i]) /\ UrlDecode(w[i]) = g[i]
          /\ j[i] = IF i = 1 THEN w[i] ELSE And \o w[i]
          /\ p[i] = IF i = 1 THEN g[i] ELSE And \o g[i]
      BY <1>3, <1>4, <1>5, <1>6, <1>7
    <2>2. ~Aborts(And \o w[i]) /\ UrlDecode(And \o w[i]) = UrlDecode(And) \o UrlDecode(w[i])
      BY <2>1, KeyTexts, DecodeConcat
    <2>3. UrlDecode(And \o w[i]) = And \o g[i]
      BY <2>1, <2>2, KeyTexts
    <2>4. CASE i = 1
      BY <2>1, <2>4
    <2>5. CASE i # 1
      BY <2>1, <2>2, <2>3, <2>5
    <2> QED
      BY <2>4, <2>5
  <1>9. DOMAIN j = DOMAIN form /\ DOMAIN p = DOMAIN form
    BY <1>1, <1>6, <1>7, LenProperties
  <1>10. ~Aborts(FlattenSeq(j))
         /\ UrlDecode(FlattenSeq(j)) = FlattenSeq([i \in DOMAIN j |-> UrlDecode(j[i])])
    BY <1>6, <1>8, <1>9, DecodeFlatten
  <1>11. [i \in DOMAIN j |-> UrlDecode(j[i])] = p
    <2>1. p = [i \in DOMAIN p |-> p[i]]
      BY <1>7, LenProperties
    <2> QED
      BY <1>8, <1>9, <2>1
  <1> QED
    BY <1>2, <1>4, <1>5, <1>6, <1>7, <1>10, <1>11 DEF d
------------------------------------------------------------------------------
\* A name that can be looked for: it has none of the signs around it.
Name(pat) ==
  /\ pat \in Seq(Byte) /\ pat # <<>>
  /\ \A i \in 1 .. Len(pat) : pat[i] \notin {61, 38}

\* In two texts with a sign between them, a name is found only in one of the two.
LEMMA NoHitConcat ==
  ASSUME NEW s \in Seq(Byte), NEW t \in Seq(Byte), NEW pat, Name(pat),
         Hits(s, pat, 0) = {}, Hits(t, pat, 0) = {},
         \/ s # <<>> => s[Len(s)] \in {61, 38}
         \/ t # <<>> => t[1] \in {61, 38}
  PROVE  Hits(s \o t, pat, 0) = {}
  <1> SUFFICES ASSUME NEW i \in Hits(s \o t, pat, 0) PROVE FALSE
    OBVIOUS
  <1> DEFINE u == s \o t
             m == Len(s)
             n == Len(t)
             l == Len(pat)
  <1>1. /\ u \in Seq(Byte) /\ Len(u) = m + n /\ m \in Nat /\ n \in Nat /\ l \in Nat /\ l > 0
        /\ \A j \in 1 .. m : u[j] = s[j]
        /\ \A j \in 1 .. n : u[m + j] = t[j]
    BY ConcatIndex, EmptySeq, LenProperties DEF Name
  <1>2. /\ m # 0 => s # <<>>
        /\ n # 0 => t # <<>>
    BY EmptySeq
  <1>3. pat \in Seq(Byte) /\ \A j \in 1 .. l : pat[j] \notin {61, 38}
    BY DEF Name
  <1>4. i \in Hits(u, pat, 0)
    OBVIOUS
  <1> HIDE DEF u, m, n, l
  <1>5. i \in Nat /\ i + l <= m + n /\ \A j \in 1 .. l : u[i + j] = pat[j]
    <2>1. u \in Seq(Byte) /\ pat \in Seq(Byte) /\ 0 \in Nat
      BY <1>1, <1>3
    <2>2. i \in Nat /\ i + Len(pat) <= Len(u) /\ \A j \in 1 .. Len(pat) : u[i + j] = pat[j]
      BY <1>4, <2>1, HitsAre
    <2> QED
      BY <1>1, <2>2 DEF l
  <1>6. CASE i + l <= m
    <2>1. \A j \in 1 .. l : s[i + j] = pat[j]
      <3>1. \A j \in 1 .. l : i + j \in 1 .. m
        BY <1>1, <1>5, <1>6
      <3> QED
        BY <1>1, <1>5, <3>1
    <2>2. i \in Hits(s, pat, 0)
      <3>1. i + Len(pat) <= Len(s) /\ \A j \in 1 .. Len(pat) : s[i + j] = pat[j]
        <4>1. i + l <= m /\ \A j \in 1 .. l : s[i + j] = pat[j]
          BY <1>6, <2>1
        <4> QED
          BY <4>1 DEF m, l
      <3>2. i \in Nat /\ i >= 0 /\ s \in Seq(Byte) /\ pat \in Seq(Byte) /\ 0 \in Nat
        BY <1>3, <1>5
      <3> QED
        BY <3>1, <3>2, HitsAre
    <2> QED
      BY <2>2
  <1>7. CASE i >= m
    <2> DEFINE k == i - m
    <2>1. k \in Nat /\ k + l <= n /\ m + k = i
      BY <1>1, <1>5, <1>7
    <2> HIDE DEF k
    <2>2. \A j \in 1 .. l : t[k + j] = pat[j]
      <3>1. \A j \in 1 .. l : k + j \in 1 .. n /\ m + (k + j) = i + j
        BY <1>1, <2>1
      <3>2. \A j \in 1 .. l : u[m + (k + j)] = t[k + j]
        BY <1>1, <3>1
      <3> QED
        BY <1>5, <3>1, <3>2
    <2>3. k \in Hits(t, pat, 0)
      <3>1. k + Len(pat) <= Len(t) /\ \A j \in 1 .. Len(pat) : t[k + j] = pat[j]
        BY <2>1, <2>2 DEF n, l
      <3>2. k \in Nat /\ k >= 0 /\ t \in Seq(Byte) /\ pat \in Seq(Byte) /\ 0 \in Nat
        BY <1>3, <2>1
      <3> QED
        BY <3>1, <3>2, HitsAre
    <2> QED
      BY <2>3
  <1>8. CASE i < m /\ m < i + l
    <2>1. m - i \in 1 .. l /\ i + (m - i) = m /\ m \in 1 .. m /\ m # 0
      BY <1>1, <1>5, <1>8
    <2>2. s[m] = pat[m - i] /\ s # <<>>
      BY <1>1, <1>2, <1>5, <2>1
    <2>3. (m + 1) - i \in 1 .. l /\ i + ((m + 1) - i) = m + 1 /\ 1 \in 1 .. n /\ n # 0
      BY <1>1, <1>5, <1>8
    <2>4. t[1] = pat[(m + 1) - i] /\ t # <<>>
      BY <1>1, <1>2, <1>5, <2>3
    <2>5. s[m] \notin {61, 38} /\ t[1] \notin {61, 38}
      BY <1>3, <2>1, <2>2, <2>3, <2>4
    <2> QED
      BY <2>2, <2>4, <2>5 DEF m
  <1> QED
    BY <1>1, <1>5, <1>6, <1>7, <1>8

\* In a sign by itself, and in no bytes, it is not found.
LEMMA NoHitSign ==
  ASSUME NEW pat, Name(pat)
  PROVE  Hits(<<>>, pat, 0) = {} /\ Hits(And, pat, 0) = {} /\ Hits(Equal, pat, 0) = {}
  <1>1. pat \in Seq(Byte) /\ Len(pat) \in Nat /\ Len(pat) > 0 /\ pat[1] \notin {61, 38}
    BY EmptySeq, LenProperties DEF Name
  <1>2. <<>> \in Seq(Byte) /\ Len(<<>>) = 0
    BY EmptySeq
  <1>3. Hits(<<>>, pat, 0) = {}
    <2> SUFFICES ASSUME NEW i \in Hits(<<>>, pat, 0) PROVE FALSE
      OBVIOUS
    <2>1. i \in Nat /\ i + Len(pat) <= 0
      BY <1>1, <1>2, HitsAre
    <2> QED
      BY <1>1, <2>1
  <1>4. ASSUME NEW c \in {61, 38}, NEW i \in Hits(<<c>>, pat, 0)
        PROVE  FALSE
    <2> DEFINE s == <<c>>
    <2>1. s \in Seq(Byte) /\ Len(s) = 1 /\ s[1] = c /\ i \in Hits(s, pat, 0)
      BY <1>4 DEF Byte
    <2> HIDE DEF s
    <2>2. i \in Nat /\ i + Len(pat) <= 1 /\ \A j \in 1 .. Len(pat) : s[i + j] = pat[j]
      BY <1>1, <2>1, HitsAre
    <2>3. i = 0 /\ 1 \in 1 .. Len(pat)
      BY <1>1, <2>2
    <2>4. s[0 + 1] = pat[1]
      BY <2>2, <2>3
    <2> QED
      BY <1>1, <2>1, <2>4
  <1> QED
    BY <1>3, <1>4 DEF And, Equal

\* What may stand before a segment, and behind one.
Before(pat) ==
  {s \in Seq(Byte) : s # <<>> => Hits(s, pat, 0) = {} /\ s[Len(s)] = 38}
Behind == {s \in Seq(Byte) : s # <<>> => s[1] = 38}

\* What stands behind a segment is begun by an ampersand, whatever follows it.
LEMMA BehindConcat ==
  /\ Behind \in SUBSET Seq(Byte) /\ <<>> \in Behind
  /\ \A s \in Seq(Byte) : And \o s \in Behind
  /\ \A s, t \in Behind : s \o t \in Behind
  <1>1. Behind \in SUBSET Seq(Byte) /\ <<>> \in Behind
    BY EmptySeq DEF Behind
  <1>2. ASSUME NEW s \in Seq(Byte)
        PROVE  And \o s \in Behind
    <2>1. And \in Seq(Byte) /\ Len(And) = 1 /\ And[1] = 38
      BY DEF And, Byte
    <2>2. And \o s \in Seq(Byte) /\ \A i \in 1 .. Len(And) : (And \o s)[i] = And[i]
      BY <2>1, ConcatIndex
    <2>3. (And \o s)[1] = 38
      BY <2>1, <2>2
    <2> QED
      BY <2>2, <2>3 DEF Behind
  <1>3. ASSUME NEW s \in Behind, NEW t \in Behind
        PROVE  s \o t \in Behind
    <2>1. /\ s \in Seq(Byte) /\ t \in Seq(Byte) /\ (s # <<>> => s[1] = 38)
          /\ Len(s) \in Nat /\ (s # <<>> => Len(s) > 0)
      BY EmptySeq, LenProperties DEF Behind
    <2>2. CASE s = <<>>
      <3>1. s \o t = t
        BY <2>1, <2>2, ConcatEmptySeq
      <3> QED
        BY <3>1
    <2>3. CASE s # <<>>
      <3>1. s \o t \in Seq(Byte) /\ \A i \in 1 .. Len(s) : (s \o t)[i] = s[i]
        BY <2>1, ConcatIndex
      <3>2. (s \o t)[1] = 38
        BY <2>1, <2>3, <3>1
      <3> QED
        BY <3>1, <3>2 DEF Behind
    <2> QED
      BY <2>2, <2>3
  <1> QED
    BY <1>1, <1>2, <1>3

\* Joining texts is associative.
LEMMA TextsAssociate ==
  ASSUME NEW r \in Seq(Byte), NEW s \in Seq(Byte), NEW t \in Seq(Byte)
  PROVE  (r \o s) \o t = r \o (s \o t)
  BY ConcatAssociative

\* Words with ampersands between them, seen from one of them: a name that is
\* found in no other word is not found before it.
LEMMA Around ==
  ASSUME NEW words \in Seq(Seq(Byte)), NEW n \in 1 .. Len(words), NEW pat, Name(pat),
         \A j \in 1 .. Len(words) : j # n => Hits(words[j], pat, 0) = {}
  PROVE  \E x \in Before(pat), y \in Behind : Join(words, And) = (x \o words[n]) \o y
  <1> DEFINE seqs == Joined(words, And)
             m == Len(words)
  <1>1. And \in Seq(Byte) /\ And # <<>> /\ And[Len(And)] = 38 /\ And[1] = 38
    BY DEF And, Byte
  <1>2. /\ seqs \in Seq(Seq(Byte)) /\ Len(seqs) = m /\ Join(words, And) = FlattenSeq(seqs)
        /\ \A i \in 1 .. m : seqs[i] = IF i = 1 THEN words[i] ELSE And \o words[i]
    BY <1>1, JoinedType
  <1>3. m \in Nat /\ n \in 1 .. m /\ \A i \in 1 .. m : words[i] \in Seq(Byte)
    BY LenProperties, ElementOfSeq
  <1> HIDE DEF seqs
  <1>4. PICK f : Flattens(f, seqs, Byte)
    BY <1>2, FlattenStep
  <1>5. /\ f[0] = <<>> /\ \A i \in 0 .. m : f[i] \in Seq(Byte)
        /\ \A i \in 0 .. m - 1 : f[i + 1] = f[i] \o seqs[i + 1]
    BY <1>2, <1>4 DEF Flattens
  <1> HIDE DEF m
  \* Before the word the name is not found, ...
  <1> DEFINE T == {i \in Nat : i < n => Hits(f[i], pat, 0) = {}}
  <1>6. 0 \in T
    BY <1>5, NoHitSign
  <1>7. ASSUME NEW i \in 0 .. n - 1, i \in T
        PROVE  i + 1 \in T
    <2> SUFFICES ASSUME i + 1 < n PROVE Hits(f[i + 1], pat, 0) = {}
      <3>1. i + 1 \in Nat
        OBVIOUS
      <3> QED
        BY <3>1
    <2>1. i + 1 \in 1 .. m /\ i \in 0 .. m /\ i \in 0 .. m - 1 /\ i + 1 # n /\ i < n
      BY <1>3
    <2>2. Hits(f[i], pat, 0) = {} /\ Hits(words[i + 1], pat, 0) = {}
      BY <1>7, <2>1 DEF m
    <2>3. f[i + 1] = f[i] \o seqs[i + 1] /\ f[i] \in Seq(Byte) /\ words[i + 1] \in Seq(Byte)
      BY <1>3, <1>5, <2>1
    <2>4. CASE i = 0
      <3>1. seqs[i + 1] = words[i + 1] /\ f[i] = <<>>
        BY <1>2, <1>5, <2>1, <2>4 DEF m
      <3> QED
        BY <2>2, <2>3, <3>1, NoHitConcat
    <2>5. CASE i # 0
      <3>1. seqs[i + 1] = And \o words[i + 1]
        <4>1. i + 1 # 1
          BY <2>5
        <4> QED
          BY <1>2, <2>1, <4>1 DEF m
      <3> DEFINE t == And \o words[i + 1]
      <3>2. t \in Behind
        BY <2>3, BehindConcat
      <3>3. Hits(t, pat, 0) = {}
        BY <1>1, <2>2, <2>3, NoHitSign, NoHitConcat
      <3> HIDE DEF t
      <3>4. t \in Seq(Byte) /\ (t # <<>> => t[1] \in {61, 38})
        BY <3>2 DEF Behind
      <3>5. Hits(f[i] \o t, pat, 0) = {}
        BY <2>2, <2>3, <3>3, <3>4, NoHitConcat
      <3> QED
        BY <2>3, <3>1, <3>5 DEF t
    <2> QED
      BY <2>4, <2>5
  <1>8. n - 1 \in 0 .. m /\ Hits(f[n - 1], pat, 0) = {}
    <2> HIDE DEF T
    <2>1. \A i \in 0 .. n : i \in T
      <3>1. n \in Nat
        BY <1>3
      <3> QED
        BY <1>6, <1>7, <3>1, UpTo
    <2>2. n - 1 \in T /\ n - 1 < n /\ n - 1 \in 0 .. m
      BY <1>3, <2>1
    <2> QED
      BY <2>2 DEF T
  <1>9. ASSUME TRUE
        PROVE  \E x \in Before(pat) : f[n] = x \o words[n]
    <2>1. f[n] = f[n - 1] \o seqs[n] /\ words[n] \in Seq(Byte) /\ f[n - 1] \in Seq(Byte)
      <3>1. n - 1 \in 0 .. m - 1 /\ (n - 1) + 1 = n
        BY <1>3
      <3>2. f[(n - 1) + 1] = f[n - 1] \o seqs[(n - 1) + 1]
        BY <1>5, <3>1
      <3> QED
        BY <1>3, <1>5, <1>8, <3>1, <3>2
    <2>2. CASE n = 1
      <3>1. f[n] = <<>> \o words[n] /\ <<>> \in Before(pat)
        <4>1. f[n - 1] = <<>> /\ seqs[n] = words[n]
          BY <1>2, <1>3, <1>5, <2>2 DEF m
        <4> QED
          BY <2>1, <4>1, EmptySeq DEF Before
      <3> QED
        BY <3>1
    <2>3. CASE n # 1
      <3> DEFINE x == f[n - 1] \o And
      <3>1. seqs[n] = And \o words[n]
        BY <1>2, <1>3, <2>3 DEF m
      <3>2. f[n] = x \o words[n]
        <4> DEFINE a == f[n - 1]
                   b == words[n]
                   c == And
        <4>1. a \in Seq(Byte) /\ b \in Seq(Byte) /\ c \in Seq(Byte)
          BY <1>1, <2>1
        <4>2. f[n] = a \o (c \o b) /\ x = a \o c
          BY <2>1, <3>1
        <4> HIDE DEF a, b, c, x
        <4>3. (a \o c) \o b = a \o (c \o b)
          BY <4>1, TextsAssociate
        <4> QED
          BY <4>2, <4>3 DEF b
      <3>3. x \in Seq(Byte) /\ x[Len(x)] = 38
        BY <1>1, <2>1, LastOfConcat
      <3>4. Hits(x, pat, 0) = {}
        BY <1>1, <1>8, <2>1, NoHitSign, NoHitConcat
      <3> HIDE DEF x
      <3>5. x \in Before(pat)
        BY <3>3, <3>4 DEF Before
      <3> QED
        BY <3>2, <3>5
    <2> QED
      BY <2>2, <2>3
  \* ... and the words behind it are behind an ampersand.
  <1> DEFINE rest == SubSeq(seqs, n + 1, m)
  <1>10. FlattenSeq(seqs) = f[n] \o FlattenSeq(rest) /\ FlattenSeq(rest) \in Behind
    <2>1. \A i \in n + 1 .. m : seqs[i] \in Behind
      <3> SUFFICES ASSUME NEW i \in n + 1 .. m PROVE seqs[i] \in Behind
        OBVIOUS
      <3>1. i \in 1 .. m /\ i # 1
        BY <1>3
      <3>2. seqs[i] = And \o words[i] /\ words[i] \in Seq(Byte)
        BY <1>2, <1>3, <3>1 DEF m
      <3> QED
        BY <3>2, BehindConcat
    <2>2. rest \in Seq(Behind)
      <3>1. n + 1 \in Int /\ m \in Int
        BY <1>3
      <3> QED
        BY <2>1, <3>1, SubSeqProperties
    <2> DEFINE first == SubSeq(seqs, 1, n)
    <2>3. first \o rest = seqs
      <3>1. 1 \in 1 .. Len(seqs) + 1 /\ n \in 1 - 1 .. Len(seqs) /\ m \in n .. Len(seqs)
        BY <1>2, <1>3 DEF m
      <3>2. first \o rest = SubSeq(seqs, 1, m)
        BY <1>2, <3>1, ConcatAdjacentSubSeq
      <3>3. SubSeq(seqs, 1, m) = seqs
        BY <1>2, SubSeqFull DEF m
      <3> QED
        BY <3>2, <3>3
    <2>4. first \in Seq(Seq(Byte))
      <3>1. \A i \in 1 .. n : seqs[i] \in Seq(Byte)
        BY <1>2, <1>3, ElementOfSeq DEF m
      <3>2. 1 \in Int /\ n \in Int
        BY <1>3
      <3> QED
        BY <3>1, <3>2, SubSeqProperties
    <2>5. f[n] = FlattenSeq(first)
      <3>1. n \in 0 .. Len(seqs)
        BY <1>2, <1>3 DEF m
      <3> QED
        BY <1>2, <1>4, <3>1, FlattenFirst
    <2> HIDE DEF first, rest
    <2>6. rest \in Seq(Seq(Byte))
      BY <2>2, BehindConcat
    <2>7. FlattenSeq(first \o rest) = FlattenSeq(first) \o FlattenSeq(rest)
      BY <2>4, <2>6, FlattenConcat
    <2>8. FlattenSeq(rest) \in Behind
      BY <2>2, BehindConcat, FlattenKeeps
    <2> QED
      BY <2>3, <2>5, <2>7, <2>8
  <1> HIDE DEF rest
  <1> QED
    BY <1>2, <1>9, <1>10, Zenon
------------------------------------------------------------------------------
\* Where an ampersand is found, and where an equals sign is.
LEMMA HitsOfSigns ==
  ASSUME NEW s \in Seq(Byte), NEW pos \in Nat, NEW i
  PROVE  /\ i \in Hits(s, And, pos) <=>
              i \in Nat /\ i >= pos /\ i + 1 <= Len(s) /\ s[i + 1] = 38
         /\ i \in Hits(s, Equal, pos) <=>
              i \in Nat /\ i >= pos /\ i + 1 <= Len(s) /\ s[i + 1] = 61
  <1>1. 38 \in Byte /\ 61 \in Byte
    BY DEF Byte
  <1>2. \A c \in Byte : i \in Hits(s, <<c>>, pos) <=>
          i \in Nat /\ i >= pos /\ i + 1 <= Len(s) /\ s[i + 1] = c
    BY HitsOfByte
  <1> QED
    BY <1>1, <1>2, Zenon DEF And, Equal

\* The bytes of four texts, one after the other.
Four(s, x, p, v, y, m, k, n, l) ==
  /\ s = (x \o (p \o v)) \o y
  /\ m \in Nat /\ k \in Nat /\ n \in Nat /\ l \in Nat
  /\ Len(s) = m + k + n + l
  /\ \A i \in 1 .. m : s[i] = x[i]
  /\ \A i \in 1 .. k : s[m + i] = p[i]
  /\ \A i \in 1 .. n : s[m + k + i] = v[i]
  /\ \A i \in 1 .. l : s[m + k + n + i] = y[i]

\* There is such a text: the four, joined.
LEMMA ConcatFour ==
  ASSUME NEW S, NEW x \in Seq(S), NEW p \in Seq(S), NEW v \in Seq(S), NEW y \in Seq(S),
         NEW m, NEW k, NEW n, NEW l, m = Len(x), k = Len(p), n = Len(v), l = Len(y)
  PROVE  \E s \in Seq(S) : Four(s, x, p, v, y, m, k, n, l)
  <1>1. m \in Nat /\ k \in Nat /\ n \in Nat /\ l \in Nat
    BY LenProperties
  <1>2. PICK q : /\ q = p \o v /\ q \in Seq(S) /\ Len(q) = k + n
                 /\ \A i \in 1 .. k : q[i] = p[i]
                 /\ \A i \in 1 .. n : q[k + i] = v[i]
    <2>1. PICK q : q = p \o v
      OBVIOUS
    <2>2. /\ q \in Seq(S) /\ Len(q) = Len(p) + Len(v)
          /\ \A i \in 1 .. Len(p) : q[i] = p[i]
          /\ \A i \in 1 .. Len(v) : q[Len(p) + i] = v[i]
      BY <2>1, ConcatIndex
    <2> QED
      BY <2>1, <2>2
  <1>3. PICK r : /\ r = x \o q /\ r \in Seq(S) /\ Len(r) = m + (k + n)
                 /\ \A i \in 1 .. m : r[i] = x[i]
                 /\ \A i \in 1 .. k + n : r[m + i] = q[i]
    <2>1. PICK r : r = x \o q
      OBVIOUS
    <2>2. q \in Seq(S)
      BY <1>2
    <2>3. /\ r \in Seq(S) /\ Len(r) = Len(x) + Len(q)
          /\ \A i \in 1 .. Len(x) : r[i] = x[i]
          /\ \A i \in 1 .. Len(q) : r[Len(x) + i] = q[i]
      BY <2>1, <2>2, ConcatIndex
    <2>4. Len(x) = m /\ Len(q) = k + n
      BY <1>2
    <2>5. /\ r \in Seq(S) /\ Len(r) = m + (k + n)
          /\ \A i \in 1 .. m : r[i] = x[i]
          /\ \A i \in 1 .. k + n : r[m + i] = q[i]
      BY <2>3, <2>4
    <2> QED
      BY <2>1, <2>5, Zenon
  <1>4. PICK s : /\ s = r \o y /\ s \in Seq(S) /\ Len(s) = (m + (k + n)) + l
                 /\ \A i \in 1 .. m + (k + n) : s[i] = r[i]
                 /\ \A i \in 1 .. l : s[(m + (k + n)) + i] = y[i]
    <2>1. PICK s : s = r \o y
      OBVIOUS
    <2>2. r \in Seq(S)
      BY <1>3
    <2>3. /\ s \in Seq(S) /\ Len(s) = Len(r) + Len(y)
          /\ \A i \in 1 .. Len(r) : s[i] = r[i]
          /\ \A i \in 1 .. Len(y) : s[Len(r) + i] = y[i]
      BY <2>1, <2>2, ConcatIndex
    <2>4. Len(r) = m + (k + n)
      BY <1>3
    <2>5. /\ s \in Seq(S) /\ Len(s) = (m + (k + n)) + l
          /\ \A i \in 1 .. m + (k + n) : s[i] = r[i]
          /\ \A i \in 1 .. l : s[(m + (k + n)) + i] = y[i]
      BY <2>3, <2>4
    <2> QED
      BY <2>1, <2>5, Zenon
  <1>5. \A i \in 1 .. m : s[i] = x[i]
    <2>1. \A i \in 1 .. m : i \in 1 .. m + (k + n)
      BY <1>1
    <2> QED
      BY <1>3, <1>4, <2>1
  <1>6. ASSUME NEW i \in 1 .. k + n
        PROVE  s[m + i] = q[i]
    <2>1. m + i \in 1 .. m + (k + n)
      BY <1>1
    <2> QED
      BY <1>3, <1>4, <2>1
  <1>7. \A i \in 1 .. k : s[m + i] = p[i]
    <2>1. \A i \in 1 .. k : i \in 1 .. k + n
      BY <1>1
    <2> QED
      BY <1>2, <1>6, <2>1
  <1>8. ASSUME NEW i \in 1 .. n
        PROVE  s[m + k + i] = v[i]
    <2>1. k + i \in 1 .. k + n /\ m + (k + i) = m + k + i
      BY <1>1
    <2>2. s[m + (k + i)] = q[k + i]
      BY <1>6, <2>1
    <2> QED
      BY <1>2, <2>1, <2>2
  <1>9. Len(s) = m + k + n + l /\ m + (k + n) = m + k + n
    BY <1>1, <1>4
  <1>10. s = (x \o (p \o v)) \o y
    BY <1>2, <1>3, <1>4, Zenon
  <1>11. \A i \in 1 .. l : s[m + k + n + i] = y[i]
    BY <1>4, <1>9
  <1>12. s \in Seq(S) /\ Len(s) = m + k + n + l
    BY <1>4, <1>9
  <1> QED
    BY <1>1, <1>5, <1>7, <1>8, <1>10, <1>11, <1>12 DEF Four

\* In body, the name pat, an equals sign and v stand between x and y, where
\* neither the name nor an ampersand can be taken for another.
Standing(body, x, pat, v, y, m, k, n, l) ==
  /\ x \in Before(pat) /\ Name(pat) /\ v \in Seq(Byte) /\ y \in Behind /\ body \in Seq(Byte)
  /\ m = Len(x) /\ k = Len(pat) /\ n = Len(v) /\ l = Len(y)
  /\ m \in Nat /\ k \in Nat /\ n \in Nat /\ l \in Nat /\ k > 0
  /\ Hits(v, And, 0) = {}
  /\ Len(body) = m + (k + 1) + n + l /\ Len(body) < NPos
  /\ \A i \in 1 .. m : body[i] = x[i]
  /\ \A i \in 1 .. k : body[m + i] = pat[i]
  /\ body[m + k + 1] = 61
  /\ \A i \in 1 .. n : body[m + (k + 1) + i] = v[i]
  /\ \A i \in 1 .. l : body[m + (k + 1) + n + i] = y[i]

\* CreateTask finds there what the field holds.
LEMMA FieldAt ==
  ASSUME NEW body, NEW x, NEW v, NEW y, NEW m, NEW k, NEW n, NEW l, NEW key \in Keys,
         Standing(body, x, Lit[key], v, y, m, k, n, l)
  PROVE  Field(body, key) = v
  <1>1. PICK pat : pat = Lit[key] /\ Name(pat) /\ x \in Before(pat)
    BY DEF Standing
  <1>2. m = Len(x) /\ k = Len(pat) /\ n = Len(v) /\ l = Len(y)
    BY <1>1 DEF Standing
  <1>3. /\ x \in Seq(Byte) /\ y \in Seq(Byte) /\ y \in Behind /\ v \in Seq(Byte)
        /\ Hits(v, And, 0) = {}
        /\ Equal \in Seq(Byte) /\ Len(Equal) = 1 /\ Equal[1] = 61
    BY DEF Standing, Before, Behind, Equal, Byte
  <1>4. /\ pat \in Seq(Byte) /\ k \in Nat /\ k > 0
        /\ \A i \in 1 .. k : pat[i] # 61 /\ pat[i] # 38
    <2>1. k \in Nat /\ k > 0
      BY DEF Standing
    <2> QED
      BY <1>1, <1>2, <2>1 DEF Name
  <1>5. NPos \in Nat /\ NPos > 8
    BY NPosIsLarge
  <1>7. PICK e, b : e = m + k /\ b = m + (k + 1)
    OBVIOUS
  <1>8. /\ m \in Nat /\ n \in Nat /\ l \in Nat /\ body \in Seq(Byte) /\ Len(body) = b + n + l
        /\ Len(body) < NPos
        /\ \A i \in 1 .. m : body[i] = x[i]
        /\ \A i \in 1 .. n : body[b + i] = v[i]
        /\ \A i \in 1 .. l : body[b + n + i] = y[i]
    BY <1>7 DEF Standing
  <1>9. /\ e \in Nat /\ b \in Nat /\ b = e + 1 /\ b <= NPos /\ b + n <= Len(body)
        /\ Len(body) \in Nat
    <2>1. e \in Nat /\ b \in Nat /\ b = e + 1
      BY <1>4, <1>7, <1>8
    <2> QED
      BY <1>5, <1>8, <2>1
  <1>10. (\A i \in 1 .. k : body[m + i] = pat[i]) /\ body[e + 1] = 61
    BY <1>1, <1>7 DEF Standing
  \* The name is found behind x, ...
  <1>11. Find(body, pat, 0) = m
    <2>1. m \in Hits(body, pat, 0)
      <3>1. m + Len(pat) <= Len(body)
        <4>1. m + k <= b /\ b <= b + n /\ m + k \in Nat /\ b + n \in Nat
          BY <1>4, <1>7, <1>8
        <4>2. m + k <= Len(body)
          BY <1>9, <4>1
        <4> QED
          BY <1>2, <4>2
      <3>2. \A j \in 1 .. Len(pat) : body[m + j] = pat[j]
        BY <1>2, <1>10
      <3>3. pat \in Seq(Byte) /\ body \in Seq(Byte) /\ m \in Nat /\ m >= 0
        BY <1>4, <1>8
      <3> QED
        BY <3>1, <3>2, <3>3, HitsAre
    <2>2. ASSUME NEW i \in Hits(body, pat, 0), i < m
          PROVE  FALSE
      <3>1. i \in Nat /\ \A j \in 1 .. k : body[i + j] = pat[j]
        <4>1. i \in Nat /\ \A j \in 1 .. Len(pat) : body[i + j] = pat[j]
          <5>1. pat \in Seq(Byte) /\ body \in Seq(Byte)
            BY <1>4, <1>8
          <5>2. i \in Hits(body, pat, 0) <=>
                  /\ i \in Nat /\ i >= 0 /\ i + Len(pat) <= Len(body)
                  /\ \A j \in 1 .. Len(pat) : body[i + j] = pat[j]
            BY <5>1, HitsAre
          <5> QED
            BY <2>2, <5>2
        <4> QED
          BY <1>2, <4>1
      <3>2. x # <<>>
        BY <1>2, <1>8, <2>2, <3>1, EmptySeq
      <3>3. Hits(x, pat, 0) = {} /\ x[m] = 38
        BY <1>1, <1>2, <3>2 DEF Before
      <3>4. CASE i + k <= m
        <4>1. \A j \in 1 .. k : i + j \in 1 .. m
          BY <1>4, <1>8, <3>1, <3>4
        <4>2. i + Len(pat) <= Len(x) /\ \A j \in 1 .. Len(pat) : x[i + j] = pat[j]
          BY <1>2, <1>8, <3>1, <3>4, <4>1
        <4>3. i >= 0
          BY <3>1
        <4>4. pat \in Seq(Byte) /\ x \in Seq(Byte) /\ i \in Nat
          BY <1>3, <1>4, <3>1
        <4>5. i \in Hits(x, pat, 0)
          BY <4>2, <4>3, <4>4, HitsAre
        <4> QED
          BY <3>3, <4>5
      <3>5. CASE m < i + k
        <4>1. m - i \in 1 .. k /\ i + (m - i) = m /\ m \in 1 .. m
          BY <1>4, <1>8, <2>2, <3>1, <3>5
        <4>2. body[i + (m - i)] = pat[m - i] /\ pat[m - i] # 38
          BY <1>4, <3>1, <4>1
        <4>3. body[m] = 38
          BY <1>8, <3>3, <4>1
        <4> QED
          BY <4>1, <4>2, <4>3
      <3> QED
        BY <1>4, <1>8, <3>1, <3>4, <3>5
    <2>3. \A i \in Hits(body, pat, 0) : ~(i < m)
      BY <2>2
    <2>4. pat \in Seq(Byte) /\ body \in Seq(Byte) /\ Len(body) < NPos
      BY <1>4, <1>8
    <2> QED
      BY <2>1, <2>3, <2>4, FindFirst
  \* ... behind the name an equals sign, ...
  <1>12. Find(body, Equal, m) = e
    <2>1. ASSUME NEW i
          PROVE  i \in Hits(body, Equal, m) <=>
                   i \in Nat /\ i >= m /\ i + 1 <= Len(body) /\ body[i + 1] = 61
      BY <1>8, HitsOfSigns
    <2>2. e \in Hits(body, Equal, m)
      <3>1. e \in Nat /\ e >= m /\ e + 1 <= Len(body)
        BY <1>4, <1>7, <1>8, <1>9
      <3> QED
        BY <1>10, <2>1, <3>1
    <2>3. ASSUME NEW i \in Hits(body, Equal, m), i < e
          PROVE  FALSE
      <3>1. i \in Nat /\ i >= m /\ body[i + 1] = 61
        BY <2>1
      <3>2. (i + 1) - m \in 1 .. k /\ m + ((i + 1) - m) = i + 1
        BY <1>4, <1>7, <1>8, <2>3, <3>1
      <3>3. body[m + ((i + 1) - m)] = pat[(i + 1) - m] /\ pat[(i + 1) - m] # 61
        BY <1>4, <1>10, <3>2
      <3> QED
        BY <3>1, <3>2, <3>3
    <2>4. \A i \in Hits(body, Equal, m) : ~(i < e)
      BY <2>3
    <2> QED
      BY <1>3, <1>8, <2>2, <2>4, FindFirst
  \* ... and behind the value an ampersand, if something follows.
  <1>13. ASSUME NEW i
         PROVE  i \in Hits(body, And, m) <=>
                  i \in Nat /\ i >= m /\ i + 1 <= Len(body) /\ body[i + 1] = 38
    BY <1>8, HitsOfSigns
  <1>14. ASSUME NEW i \in 1 .. n
         PROVE  v[i] # 38
    <2> SUFFICES ASSUME v[i] = 38 PROVE FALSE
      OBVIOUS
    <2>1. PICK h : h = i - 1 /\ h \in Nat /\ h >= 0 /\ h + 1 = i /\ h + 1 <= Len(v)
      BY <1>2, <1>8
    <2>2. v \in Seq(Byte) /\ v[h + 1] = 38
      BY <1>3, <2>1
    <2>3. h \in Hits(v, And, 0)
      BY <2>1, <2>2, HitsOfSigns
    <2> QED
      BY <1>3, <2>3
  <1>15. ASSUME NEW i \in Hits(body, And, m), i < b + n
         PROVE  FALSE
    <2>1. i \in Nat /\ i >= m /\ body[i + 1] = 38
      BY <1>13
    <2>2. CASE i < e
      <3>1. (i + 1) - m \in 1 .. k /\ m + ((i + 1) - m) = i + 1
        BY <1>4, <1>7, <1>8, <2>1, <2>2
      <3>2. body[m + ((i + 1) - m)] = pat[(i + 1) - m] /\ pat[(i + 1) - m] # 38
        BY <1>4, <1>10, <3>1
      <3> QED
        BY <2>1, <3>1, <3>2
    <2>3. CASE i = e
      <3>1. body[e + 1] = 38
        BY <2>1, <2>3, Zenon
      <3> QED
        BY <1>10, <3>1
    <2>4. CASE i > e
      <3>1. PICK h : h = (i - b) + 1 /\ h \in 1 .. n /\ b + h = i + 1
        <4>1. (i - b) + 1 \in 1 .. n /\ b + ((i - b) + 1) = i + 1
          <5>1. b \in Nat /\ n \in Nat /\ b = e + 1 /\ i < b + n /\ e \in Nat
            BY <1>8, <1>9, <1>15
          <5> QED
            BY <2>1, <2>4, <5>1
        <4> QED
          BY <4>1
      <3>2. body[b + h] = v[h] /\ v[h] # 38
        BY <1>8, <1>14, <3>1
      <3> QED
        BY <2>1, <3>1, <3>2
    <2> QED
      BY <1>9, <2>1, <2>2, <2>3, <2>4
  <1>16. ASSUME y # <<>>
         PROVE  Find(body, And, m) = b + n /\ l > 0
    <2>1. l > 0 /\ y[1] = 38
      BY <1>2, <1>3, <1>8, <1>16, EmptySeq DEF Behind
    <2>2. PICK h : h = b + n
      OBVIOUS
    <2>3. h \in Nat /\ h >= m /\ h + 1 <= Len(body) /\ body[h + 1] = 38
      <3>1. h \in Nat /\ h >= m /\ h + 1 <= Len(body) /\ 1 \in 1 .. l
        BY <1>4, <1>7, <1>8, <1>9, <2>1, <2>2
      <3> QED
        BY <1>8, <2>1, <2>2, <3>1
    <2>4. h \in Hits(body, And, m)
      BY <1>13, <2>3
    <2>5. \A i \in Hits(body, And, m) : ~(i < h)
      BY <1>15, <2>2
    <2>6. And \in Seq(Byte)
      BY KeyTexts
    <2>7. Find(body, And, m) = h
      BY <1>8, <2>4, <2>5, <2>6, FindFirst
    <2> QED
      BY <2>1, <2>2, <2>7
  <1>17. ASSUME y = <<>>
         PROVE  Find(body, And, m) = NPos /\ l = 0
    <2>1. l = 0
      BY <1>2, <1>17, EmptySeq
    <2>2. Hits(body, And, m) = {}
      <3> SUFFICES ASSUME NEW i \in Hits(body, And, m) PROVE FALSE
        OBVIOUS
      <3>1. i \in Nat /\ i + 1 <= Len(body)
        BY <1>13
      <3> QED
        BY <1>8, <1>9, <1>15, <2>1, <3>1
    <2>3. And \in Seq(Byte)
      BY KeyTexts
    <2> QED
      BY <1>8, <2>1, <2>2, <2>3, FindFinds
  <1>18. \A c \in 0 .. NPos : SizeT(c) = c
    BY <1>5 DEF SizeT
  <1>19. SubSeq(body, b + 1, b + n) = v
    <2>1. b + Len(v) <= Len(body) /\ \A i \in 1 .. Len(v) : body[b + i] = v[i]
      BY <1>2, <1>8, <1>9
    <2>2. SubSeq(body, b + 1, b + Len(v)) = v
      BY <1>3, <1>8, <1>9, <2>1, Cut
    <2> QED
      BY <1>2, <2>2
  <1>20. PICK a : a = Find(body, And, m)
    OBVIOUS
  <1>21. Field(body, key) = SubStr(body, b, IF a # NPos THEN SizeT(a - e - 1) ELSE NPos)
    <2>1. SizeT(e + 1) = b
      <3>1. e + 1 = b /\ b \in 0 .. NPos
        BY <1>9
      <3> QED
        BY <1>18, <3>1
    <2> QED
      BY <1>1, <1>11, <1>12, <1>20, <2>1, Zenon DEF Field
  <1>22. CASE y = <<>>
    <2>1. a = NPos /\ NPos > Len(body) - b /\ Len(body) = b + n
      BY <1>5, <1>8, <1>9, <1>17, <1>20, <1>22
    <2>2. Field(body, key) = SubStr(body, b, NPos)
      BY <1>21, <2>1
    <2>3. SubStr(body, b, NPos) = SubSeq(body, b + 1, b + n)
      BY <2>1 DEF SubStr
    <2> QED
      BY <1>19, <2>2, <2>3
  <1>23. CASE y # <<>>
    <2>1. a # NPos /\ a - e - 1 = n /\ n \in 0 .. NPos /\ ~(n > Len(body) - b)
      BY <1>5, <1>8, <1>9, <1>16, <1>20, <1>23
    <2>2. SizeT(a - e - 1) = n
      BY <1>18, <2>1
    <2>3. Field(body, key) = SubStr(body, b, n)
      BY <1>21, <2>1, <2>2
    <2>4. SubStr(body, b, n) = SubSeq(body, b + 1, b + n)
      BY <2>1 DEF SubStr
    <2> QED
      BY <1>19, <2>3, <2>4
  <1> QED
    BY <1>22, <1>23
------------------------------------------------------------------------------
\* In a form as PlainForm wants it, a name is found in no field but its own.
LEMMA NameElsewhere ==
  ASSUME NEW form \in Seq(Fields), PlainForm(form),
         NEW i \in DOMAIN form, NEW j \in DOMAIN form, i # j
  PROVE  /\ Name(Lit[form[i].key])
         /\ Hits(Segment(form[j]), Lit[form[i].key], 0) = {}
  <1> DEFINE key == form[i].key
             other == form[j].key
             value == form[j].value
  <1>1. key \in Keys /\ other \in Keys /\ value \in Seq(Byte)
    BY FormTexts
  <1>2. other # key /\ Hits(value, Lit[key], 0) = {}
    <2>1. other # key
      BY DEF PlainForm
    <2>2. Lit[key] \in {And} \cup {Lit[k] : k \in Keys}
      BY <1>1
    <2> QED
      BY <2>1, <2>2 DEF PlainForm
  <1> HIDE DEF key, other, value
  <1>3. PICK pat : pat = Lit[key] /\ Name(pat)
    <2>1. /\ Lit[key] \in Seq(Byte) /\ Lit[key] # <<>>
          /\ \A k \in DOMAIN Lit[key] : Lit[key][k] \notin {61, 38}
      BY <1>1, KeyTexts
    <2> QED
      BY <2>1, LenProperties DEF Name
  <1>4. PICK s : s = Lit[other] /\ s \in Seq(Byte) /\ Hits(s, pat, 0) = {}
    <2>1. Lit[other] \in Seq(Byte)
      BY <1>1, KeyTexts
    <2>2. Hits(Lit[other], Lit[key], 0) = {}
      BY <1>1, <1>2, KeysApart
    <2> QED
      BY <1>3, <2>1, <2>2
  <1>5. Equal \in Seq(Byte) /\ Equal # <<>> /\ Equal[1] = 61 /\ Equal[Len(Equal)] = 61
    BY DEF Equal, Byte
  <1>6. PICK u : u = s \o Equal /\ u \in Seq(Byte) /\ Hits(u, pat, 0) = {} /\ u[Len(u)] = 61
    <2>1. s \o Equal \in Seq(Byte) /\ (s \o Equal)[Len(s \o Equal)] = 61
      BY <1>4, <1>5, LastOfConcat
    <2>2. Hits(s \o Equal, pat, 0) = {}
      BY <1>3, <1>4, <1>5, NoHitSign, NoHitConcat
    <2> QED
      BY <2>1, <2>2
  <1>7. Hits(u \o value, pat, 0) = {}
    <2>1. Hits(value, pat, 0) = {}
      BY <1>2, <1>3
    <2> QED
      BY <1>1, <1>3, <1>6, <2>1, NoHitConcat
  <1>8. Segment(form[j]) = u \o value
    BY <1>4, <1>6 DEF Segment, other, value
  <1> QED
    BY <1>3, <1>7, <1>8 DEF key

\* Each field of such a form is found.
LEMMA FieldFound ==
  ASSUME NEW form \in Seq(Fields), PlainForm(form), NEW i \in DOMAIN form,
         Len(BodyText(form)) < NPos
  PROVE  Field(BodyText(form), form[i].key) = form[i].value
  <1> DEFINE words == Segments(form)
             body == BodyText(form)
  <1>1. PICK key, v : /\ key = form[i].key /\ key \in Keys
                      /\ v = form[i].value /\ v \in Seq(Byte) /\ Hits(v, And, 0) = {}
    <2>1. form[i].key \in Keys /\ form[i].value \in Seq(Byte)
      BY FormTexts
    <2>2. Hits(form[i].value, And, 0) = {}
      BY DEF PlainForm
    <2> QED
      BY <2>1, <2>2
  <1>2. PICK pat : pat = Lit[key] /\ Name(pat)
    <2>1. /\ Lit[key] \in Seq(Byte) /\ Lit[key] # <<>>
          /\ \A k \in DOMAIN Lit[key] : Lit[key][k] \notin {61, 38}
      BY <1>1, KeyTexts
    <2> QED
      BY <2>1, LenProperties DEF Name
  <1>3. /\ words \in Seq(Seq(Byte)) /\ i \in 1 .. Len(words)
        /\ \A j \in 1 .. Len(words) : j # i => Hits(words[j], pat, 0) = {}
        /\ words[i] = (pat \o Equal) \o v
    <2>1. /\ words \in Seq(Seq(Byte)) /\ 1 .. Len(words) = DOMAIN form
          /\ \A j \in DOMAIN form : words[j] = Segment(form[j])
      BY FormTexts
    <2> HIDE DEF words
    <2>2. \A j \in DOMAIN form : j # i => Hits(words[j], pat, 0) = {}
      BY <1>1, <1>2, <2>1, NameElsewhere
    <2>3. words[i] = (pat \o Equal) \o v
      BY <1>1, <1>2, <2>1 DEF Segment
    <2> QED
      BY <2>1, <2>2, <2>3
  <1>4. body = Join(words, And)
    BY BodyIsText
  <1> HIDE DEF words
  <1>5. PICK x \in Before(pat), y \in Behind : Join(words, And) = (x \o words[i]) \o y
    BY <1>2, <1>3, Around
  <1>6. PICK p : p = pat \o Equal
    OBVIOUS
  <1>7. body = (x \o (p \o v)) \o y
    BY <1>3, <1>4, <1>5, <1>6, Zenon
  <1>8. PICK m, k, n, l, c :
          m = Len(x) /\ k = Len(pat) /\ n = Len(v) /\ l = Len(y) /\ c = Len(p)
    OBVIOUS
  <1>9. /\ k \in Nat /\ k > 0 /\ pat \in Seq(Byte) /\ c = k + 1
        /\ p \in Seq(Byte) /\ (\A j \in 1 .. k : p[j] = pat[j]) /\ p[k + 1] = 61
    <2>1. pat \in Seq(Byte) /\ k \in Nat /\ k > 0
      BY <1>2, <1>8, EmptySeq, LenProperties DEF Name
    <2>2. Equal \in Seq(Byte) /\ Len(Equal) = 1 /\ Equal[1] = 61
      BY DEF Equal, Byte
    <2>3. pat \in Seq(Byte) /\ Equal \in Seq(Byte)
      BY <2>1, <2>2
    <2>4. /\ p \in Seq(Byte) /\ Len(p) = Len(pat) + Len(Equal)
          /\ \A j \in 1 .. Len(pat) : p[j] = pat[j]
          /\ \A j \in 1 .. Len(Equal) : p[Len(pat) + j] = Equal[j]
      BY <1>6, <2>3, ConcatIndex
    <2>5. c = k + 1 /\ p[k + 1] = 61
      BY <1>8, <2>2, <2>4
    <2> QED
      BY <1>8, <2>1, <2>4, <2>5
  <1>10. x \in Seq(Byte) /\ y \in Seq(Byte)
    BY DEF Before, Behind
  <1>11. PICK s \in Seq(Byte) : Four(s, x, p, v, y, m, c, n, l)
    <2>1. x \in Seq(Byte) /\ p \in Seq(Byte) /\ v \in Seq(Byte) /\ y \in Seq(Byte)
      BY <1>1, <1>9, <1>10
    <2>2. m = Len(x) /\ c = Len(p) /\ n = Len(v) /\ l = Len(y)
      BY <1>8
    <2> QED
      BY <2>1, <2>2, ConcatFour
  <1>12. Len(s) < NPos /\ body = s
    <2>1. body = s
      BY <1>7, <1>11, Zenon DEF Four
    <2> QED
      BY <2>1
  <1> HIDE DEF body
  <1>13. /\ m \in Nat /\ n \in Nat /\ l \in Nat /\ s \in Seq(Byte)
         /\ Len(s) = m + (k + 1) + n + l
         /\ \A j \in 1 .. m : s[j] = x[j]
         /\ \A j \in 1 .. k + 1 : s[m + j] = p[j]
         /\ \A j \in 1 .. n : s[m + (k + 1) + j] = v[j]
         /\ \A j \in 1 .. l : s[m + (k + 1) + n + j] = y[j]
    BY <1>9, <1>11 DEF Four
  <1>14. (\A j \in 1 .. k : s[m + j] = pat[j]) /\ s[m + k + 1] = 61
    <2>1. k + 1 \in 1 .. k + 1 /\ m + (k + 1) = m + k + 1 /\ \A j \in 1 .. k : j \in 1 .. k + 1
      BY <1>9, <1>13
    <2> QED
      BY <1>9, <1>13, <2>1
  <1>15. Standing(s, x, pat, v, y, m, k, n, l)
    <2>1. /\ x \in Before(pat) /\ Name(pat) /\ v \in Seq(Byte) /\ y \in Behind
          /\ Hits(v, And, 0) = {} /\ Len(s) < NPos
      BY <1>1, <1>2, <1>5, <1>12
    <2> QED
      BY <1>8, <1>9, <1>14, <1>13, <2>1 DEF Standing
  <1>16. Field(s, key) = v
    <2>1. Standing(s, x, Lit[key], v, y, m, k, n, l)
      BY <1>2, <1>15, Zenon
    <2> QED
      BY <1>1, <2>1, FieldAt, ZenonT(60)
  <1> QED
    BY <1>1, <1>12, <1>16 DEF body

\* CreateTask makes of the decoded body of a plain form the task its peer meant.
LEMMA TaskCreated ==
  ASSUME NEW form \in Seq(Fields), PlainForm(form), Len(BodyText(form)) < NPos
  PROVE  CreateTask(BodyText(form)) = FormTask(form)
  <1>1. ASSUME NEW key \in Keys
        PROVE  Field(BodyText(form), key) =
                 form[CHOOSE i \in DOMAIN form : form[i].key = key].value
    <2> DEFINE i == CHOOSE j \in DOMAIN form : form[j].key = key
    <2>1. i \in DOMAIN form /\ form[i].key = key
      <3>1. \E j \in DOMAIN form : form[j].key = key
        BY DEF PlainForm
      <3> QED
        BY <3>1
    <2> HIDE DEF i
    <2>2. Field(BodyText(form), form[i].key) = form[i].value
      BY <2>1, FieldFound
    <2> QED
      BY <2>1, <2>2 DEF i
  <1> QED
    BY <1>1 DEF CreateTask, FormTask

\* What the thread computes from the body of a request that is a task.
LEMMA TaskScheduled ==
  ASSUME NEW r \in Requests, IsTask(r)
  PROVE  LET text == BodyText(Decoded(r.form))  task == TaskOf(r)
         IN  /\ ~Aborts(BodyText(r.form)) /\ UrlDecode(BodyText(r.form)) = text
             /\ ScheduleResult(text) \in Seq(Byte)
             /\ ScheduleResult(text) =
                  IF CheckUser(task) THEN Run(task) ELSE Lit["post info error,try again"]
  <1> DEFINE form == r.form
             meant == Decoded(form)
  <1>1. /\ form \in Seq(Fields) /\ PlainForm(meant)
        /\ \A i \in DOMAIN form : ~Aborts(form[i].value)
    BY RequestsWellFormed DEF IsTask, Fields
  <1>2. Len(BodyText(form)) \in Nat /\ Len(BodyText(form)) < NPos
    <2> DEFINE E == Len(Line(r)) + Len(HeaderLines(r))
    <2>1. /\ Len(Texts[r]) < NPos /\ Len(Texts[r]) \in Nat /\ E \in Nat
          /\ Len(BodyText(form)) \in Nat /\ Len(Texts[r]) = E + 4 + Len(BodyText(form))
      BY RequestBytes
    <2> HIDE DEF E, form
    <2> QED
      BY <2>1, NPosIsLarge
  <1>3. TaskOf(r) = FormTask(meant)
    BY DEF TaskOf
  <1> HIDE DEF form
  <1>4. /\ meant \in Seq(Fields) /\ ~Aborts(BodyText(form))
        /\ UrlDecode(BodyText(form)) = BodyText(meant)
    BY <1>1, BodyDecoded
  <1> HIDE DEF meant
  <1>5. Len(BodyText(meant)) < NPos
    <2>1. BodyText(form) \in Seq(Byte) /\ BodyText(meant) \in Seq(Byte)
      BY <1>1, <1>4, BodyIsText
    <2>2. Len(UrlDecode(BodyText(form))) <= Len(BodyText(form))
      BY <1>4, <2>1, DecodeShortens
    <2>3. Len(BodyText(meant)) \in Nat
      BY <2>1, LenProperties
    <2> QED
      BY <1>2, <1>4, <2>2, <2>3, NPosIsLarge
  <1>6. CreateTask(BodyText(meant)) = FormTask(meant)
    BY <1>1, <1>4, <1>5, TaskCreated
  <1>7. ScheduleResult(BodyText(meant)) =
          IF CheckUser(TaskOf(r)) THEN Run(TaskOf(r)) ELSE Lit["post info error,try again"]
    BY <1>3, <1>6 DEF ScheduleResult
  <1> QED
    BY <1>4, <1>7, ResultIsText DEF form, meant
------------------------------------------------------------------------------
\* Where a colon is found.
LEMMA HitsOfColon ==
  ASSUME NEW s \in Seq(Byte), NEW pos \in Nat, NEW i \in Hits(s, Colon, pos)
  PROVE  i \in Nat /\ i + 1 <= Len(s) /\ s[i + 1] = 58
  <1>1. Len(Colon) = 1 /\ Colon[1] = 58 /\ Len(s) \in Nat
    BY LenProperties DEF Colon
  <1>2. i \in Nat /\ i + 1 <= Len(s) /\ SubSeq(s, i + 1, i + 1) = Colon
    BY <1>1 DEF Hits
  <1>3. i + 1 \in 1 .. Len(s)
    BY <1>1, <1>2
  <1>4. \A k \in i + 1 .. i + 1 : s[k] \in Byte
    BY <1>3, ElementOfSeq
  <1>5. SubSeq(s, i + 1, i + 1)[1] = s[(i + 1) + 1 - 1]
    <2>1. i + 1 \in Int /\ 1 \in 1 .. (i + 1) - (i + 1) + 1
      BY <1>2
    <2> QED
      BY <1>4, <2>1, SubSeqProperties
  <1>6. (i + 1) + 1 - 1 = i + 1
    BY <1>2
  <1> QED
    BY <1>1, <1>2, <1>5, <1>6

\* While a request that arrived whole is in hand: the data are its bytes; the
\* header lines end where its header lines do; method, url and body are its own;
\* if it has ended the process, it is one that may;
\* and if it is a task, the response data are what the thread computes from it.
WholeInv ==
  stage # "pop" /\ Whole =>
    /\ data = Texts[request]
    /\ stage = "dead" => Fatal(request)
    /\ stage = "headers" =>
         pos_crlfcrlf = Len(Line(request)) + Len(HeaderLines(request))
    /\ stage # "line" /\ Len(request.line) >= 2 =>
         header.method = request.line[1] /\ header.url = request.line[2]
    /\ stage = "handle" => header.body = BodyText(request.form)
    /\ stage = "send" /\ IsTask(request) =>
         responseData = UrlEncode(ScheduleResult(BodyText(Decoded(request.form))))

\* What was received is whole only if it is the request and nothing else.
LEMMA WholeReceived ==
  ASSUME RecvRequestData, Whole'
  PROVE  data' = Texts[request']
  <1>1. PICK r \in Requests, n \in Nat :
          n <= Len(Texts[r]) /\ request' = r /\ data' \in Appended(Texts[r], n)
    <2>1. PICK r \in Requests : \E n \in Cuts \cup {Len(Texts[r]), BufferSize} :
            n <= Len(Texts[r]) /\ request' = r /\ data' \in Appended(Texts[r], n)
      BY DEF RecvRequestData
    <2>2. Len(Texts[r]) \in Nat
      BY TextsFit, LenProperties
    <2> QED
      BY <2>1, <2>2, TextsFit
  <1> DEFINE T == Texts[r]
             t == SubSeq(T, 1, n)
  <1>2. T \in Seq(Byte) /\ Len(T) \in Nat
    BY TextsFit, LenProperties
  <1>3. Len(T) < BufferSize /\ IsPrefix(T, data')
    BY <1>1 DEF Whole
  <1>4. data' = UpToNul(t \o <<>>)
    <2>1. BufferSize \in Nat /\ n # BufferSize
      BY <1>1, <1>2, <1>3, TextsFit
    <2> QED
      BY <1>1, <2>1 DEF Appended
  <1>5. t \in Seq(Byte) /\ Len(t) = n
    <2>1. n \in 0 .. Len(T)
      BY <1>1, <1>2
    <2> HIDE DEF T
    <2> QED
      BY <1>2, <2>1, TextBegins
  <1>6. data' = UpToNul(t)
    <2> HIDE DEF t
    <2> QED
      BY <1>4, <1>5, ConcatEmptySeq
  <1> HIDE DEF T
  <1>7. PICK k \in 0 .. n : data' = SubSeq(t, 1, k) /\ Len(data') = k
    <2> HIDE DEF t
    <2>1. PICK k \in 0 .. Len(t) : UpToNul(t) = SubSeq(t, 1, k)
      BY <1>5, BeforeNul
    <2> QED
      BY <1>5, <1>6, <2>1, TextBegins
  <1>8. Len(T) <= Len(data')
    BY <1>3 DEF IsPrefix
  <1>9. k = n /\ n = Len(T)
    <2>1. n <= Len(T)
      BY <1>1 DEF T
    <2> QED
      BY <1>2, <1>7, <1>8, <2>1
  <1>10. t = T
    BY <1>2, <1>9, SubSeqFull
  <1>11. data' = T
    BY <1>2, <1>7, <1>9, <1>10, SubSeqFull
  <1> QED
    BY <1>1, <1>11 DEF T

\* The first line is its peer's, and so is the end of the header lines.
LEMMA WholeLine ==
  ASSUME TypeOK, WholeInv, Whole, ParseLine
  PROVE  /\ pos_crlfcrlf' = Len(Line(request)) + Len(HeaderLines(request))
         /\ Len(request.line) >= 2 =>
              header'.method = request.line[1] /\ header'.url = request.line[2]
  <1> DEFINE T == Texts[request]
             L == Line(request)
             l == Len(L)
  <1>1. data = T /\ stage = "line" /\ request \in Requests
    BY DEF WholeInv, ParseLine, TypeOK
  <1>2. /\ Find(T, Crlf, 0) = l /\ SubStr(T, 0, l) = L
        /\ Find(T, Crlf \o Crlf, l) = l + Len(HeaderLines(request))
    BY <1>1, RequestLayout
  <1>3. l # NPos
    <2>1. /\ Len(T) < NPos /\ Len(T) \in Nat /\ l \in Nat /\ Len(HeaderLines(request)) \in Nat
          /\ Len(BodyText(request.form)) \in Nat
          /\ Len(T) = (l + Len(HeaderLines(request))) + 4 + Len(BodyText(request.form))
      BY <1>1, RequestBytes
    <2> QED
      BY <2>1, NPosIsLarge
  <1>4. Find(data, Crlf, 0) = l /\ SubStr(data, 0, Find(data, Crlf, 0)) = L
    BY <1>1, <1>2
  <1> HIDE DEF T, L, l
  <1>5. prev' = l /\ pos_crlfcrlf' = Find(data, Crlf \o Crlf, l)
    BY <1>3, <1>4 DEF ParseLine
  <1>6. pos_crlfcrlf' = l + Len(HeaderLines(request))
    BY <1>1, <1>2, <1>5
  <1>7. ASSUME Len(request.line) >= 2
        PROVE  header'.method = request.line[1] /\ header'.url = request.line[2]
    <2> DEFINE method == Extract(L, 0, header.method)
               url == Extract(L, method.pos, header.url)
    <2>1. header' = [header EXCEPT !.method = method.word, !.url = url.word]
      BY <1>3, <1>4 DEF ParseLine
    <2>2. header.method \in Seq(Byte) /\ header.url \in Seq(Byte)
      BY DEF TypeOK
    <2>3. method.word = request.line[1] /\ url.word = request.line[2]
      BY <1>1, <1>7, <2>2, LineWords DEF L
    <2> HIDE DEF method, url
    <2>4. header \in [method : Seq(Byte), url : Seq(Byte), body : Seq(Byte)]
      BY DEF TypeOK
    <2> QED
      BY <2>1, <2>3, <2>4
  <1> QED
    BY <1>6, <1>7 DEF L, l

\* No position in the header lines is behind the end of the data: the empty line
\* follows, unless the last byte is a colon.
LEMMA WholeHeader ==
  ASSUME TypeOK, ParserInv, WholeInv, Whole, ParseHeader
  PROVE  stage' = stage \/ Fatal(request)
  <1> SUFFICES ASSUME ~Fatal(request) PROVE stage' = stage
    OBVIOUS
  <1> DEFINE T == Texts[request]
             E == Len(Line(request)) + Len(HeaderLines(request))
             c == Find(T, Colon, SizeT(prev + 2))
  <1>1. data = T /\ stage = "headers" /\ pos_crlfcrlf = E /\ prev # E /\ request \in Requests
    BY DEF WholeInv, ParseHeader, TypeOK
  <1>2. /\ T \in Seq(Byte) /\ Len(T) < NPos /\ Len(T) \in Nat /\ E \in Nat
        /\ Len(BodyText(request.form)) \in Nat
        /\ Len(T) = E + 4 + Len(BodyText(request.form))
    BY <1>1, RequestBytes
  <1>3. T[Len(T)] # 58
    BY DEF Fatal, Colon
  <1>4. NPos \in Nat /\ NPos > 8 /\ Colon \in Seq(Byte) /\ Crlf \in Seq(Byte)
    BY NPosIsLarge, Breaks DEF Colon, Byte
  <1>5. E + 4 <= Len(T)
    BY <1>2
  <1> HIDE DEF T, E
  <1>6. prev \in Nat /\ prev < E
    <2>1. prev \in Hits(data, Crlf, 0) /\ prev <= E
      <3>1. pos_crlfcrlf # NPos
        BY <1>1, <1>2, <1>4, <1>5
      <3> QED
        BY <1>1, <3>1 DEF ParserInv
    <2>2. prev \in Nat
      <3>1. data \in Seq(Byte) /\ 0 \in Nat
        BY <1>1, <1>2
      <3> QED
        BY <1>4, <2>1, <3>1, HitsBehind
    <2> QED
      BY <1>1, <1>2, <2>1, <2>2
  <1>7. SizeT(prev + 2) = prev + 2 /\ prev + 2 \in Nat /\ prev + 2 <= Len(T)
    <2>1. prev + 2 \in Nat /\ prev + 2 <= Len(T)
      BY <1>2, <1>5, <1>6
    <2>2. prev + 2 < NPos + 1
      BY <1>2, <1>4, <2>1
    <2>3. (prev + 2) % (NPos + 1) = prev + 2
      BY <1>4, <2>1, <2>2
    <2> QED
      BY <2>1, <2>3 DEF SizeT
  <1>8. SizeT(c + 2) <= Len(T)
    <2> DEFINE p == prev + 2
    <2>1. c = Find(T, Colon, p) /\ p \in Nat
      BY <1>7
    <2> HIDE DEF p
    <2>2. CASE Hits(T, Colon, p) = {}
      <3>1. c = NPos
        BY <1>2, <1>4, <2>1, <2>2, FindFinds
      <3>2. (NPos + 2) % (NPos + 1) = 1
        BY <1>4
      <3> HIDE DEF c
      <3>3. SizeT(c + 2) = 1
        BY <3>1, <3>2 DEF SizeT
      <3> QED
        BY <1>2, <1>5, <3>3
    <2>3. CASE Hits(T, Colon, p) # {}
      <3>1. c \in Hits(T, Colon, p)
        BY <1>2, <1>4, <2>1, <2>3, FindFinds
      <3> HIDE DEF c
      <3>2. c \in Nat /\ c + 1 <= Len(T) /\ T[c + 1] = 58
        BY <1>2, <2>1, <3>1, HitsOfColon
      <3>3. c + 1 # Len(T)
        BY <1>3, <3>2
      <3>4. c + 2 <= Len(T) /\ c + 2 < NPos + 1
        BY <1>2, <1>4, <3>2, <3>3
      <3>5. SizeT(c + 2) = c + 2
        BY <1>4, <3>2, <3>4 DEF SizeT
      <3> QED
        BY <3>4, <3>5
    <2> QED
      BY <2>2, <2>3
  <1>9. ~SubStrThrows(data, SizeT(prev + 2))
    BY <1>1, <1>2, <1>7 DEF SubStrThrows
  <1>10. ~SubStrThrows(data, SizeT(Find(data, Colon, SizeT(prev + 2)) + 2))
    <2>1. SizeT(c + 2) \in Nat
      <3>1. c \in 0 .. NPos
        BY <1>2, <1>4, <1>7, FindFinds
      <3> HIDE DEF c
      <3> QED
        BY <1>4, <3>1 DEF SizeT
    <2>2. ~SubStrThrows(T, SizeT(c + 2))
      BY <1>2, <1>8, <2>1 DEF SubStrThrows
    <2> QED
      BY <1>1, <2>2
  <1> QED
    BY <1>9, <1>10 DEF ParseHeader

\* What is behind the empty line is the form.
LEMMA WholeBody ==
  ASSUME TypeOK, WholeInv, Whole, ParseBody
  PROVE  stage' = "handle" /\ header' = [header EXCEPT !.body = BodyText(request.form)]
  <1> DEFINE T == Texts[request]
             E == Len(Line(request)) + Len(HeaderLines(request))
  <1>1. data = T /\ stage = "headers" /\ pos_crlfcrlf = E /\ request \in Requests
    BY DEF WholeInv, ParseBody, TypeOK
  <1>2. /\ T \in Seq(Byte) /\ Len(T) < NPos /\ Len(T) \in Nat /\ E \in Nat
        /\ Len(BodyText(request.form)) \in Nat
        /\ Len(T) = E + 4 + Len(BodyText(request.form))
    BY <1>1, RequestBytes
  <1>3. SubStr(T, E + 4, NPos) = BodyText(request.form)
    BY <1>1, RequestLayout
  <1> HIDE DEF T, E
  <1>4. E + 4 \in Nat /\ E + 4 <= Len(T) /\ E + 4 < NPos + 1 /\ NPos \in Nat
    BY <1>2, NPosIsLarge
  <1>5. SizeT(pos_crlfcrlf + 4) = E + 4
    BY <1>1, <1>4 DEF SizeT
  <1>6. ~SubStrThrows(data, SizeT(pos_crlfcrlf + 4))
    BY <1>1, <1>2, <1>4, <1>5 DEF SubStrThrows
  <1>7. SubStr(data, SizeT(pos_crlfcrlf + 4), NPos) = BodyText(request.form)
    BY <1>1, <1>3, <1>5
  <1> QED
    BY <1>6, <1>7 DEF ParseBody

\* It is an invariant.
LEMMA WholeInvariance == Spec => []WholeInv
  <1>1. Init => WholeInv
    BY DEF Init, WholeInv
  <1>2. TypeOK /\ ParserInv /\ WholeInv /\ [Next]_vars => WholeInv'
    <2> SUFFICES ASSUME TypeOK, ParserInv, WholeInv, [Next]_vars
                 PROVE  WholeInv'
      OBVIOUS
    <2>1. CASE RecvRequestData
      <3>1. stage' = "line"
        BY <2>1 DEF RecvRequestData
      <3> QED
        BY <2>1, <3>1, WholeReceived DEF WholeInv
    <2>2. CASE UNCHANGED vars
      BY <2>2 DEF vars, WholeInv, Whole
    <2>3. CASE UNCHANGED <<request, data>> /\ ~Whole
      BY <2>3 DEF WholeInv, Whole
    <2>4. CASE ParseLine /\ Whole
      <3>1. stage' = "headers" /\ UNCHANGED <<request, data>> /\ data = Texts[request]
        BY <2>4 DEF ParseLine, WholeInv
      <3> QED
        BY <2>4, <3>1, WholeLine DEF WholeInv
    <2>5. CASE ParseHeader /\ Whole
      <3>1. stage' = stage \/ (stage' = "dead" /\ Fatal(request))
        BY <2>5, WholeHeader DEF ParseHeader
      <3>2. UNCHANGED <<request, data, header, pos_crlfcrlf>>
        BY <2>5 DEF ParseHeader
      <3> QED
        BY <2>5, <3>1, <3>2 DEF WholeInv, ParseHeader
    <2>6. CASE ParseBody /\ Whole
      <3>1. stage' = "handle" /\ header' = [header EXCEPT !.body = BodyText(request.form)]
        BY <2>6, WholeBody
      <3>2. UNCHANGED <<request, data>> /\ stage = "headers"
        BY <2>6 DEF ParseBody
      <3>3. header \in [method : Seq(Byte), url : Seq(Byte), body : Seq(Byte)]
        BY DEF TypeOK
      <3>4. header'.method = header.method /\ header'.url = header.url
            /\ header'.body = BodyText(request.form)
        BY <3>1, <3>3
      <3> QED
        BY <2>6, <3>1, <3>2, <3>4 DEF WholeInv
    <2>7. CASE DataHandler /\ Whole
      <3>1. /\ stage = "handle" /\ UNCHANGED <<request, data, header>>
            /\ header.body = BodyText(request.form) /\ request \in Requests
        BY <2>7 DEF DataHandler, WholeInv, TypeOK
      <3>2. ASSUME Len(request.line) >= 2
            PROVE  header.method = request.line[1] /\ header.url = request.line[2]
        BY <2>7, <3>1, <3>2 DEF WholeInv
      <3>3. CASE stage' = "dead"
        <4>1. /\ header.method = Lit["POST"] /\ header.url # Lit["/FUCK.html"]
              /\ Aborts(header.body)
          BY <2>7, <3>3 DEF DataHandler
        <4>2. Fatal(request)
          BY <3>1, <3>2, <4>1 DEF Fatal, IsPost
        <4> QED
          BY <2>7, <3>1, <3>2, <3>3, <4>2 DEF WholeInv
      <3>4. CASE stage' = "send"
        <4>1. ASSUME IsTask(request)
              PROVE  responseData' = UrlEncode(ScheduleResult(BodyText(Decoded(request.form))))
          <5>1. header.method = Lit["POST"] /\ header.url # Lit["/FUCK.html"]
            BY <3>2, <4>1 DEF IsTask, IsPost
          <5>2. ~Aborts(header.body) /\ UrlDecode(header.body) = BodyText(Decoded(request.form))
            BY <3>1, <4>1, TaskScheduled
          <5> QED
            BY <2>7, <5>1, <5>2 DEF DataHandler
        <4> QED
          BY <2>7, <3>1, <3>2, <3>4, <4>1 DEF WholeInv
      <3> QED
        BY <2>7, <3>3, <3>4 DEF DataHandler
    <2>8. CASE SendResonseData
      BY <2>8 DEF SendResonseData, WholeInv
    <2>9. ParseLine \/ ParseHeader \/ ParseBody \/ DataHandler => UNCHANGED <<request, data>>
      BY DEF ParseLine, ParseHeader, ParseBody, DataHandler
    <2> QED
      BY <2>1, <2>2, <2>3, <2>4, <2>5, <2>6, <2>7, <2>8, <2>9
         DEF Next, StartHttpServer, HttpParser
  <1> QED
    BY <1>1, <1>2, TypeCorrect, ParserInvariance, PTL DEF Spec

\* HttpServer.cpp:28: although one Http_Header serves all requests, what is parsed
\* out of a request that arrived whole is what its peer wrote: its method, its url,
\* its form, whatever header lines it has.
THEOREM RequestParsed == Spec => []ParsedAsWritten
  <1>1. WholeInv => ParsedAsWritten
    BY DEF WholeInv, ParsedAsWritten
  <1> QED
    BY <1>1, WholeInvariance, PTL

\* Neither substr (HttpServer.cpp:43) nor an assert of UrlDecode ends the process
\* over a request that arrived whole, whatever stands in its header lines and in
\* its form, but for an escape in a POST that is none, and a colon at its very end.
THEOREM RequestSurvived == Spec => []WholeRequestSurvived
  <1>1. WholeInv => WholeRequestSurvived
    BY DEF WholeInv, WholeRequestSurvived
  <1> QED
    BY <1>1, WholeInvariance, PTL

\* TaskManager.cpp:57: what the peer of a POST decodes from its response is the
\* result of the task its own form names, for every form with each of the fields
\* in it once, in whatever order, and whatever the values are, escaped or not.
THEOREM PostsAnswered == Spec => []PostAnswered
  <1>1. TypeOK /\ WholeInv => PostAnswered
    <2> SUFFICES ASSUME TypeOK, WholeInv, stage = "send", Whole, IsTask(request)
                 PROVE  /\ ~Aborts(responseData)
                        /\ UrlDecode(responseData) =
                             IF CheckUser(TaskOf(request)) THEN Run(TaskOf(request))
                             ELSE Lit["post info error,try again"]
      BY DEF PostAnswered
    <2> DEFINE result == ScheduleResult(BodyText(Decoded(request.form)))
    <2>1. request \in Requests /\ responseData = UrlEncode(result)
      BY DEF TypeOK, WholeInv
    <2>2. /\ result \in Seq(Byte)
          /\ result = IF CheckUser(TaskOf(request)) THEN Run(TaskOf(request))
                      ELSE Lit["post info error,try again"]
      BY <2>1, TaskScheduled
    <2> HIDE DEF result
    <2>3. ~Aborts(UrlEncode(result)) /\ UrlDecode(UrlEncode(result)) = result
      BY <2>2, EncodedReadBack
    <2> QED
      BY <2>1, <2>2, <2>3
  <1> QED
    BY <1>1, TypeCorrect, WholeInvariance, PTL
==============================================================================
