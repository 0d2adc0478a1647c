----------------------------- MODULE HttpServer -----------------------------
(***************************************************************************)
(* The HTTP thread of HttpServer.cpp, byte by byte: it takes a message     *)
(* from TCPDataRecv, parses it, computes the response data and inserts the *)
(* response into TCPDataSend, then takes the next one.  The Http_Header it *)
(* parses into and _ResponseData live as long as the thread.  (ForumNet    *)
(* has the same loop with the parsing and computing left out.)             *)
(*                                                                         *)
(* A message carries what one recv of ReadHandle returned: the whole       *)
(* request, or only its first bytes, or nothing.  An exception that substr *)
(* throws, or an assert that fails in UrlDecode, ends the process.         *)
(*                                                                         *)
(* The fields version and header of Http_Header are written and never      *)
(* read; they are left out.                                                *)
(***************************************************************************)
EXTENDS UrlCode, TaskManager

CONSTANTS
  Requests,   \* the requests that peers make
  Cuts,       \* after how many bytes a recv may have returned
  BufferSize, \* sizeof(buffer) in ReadHandle: as many bytes recv returns at most
  Junk        \* what may stand behind the buffer

Lf == 10
Cr == 13
Crlf == <<Cr, Lf>>
Colon == <<58>>

\* A peer writes a request: the words of the first line, the header lines, an
\* empty line, the form.  What stands behind a name in the form is escaped, or
\* not, as the peer likes.
Join(words, sep) ==
  FlattenSeq([i \in DOMAIN words |-> IF i = 1 THEN words[i] ELSE sep \o words[i]])

BodyText(form) ==
  Join([i \in DOMAIN form |-> Lit[form[i].key] \o Equal \o form[i].value], And)

RequestText(r) ==
  Join(<<Join(r.line, <<Space>>)>> \o r.headers \o <<<<>>, BodyText(r.form)>>, Crlf)

Texts == [r \in Requests |-> RequestText(r)]

\* What is received is a text, and short enough for positions to count.
ASSUME TextsFit ==
  /\ Cuts \subseteq Nat /\ BufferSize \in Nat
  /\ \A r \in Requests : \A junk \in Junk \cup {<<>>} :
       /\ Texts[r] \in Seq(Byte) /\ junk \in Seq(Byte)
       /\ Len(Texts[r]) + Len(junk) < NPos

\* isspace
IsSpace(c) == c = Space \/ c \in 9 .. 13

\* A peer's words have no space in them, its header lines no line break, and the
\* names in its form are those of the fields.
ASSUME RequestsWellFormed ==
  \A r \in Requests :
    /\ r.line \in Seq(Seq({c \in Byte : ~IsSpace(c)}) \ {<<>>})
    /\ r.headers \in Seq(Seq(Byte \ {Cr}) \ {<<>>})
    /\ r.form \in Seq([key : Keys, value : Seq(Byte)])

\* The names of the fields have none of the signs that separate and escape, and
\* no name is found in another.
ASSUME KeysApart ==
  \A key \in Keys :
    /\ Lit[key] # <<>>
    /\ \A i \in DOMAIN Lit[key] : Lit[key][i] \notin {Percent, Plus, Equal[1], And[1]}
    /\ \A other \in Keys \ {key} : Hits(Lit[other], Lit[key], 0) = {}

VARIABLES
  stage,         \* where StartHttpServer is
  request,       \* the request the message in hand is taken from
  data,          \* msg.GetData(): what of it was received
  header,        \* pthttp_Header: method, url and body
  prev,          \* HttpParser: where the line just parsed ends
  pos_crlfcrlf,  \* HttpParser: where the header lines end, or npos
  responseData   \* _ResponseData

vars == <<stage, request, data, header, prev, pos_crlfcrlf, responseData>>
parser == <<prev, pos_crlfcrlf>>

Init ==
  /\ stage = "pop"
  /\ request \in Requests
  /\ data = <<>>
  /\ header = [method |-> <<>>, url |-> <<>>, body |-> <<>>]
  /\ prev = 0 /\ pos_crlfcrlf = 0
  /\ responseData = <<>>
------------------------------------------------------------------------------
\* The string a char pointer to these bytes is converted to: a NUL ends it.
UpToNul(bytes) ==
  SubSeq(bytes, 1, Min({i \in DOMAIN bytes : bytes[i] = 0} \cup {Len(bytes) + 1}) - 1)

\* ReadHandle: recv has put the first n bytes of a text into a cleared buffer,
\* and AppendData takes what is there up to a NUL, which a full buffer need not
\* have.
Appended(text, n) ==
  {UpToNul(SubSeq(text, 1, n) \o junk) :
     junk \in IF n = BufferSize THEN Junk ELSE {<<>>}}

\* Faulty variant: the buffer is not cleared, and still holds the request before.
RecvUncleared ==
  /\ stage = "pop"
  /\ \E r \in Requests : \E n \in Cuts \cup {Len(Texts[r]), BufferSize} :
       /\ n <= Len(Texts[r]) /\ n <= BufferSize
       /\ request' = r
       /\ data' = UpToNul(SubSeq(Texts[r], 1, n) \o SubSeq(data, n + 1, Len(data)))
  /\ stage' = "line"
  /\ UNCHANGED <<header, parser, responseData>>

\* RecvRequestData: a message with a request, or with its first n bytes.
RecvRequestData ==
  /\ stage = "pop"
  /\ \E r \in Requests : \E n \in Cuts \cup {Len(Texts[r]), BufferSize} :
       /\ n <= Len(Texts[r]) /\ n <= BufferSize
       /\ request' = r
       /\ data' \in Appended(Texts[r], n)
  /\ stage' = "line"
  /\ UNCHANGED <<header, parser, responseData>>

\* >>: the first word behind pos, and the place behind the word.  Where there is
\* none, old is left as it is.
Extract(s, pos, old) ==
  LET visible == {i \in pos + 1 .. Len(s) : ~IsSpace(s[i])}
      begin == Min(visible)
      behind == Min({i \in begin .. Len(s) + 1 : i = Len(s) + 1 \/ IsSpace(s[i])})
  IN  IF visible = {} THEN [word |-> old, pos |-> Len(s)]
                      ELSE [word |-> SubSeq(s, begin, behind - 1), pos |-> behind - 1]

\* The first line.  A word that is missing leaves the field of the header as
\* an earlier request has set it; so does a first line that does not end.
ParseLine ==
  LET next == Find(data, Crlf, 0)
      first_line == SubStr(data, 0, next)
  IN
  /\ stage = "line"
  /\ IF next # NPos
       THEN \E method \in {Extract(first_line, 0, header.method)} :
            \E url \in {Extract(first_line, method.pos, header.url)} :
              /\ header' = [header EXCEPT !.method = method.word, !.url = url.word]
              /\ prev' = next
       ELSE prev' = 0 /\ UNCHANGED header
  /\ pos_crlfcrlf' = Find(data, Crlf \o Crlf, prev')
  /\ stage' = "headers"
  /\ UNCHANGED <<request, data, responseData>>

\* Faulty variant: the line break is skipped twice.
ParseHeaderSkips ==
  /\ stage = "headers" /\ prev # pos_crlfcrlf
  /\ prev' = Find(data, Crlf, SizeT(prev + 4))
  /\ UNCHANGED <<stage, request, data, header, pos_crlfcrlf, responseData>>

\* One round of the loop over the header lines: the key and the value are cut
\* out of data around the next colon, on whatever line that is.
ParseHeader ==
  LET pos_colon == Find(data, Colon, SizeT(prev + 2)) IN
  /\ stage = "headers" /\ prev # pos_crlfcrlf
  /\ IF \/ SubStrThrows(data, SizeT(prev + 2))
        \/ SubStrThrows(data, SizeT(pos_colon + 2))
       THEN stage' = "dead" /\ UNCHANGED prev
       ELSE prev' = Find(data, Crlf, SizeT(prev + 2)) /\ UNCHANGED stage
  /\ UNCHANGED <<request, data, header, pos_crlfcrlf, responseData>>

\* Faulty variant: the empty line is taken to be a byte longer than it is.
ParseBodyLate ==
  LET pos == SizeT(pos_crlfcrlf + 5) IN
  /\ stage = "headers" /\ prev = pos_crlfcrlf
  /\ IF SubStrThrows(data, pos)
       THEN stage' = "dead" /\ UNCHANGED header
       ELSE stage' = "handle" /\ header' = [header EXCEPT !.body = SubStr(data, pos, NPos)]
  /\ UNCHANGED <<request, data, parser, responseData>>

\* The rest of data is the body.  Without an empty line pos_crlfcrlf + 4 wraps
\* round to 3.
ParseBody ==
  LET pos == SizeT(pos_crlfcrlf + 4) IN
  /\ stage = "headers" /\ prev = pos_crlfcrlf
  /\ IF SubStrThrows(data, pos)
       THEN stage' = "dead" /\ UNCHANGED header
       ELSE stage' = "handle" /\ header' = [header EXCEPT !.body = SubStr(data, pos, NPos)]
  /\ UNCHANGED <<request, data, parser, responseData>>

HttpParser == ParseLine \/ ParseHeader \/ ParseBody

\* The test of the url, and DataHandler: only a POST sets _ResponseData.
DataHandler ==
  /\ stage = "handle"
  /\ IF header.url = Lit["/FUCK.html"] \/ header.method # Lit["POST"]
       THEN stage' = "send" /\ UNCHANGED responseData
     ELSE IF Aborts(header.body)
       THEN stage' = "dead" /\ UNCHANGED responseData
     ELSE \E httpBody \in {UrlDecode(header.body)} :
          \E result \in {ScheduleResult(httpBody)} :
            /\ stage' = "send"
            /\ responseData' = UrlEncode(result)
  /\ UNCHANGED <<request, data, header, parser>>

\* CreateResponseHeader, SendResonseData: the response, a constant header and
\* responseData, goes into the map; the loop begins again.  HttpParser sets the
\* body before anyone reads it: the model forgets the old one.
SendResonseData ==
  /\ stage = "send"
  /\ stage' = "pop"
  /\ header' = [header EXCEPT !.body = <<>>]
  /\ UNCHANGED <<request, data, parser, responseData>>

StartHttpServer == HttpParser \/ DataHandler \/ SendResonseData

Next == RecvRequestData \/ StartHttpServer

Spec == Init /\ [][Next]_vars

\* The thread runs whenever it has a message in hand; none need arrive.
FairSpec == Spec /\ WF_vars(StartHttpServer)
------------------------------------------------------------------------------
\* Every variable holds a value of its kind.
TypeOK ==
  /\ stage \in {"pop", "line", "headers", "handle", "send", "dead"}
  /\ request \in Requests
  /\ data \in Seq(Byte)
  /\ header \in [method : Seq(Byte), url : Seq(Byte), body : Seq(Byte)]
  /\ prev \in 0 .. NPos /\ pos_crlfcrlf \in 0 .. NPos
  /\ responseData \in Seq(Byte)

\* The request arrived whole: it left room for a NUL in the buffer, and has none
\* of its own.
Whole == IsPrefix(Texts[request], data) /\ Len(Texts[request]) < BufferSize

\* The loop over the header lines (HttpServer.cpp:42) ends only when prev equals
\* pos_crlfcrlf: it never steps over it, whatever part of a request arrived.
StopsAtTheEnd == stage = "headers" => prev <= pos_crlfcrlf

\* Every round of that loop gets closer to its end, or is its last: positions do
\* not wrap round, and a search that fails leads to the end, too.
RoundsAdvance ==
  [][stage = "headers" /\ stage' = "headers" =>
       prev < prev' /\ prev' <= pos_crlfcrlf]_vars

\* What HttpParser makes of a request that arrived whole is what its peer wrote,
\* although one Http_Header serves all requests.
ParsedAsWritten ==
  stage = "handle" /\ Whole /\ Len(request.line) >= 2 =>
    /\ header.method = request.line[1]
    /\ header.url = request.line[2]
    /\ header.body = BodyText(request.form)

IsPost(r) == r.line[1] = Lit["POST"] /\ r.line[2] # Lit["/FUCK.html"]

\* What may end the process over a request although all of it has arrived: an
\* escape in a POST that is none, or a colon as its last byte, behind which the
\* value of a header line without a colon would begin.
Fatal(r) ==
  \/ Aborts(BodyText(r.form)) /\ (Len(r.line) >= 2 => IsPost(r))
  \/ Texts[r][Len(Texts[r])] = Colon[1]

\* Nothing else does: neither substr nor an assert ends the process over another
\* request that arrived whole, with or without header lines, a form, or colons in
\* the header lines.
WholeRequestSurvived == stage = "dead" /\ Whole => Fatal(request)

\* A form with its values decoded.
Decoded(form) ==
  [i \in DOMAIN form |-> [key |-> form[i].key, value |-> UrlDecode(form[i].value)]]

\* The form names every key once, and no value contains what CreateTask looks
\* for: an ampersand, or a key.
PlainForm(form) ==
  /\ \A key \in Keys : \E i \in DOMAIN form : form[i].key = key
  /\ \A i, j \in DOMAIN form : form[i].key = form[j].key => i = j
  /\ \A i \in DOMAIN form : \A pat \in {And} \cup {Lit[key] : key \in Keys} :
       Hits(form[i].value, pat, 0) = {}

\* The fields of a form, looked up by name.
FormTask(form) ==
  [key \in Keys |-> form[CHOOSE i \in DOMAIN form : form[i].key = key].value]

WantsPage(task) == CheckUser(task) /\ task["type"] \in HomePageTypes

\* A POST with such a form, well escaped, and the task it names.
IsTask(r) ==
  /\ Len(r.line) >= 2 /\ IsPost(r)
  /\ \A i \in DOMAIN r.form : ~Aborts(r.form[i].value)
  /\ PlainForm(Decoded(r.form))

TaskOf(r) == FormTask(Decoded(r.form))

\* What the peer of a POST decodes from its response is what its own form asks
\* for: parsing, decoding, the search for the fields, the task and encoding
\* together lose nothing, and take nothing from an earlier request.
PostAnswered ==
  stage = "send" /\ Whole /\ IsTask(request) =>
    \E task \in {TaskOf(request)} :
      /\ ~Aborts(responseData)
      /\ UrlDecode(responseData) =
           IF CheckUser(task) THEN Run(task) ELSE Lit["post info error,try again"]

\* The page a peer asks for can be read as the tree it is printed from: printing
\* loses nothing of what is stored, whatever it holds up to its NUL.
PagesReadable ==
  stage = "handle" /\ Whole /\ IsTask(request) /\ WantsPage(TaskOf(request)) =>
    \E task \in {TaskOf(request)} : \E text \in {CreateHomePage(task)} :
      Parse(text) = [items |-> <<HomePage[task["type"]]>>, next |-> Len(text) + 1]

\* No part of a page, with the NUL behind it, is longer than the block that was
\* allocated for it before it was written (cJSON.c:282, 486, 629).
PrintsInBounds ==
  stage = "handle" /\ Whole /\ IsTask(request) /\ WantsPage(TaskOf(request)) =>
    \E printed \in {PrintedPage[TaskOf(request)["type"]]} :
      \A item \in DOMAIN printed : Len(printed[item].text) + 1 <= printed[item].room

\* A request that is not a POST asks for no data and is sent none, least of all
\* what was computed for another request (the comment "get the response data",
\* HttpServer.cpp:183 and 196).
ResponseDataAreOwn ==
  stage = "send" /\ Whole /\ request.line # <<>> /\ request.line[1] # Lit["POST"] =>
    responseData = <<>>

\* Every message the thread takes is answered, or is its last: the loop over the
\* header lines terminates, whatever part of a request arrived.
EveryMessageFinished == stage # "pop" ~> stage \in {"pop", "dead"}
==============================================================================
