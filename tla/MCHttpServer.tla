---------------------------- MODULE MCHttpServer ----------------------------
(***************************************************************************)
(* HttpServer with literals of one or two bytes.                           *)
(***************************************************************************)
EXTENDS HttpServer, TLC

MCNPos == 999

MCLit ==
  [l \in Literals |->
     CASE l = "type" -> <<116>>
       [] l = "id" -> <<105>>
       [] l = "accessToken" -> <<97>>
       [] l = "resourceId" -> <<114>>
       [] l = "resourceType" -> <<82>>
       [] l = "HomePageRequest" -> <<72>>
       [] l = "HomePageRefresh" -> <<70>>
       [] l = "HomePageLoadMore" -> <<77>>
       [] l = "DynamicPageRequest" -> <<68>>
       [] l = "002426" -> <<48>>
       [] l = "298a7098e037dc" -> <<50>>
       [] l = "Type error" -> <<84, Space>>
       [] l = "post info error,try again" -> <<112, 44>>
       [] l = "HomePageResponse" -> <<104>>
       [] l = "Content" -> <<67>>
       [] l = "Refresh" -> <<101>>
       [] l = "LoadMore" -> <<108>>
       [] l = "username" -> <<117>>
       [] l = "userprofile" -> <<102>>
       [] l = "title" -> <<116, 108>>
       [] l = "profile" -> <<103>>
       [] l = "comments" -> <<99>>
       [] l = "replys" -> <<121>>
       [] l = "care" -> <<100>>
       [] l = "POST" -> <<80>>
       [] l = "/FUCK.html" -> <<47, 88>>]

\* A column for each way a byte can be printed.
MCStored ==
  [c \in ToSet(Columns) |->
     CASE c = "username" -> <<255>>
       [] c = "userprofile" -> <<Quote>>
       [] c = "title" -> <<Backslash, 120>>
       [] c = "profile" -> <<1, 31>>
       [] c = "comments" -> <<10, 13>>
       [] c = "replys" -> <<8, 9, 12>>
       [] c = "care" -> <<Comma, 125>>
       [] c = "resourceId" -> <<>>]

\* Every byte of a value escaped.
Escaped(value) ==
  FlattenSeq([i \in DOMAIN value |->
                <<Percent, ToHex(value[i] \div 16), ToHex(value[i] % 16)>>])

F(key, value) == [key |-> key, value |-> value]
Form(type, token) ==
  <<F("type", type), F("id", Escaped(Lit["002426"])), F("accessToken", token),
    F("resourceId", <<>>), F("resourceType", <<Plus>>)>>

Good == Escaped(Lit["298a7098e037dc"])
Broken == <<F("type", <<Percent, 52>>)>>
Get == <<71>>
Root == <<47>>
Version == <<86>>
Host == <<104, 58, Space, 121>>     \* "h: y"
NoColon == <<104>>

Req(method, url, headers, form) ==
  [line |-> <<method, url, Version>>, headers |-> headers, form |-> form]
Post(headers, form) == Req(Lit["POST"], Root, headers, form)

MCRequests ==
  { Post(<<Host>>, Form(Escaped(Lit["HomePageRefresh"]), Good)),
    Post(<<>>, Form(Lit["DynamicPageRequest"], Good)),
    Post(<<Host, Host>>, Form(Escaped(<<255>>), Good)),
    Post(<<>>, Form(Escaped(Lit["HomePageLoadMore"]), Lit["298a7098e037dc"])),
    \* longer than the buffer
    Post(<<Host, Host, Host>>, Form(Escaped(Lit["HomePageRequest"]), Good)),
    Post(<<>>, Form(Escaped(Lit["HomePageRequest"]), <<120>>)),
    \* a value with an ampersand, and a form without one of the keys
    Post(<<>>, Form(Escaped(And), Good)),
    Post(<<>>, <<F("type", Escaped(Lit["HomePageLoadMore"]))>>),
    Req(Lit["POST"], Lit["/FUCK.html"], <<Host>>, <<>>),
    \* an escape that is none, which only a POST decodes
    Post(<<Host>>, Broken),
    Req(Get, Root, <<Host>>, Broken),
    Req(Get, Root, <<NoColon>>, <<>>),
    \* a colon as the last byte, and the only one
    Req(Get, Root, <<NoColon>>, <<F("type", Colon)>>),
    \* a NUL in a header line
    Post(<<<<104, 0>>>>, Form(Lit["HomePageRequest"], Good)),
    [line |-> <<>>, headers |-> <<>>, form |-> <<>>] }

\* Nothing; within the first line; on both sides of the line breaks behind it;
\* within header lines; within an escape and at its end, in either place of it.
MCBufferSize == 50
MCJunk == {<<>>, <<Percent>>, Crlf}

MCCuts == {0, 3, 6, 7, 8, 9, 12, 13, 14, 21, 27}
==============================================================================
