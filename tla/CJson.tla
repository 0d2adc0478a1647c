------------------------------- MODULE CJson -------------------------------
(***************************************************************************)
(* What of cJSON.c the program uses to write a page, and how cJSON.c reads *)
(* such a text again, which is how a peer may read it.  Items are strings, *)
(* arrays and objects; the program makes no others, and prints unformatted *)
(* and without a printbuffer.  Allocations succeed.                        *)
(***************************************************************************)
EXTENDS StdString

\* What a char pointer points to: a NUL ends it.
CString == Seq(Byte \ {0})

Quote == 34
Backslash == 92
Comma == 44
Between(open, text, close) == <<open>> \o text \o <<close>>
Object(text) == Between(123, text, 125)
Array(text) == Between(91, text, 93)

\* An item: its type, its name in an object, and what it holds.
CreateItem(type, text) ==
  [type |-> type, string |-> <<>>, valuestring |-> text, child |-> <<>>]
CreateString(text) == CreateItem("String", text)
CreateArray == CreateItem("Array", <<>>)
CreateObject == CreateItem("Object", <<>>)

AddItemToArray(array, item) == [array EXCEPT !.child = Append(@, item)]
AddItemToObject(object, name, item) ==
  AddItemToArray(object, [item EXCEPT !.string = name])
------------------------------------------------------------------------------
\* The letter that stands for c behind a backslash, where there is one.
Short == {Quote, Backslash, 8, 9, 10, 12, 13}
Letter(c) ==
  CASE c \in {Quote, Backslash} -> c
    [] c = 8 -> 98 [] c = 9 -> 116 [] c = 10 -> 110 [] c = 12 -> 102 [] c = 13 -> 114

\* A digit of %04x.
HexDigit(x) == IF x > 9 THEN x + 87 ELSE x + 48

\* Faulty variant: only quotes are escaped.
EscapeQuotes(c) == IF c = Quote THEN <<Backslash, c>> ELSE <<c>>

Escape(c) ==
  IF c \in Short THEN <<Backslash, Letter(c)>>
  ELSE IF c < 32 THEN <<Backslash, 117, 48, 48, HexDigit(c \div 16), HexDigit(c % 16)>>
  ELSE <<c>>

PrintString(str) ==
  Between(Quote, FlattenSeq([i \in DOMAIN str |-> Escape(str[i])]), Quote)

\* Faulty variant: a control character is counted like a letter.
EscapeRoomShort(c) == IF c \in Short THEN 2 ELSE 1

\* How many bytes the first pass over a string counts for c.
EscapeRoom(c) == IF c \in Short THEN 2 ELSE IF c < 32 THEN 6 ELSE 1

\* The size of the block that is allocated for a string, an array, an object.
Total(ns) == FoldLeft(LAMBDA a, b : a + b, 0, ns)
StringRoom(str) == Total([i \in DOMAIN str |-> EscapeRoom(str[i])]) + 3
ArrayRoom(entries) ==
  IF entries = <<>> THEN 3
                    ELSE 5 + Total([i \in DOMAIN entries |-> Len(entries[i]) + 2])
ObjectRoom(names, entries) ==
  IF entries = <<>>
    THEN 3
    ELSE 7 + Total([i \in DOMAIN entries |-> Len(entries[i]) + Len(names[i]) + 2])

Listed(texts) ==
  FlattenSeq([i \in DOMAIN texts |-> IF i = 1 THEN texts[i] ELSE <<Comma>> \o texts[i]])

PrintArray(entries) == Array(Listed(entries))

PrintObject(names, entries) ==
  Object(Listed([i \in DOMAIN entries |-> names[i] \o <<58>> \o entries[i]]))

\* A tree of at most four levels, and all items below its root.
Parts(root) ==
  LET Below(items) == items \cup UNION {ToSet(item.child) : item \in items}
  IN  Below(Below(Below({root})))

\* PrintUnformatted: the text and the room of each part of a tree.
Printed(root) ==
  LET print[item \in Parts(root)] ==
        LET entries == [i \in DOMAIN item.child |-> print[item.child[i]].text]
            names == [i \in DOMAIN item.child |-> PrintString(item.child[i].string)]
        IN  CASE item.type = "String" ->
                   [text |-> PrintString(item.valuestring),
                    room |-> StringRoom(item.valuestring)]
              [] item.type = "Array" ->
                   [text |-> PrintArray(entries), room |-> ArrayRoom(entries)]
              [] item.type = "Object" ->
                   [text |-> PrintObject(names, entries),
                    room |-> ObjectRoom(names, entries)]
  IN  print
------------------------------------------------------------------------------
\* Reading a text that ends with a NUL.
At(s, i) == IF i <= Len(s) THEN s[i] ELSE 0

\* skip
Skip(s, i) == Min({j \in i .. Len(s) + 1 : At(s, j) > 32 \/ At(s, j) = 0})

\* A digit of parse_hex4, or 0.
HexValue(c) ==
  CASE c \in 48 .. 57 -> c - 48 [] c \in 65 .. 70 -> c - 55 [] c \in 97 .. 102 -> c - 87
    [] OTHER -> 0

\* What a backslash and the byte at i stand for.  Of the escapes with u, only
\* those below \u0080 are read: PrintString writes no others.  \u0000 is dropped.
Unescape(s, i) ==
  LET uc == HexValue(At(s, i + 3)) * 16 + HexValue(At(s, i + 4))
  IN  IF At(s, i) # 117
        THEN <<IF \E c \in Short : Letter(c) = At(s, i)
                 THEN CHOOSE c \in Short : Letter(c) = At(s, i) ELSE At(s, i)>>
      ELSE IF uc = 0 THEN <<>> ELSE <<uc>>

\* parse_string: the text from i to the closing quote, and the place behind it.
ParseString(s, i) ==
  LET chars[j \in i .. Len(s) + 6] ==
        IF At(s, j) \in {Quote, 0}
          THEN [text |-> <<>>, next |-> IF At(s, j) = Quote THEN j + 1 ELSE j]
        ELSE LET escaped == At(s, j) = Backslash
                 rest == chars[IF ~escaped THEN j + 1
                               ELSE IF At(s, j + 1) = 117 THEN j + 6 ELSE j + 2]
             IN  [text |-> (IF escaped THEN Unescape(s, j + 1) ELSE <<s[j]>>) \o rest.text,
                  next |-> rest.next]
  IN  chars[i]

Failure == [items |-> <<>>, next |-> 0]
Found(item, next) == [items |-> <<item>>, next |-> next]

Close == [Array |-> 93, Object |-> 125]

\* Reading goes by bytes left: lists holds what is read of each type of list from
\* each place on.  The results are the items that begin at i and the place behind
\* them, which is 0 for failure.

\* parse_array and parse_object, from the bracket on.
ParseHeld(s, lists, type, i) ==
  LET first == Skip(s, i + 1)
      list == lists[type][first]
  IN  IF At(s, first) = Close[type] THEN Found(CreateItem(type, <<>>), first + 1)
      ELSE IF list.next = 0 THEN Failure
      ELSE Found([CreateItem(type, <<>>) EXCEPT !.child = list.items], list.next)

\* parse_value
ParseValue(s, lists, i) ==
  LET str == ParseString(s, i + 1) IN
  CASE At(s, i) = Quote -> Found(CreateString(str.text), str.next)
    [] At(s, i) = 91 -> ParseHeld(s, lists, "Array", i)
    [] At(s, i) = 123 -> ParseHeld(s, lists, "Object", i)
    [] OTHER -> Failure

\* An element of an array, or a member of an object with its name.
ParseItem(s, lists, type, i) ==
  LET name == ParseString(s, i + 1)
      colon == Skip(s, name.next)
      value == ParseValue(s, lists, Skip(s, colon + 1))
  IN  IF type = "Array" THEN ParseValue(s, lists, i)
      ELSE IF At(s, i) # Quote \/ At(s, colon) # 58 \/ value.next = 0 THEN Failure
      ELSE Found([value.items[1] EXCEPT !.string = name.text], value.next)

\* The loops of parse_array and parse_object, from one item on.
ParseList(s, lists, type, i) ==
  LET item == ParseItem(s, lists, type, i)
      end == Skip(s, item.next)
      rest == lists[type][Skip(s, end + 1)]
  IN  IF item.next # 0 /\ At(s, end) = Close[type]
        THEN [items |-> item.items, next |-> end + 1]
      ELSE IF item.next # 0 /\ At(s, end) = Comma /\ rest.next # 0
        THEN [items |-> item.items \o rest.items, next |-> rest.next]
      ELSE Failure

\* cJSON_Parse.  A list that begins where n bytes are left goes on where fewer are.
Parse(s) ==
  LET lists[n \in 0 .. Len(s)] ==
        [type \in DOMAIN Close |->
           [i \in 1 .. Len(s) + 1 |->
              IF n = 0 THEN Failure ELSE ParseList(s, lists[n - 1], type, i)]]
  IN  ParseValue(s, lists[Len(s)], Skip(s, 1))
==============================================================================
