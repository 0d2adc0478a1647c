---------------------------- MODULE TaskManager ----------------------------
(***************************************************************************)
(* TaskManager.cpp with AuthenticationServer.cpp and TaskExcutor.cpp: what *)
(* DataHandler computes from a decoded body.  A TaskManager lives for one  *)
(* request, and each of its queues holds one element: the computation is a *)
(* function of the body.                                                   *)
(***************************************************************************)
EXTENDS CJson

CONSTANTS
  Lit,      \* the bytes of each literal of the source
  Stored    \* the text that is stored in each column of a row

\* The names of the form fields, in the order of key_array.
Keys == {"type", "id", "accessToken", "resourceId", "resourceType"}

\* The members of a row, in the order of CreateHomePage.
Columns == <<"username", "userprofile", "title", "profile",
             "comments", "replys", "care", "resourceId">>

Literals ==
  Keys \cup ToSet(Columns) \cup
            {"HomePageResponse", "Content", "Refresh", "LoadMore",
             "HomePageRequest", "HomePageRefresh", "HomePageLoadMore",
             "DynamicPageRequest", "002426", "298a7098e037dc",
             "Type error", "post info error,try again",
             "POST", "/FUCK.html"}

ASSUME LitIsText == Lit \in [Literals -> CString]
ASSUME StoredIsText == Stored \in [ToSet(Columns) -> CString]

Equal == <<61>>
And == <<38>>

\* Faulty variant: the ampersand is looked for from the beginning of the body.
FieldFromStart(body, key) ==
  LET prev == Find(body, Lit[key], 0)
      pos_equal == Find(body, Equal, prev)
      pos_and == Find(body, And, 0)
  IN  SubStr(body, SizeT(pos_equal + 1),
             IF pos_and # NPos THEN SizeT(pos_and - pos_equal - 1) ELSE NPos)

\* One round of the loop of CreateTask.  The key is looked for anywhere in the
\* body, and npos + 1 wraps round to 0 when it is missing.
Field(body, key) ==
  LET prev == Find(body, Lit[key], 0)
      pos_equal == Find(body, Equal, prev)
      pos_and == Find(body, And, prev)
  IN  SubStr(body, SizeT(pos_equal + 1),
             IF pos_and # NPos THEN SizeT(pos_and - pos_equal - 1) ELSE NPos)

CreateTask(body) == [key \in Keys |-> Field(body, key)]

CheckUser(task) ==
  /\ task["id"] = Lit["002426"]
  /\ task["accessToken"] = Lit["298a7098e037dc"]

HomePageTypes ==
  {Lit["HomePageRequest"], Lit["HomePageRefresh"], Lit["HomePageLoadMore"]}

\* GetDataFromDB: as many rows as the type asks for, all alike; their title
\* says the type.
GetDataFromDB(taskType) ==
  LET contentSize == IF taskType = Lit["HomePageRefresh"] THEN 2 ELSE 3
      prefix == CASE taskType = Lit["HomePageRequest"] -> <<>>
                  [] taskType = Lit["HomePageRefresh"] -> Lit["Refresh"]
                  [] taskType = Lit["HomePageLoadMore"] -> Lit["LoadMore"]
  IN  [i \in 1 .. contentSize |-> [Stored EXCEPT !["title"] = prefix \o @]]

\* The object of a row.
RowItem(row) ==
  FoldLeft(LAMBDA object, column :
             AddItemToObject(object, Lit[column], CreateString(row[column])),
           CreateObject, Columns)

\* The tree CreateHomePage builds for each type, ...
HomePage ==
  [taskType \in HomePageTypes |->
     LET contentArray ==
           FoldLeft(LAMBDA array, row : AddItemToArray(array, RowItem(row)),
                    CreateArray, GetDataFromDB(taskType))
         named == AddItemToObject(CreateObject, Lit["type"],
                                  CreateString(Lit["HomePageResponse"]))
     IN  AddItemToObject(named, Lit["Content"], contentArray)]

\* ... how its parts are printed, ...
PrintedPage == [taskType \in HomePageTypes |-> Printed(HomePage[taskType])]

\* ... and the text of the whole.
CreateHomePage(task) == PrintedPage[task["type"]][HomePage[task["type"]]].text

Run(task) ==
  IF task["type"] \in HomePageTypes THEN CreateHomePage(task)
  ELSE IF task["type"] = Lit["DynamicPageRequest"] THEN <<>>
  ELSE Lit["Type error"]

\* CreateTask, TaskScheduling and GetScheduleResult, one after the other.
ScheduleResult(body) ==
  LET task == CreateTask(body)
  IN  IF CheckUser(task) THEN Run(task) ELSE Lit["post info error,try again"]
==============================================================================
