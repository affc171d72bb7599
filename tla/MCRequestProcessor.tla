------------------------- MODULE MCRequestProcessor -------------------------
(***************************************************************************)
(* Requests of up to two members, any of them twice, over ids and commands *)
(* of every kind, and what is not an object at all.                        *)
(***************************************************************************)
EXTENDS RequestProcessor

ServerRegistry ==
  [n \in KnownProperties |->
     CASE n \in IntProperties -> [type |-> "int", base |-> "int"]
       [] n \in TextProperties -> [type |-> "string", base |-> "string"]
       [] n = "process.process_list" -> [type |-> "array", base |-> "process"]
       [] n = "process.deleted_process_list" -> [type |-> "array", base |-> "int"]]

TestNames == KnownProperties \cup OtherProperties \cup {"", "request.id\\0"}

TestTexts == STRING

NulKeys == [k \in {"request.id\\0"} |-> "request.id"]

String(s) == Scalar("string", s)
Odd == {JsonArray(<< >>), Object(<< >>)}
Ids == {Scalar("int", 1), Scalar("negative", -1), Scalar("long", 2), String("text")} \cup Odd
Commands == {String(c) : c \in GlobalCommands \cup ProcessCommands \cup {"list"}}
            \cup {Scalar("int", 1)} \cup Odd

TestMembers ==
  {<<"request.id", v>> : v \in Ids} \cup {<<"request.request", v>> : v \in Commands}
  \cup {<<"request.id\\0", Scalar("int", 3)>>,
        <<"process.process_list",
          JsonArray(<<Object(<< <<"request.id", Scalar("int", 4)>>,
                               <<"request.id", Scalar("int", 5)>> >>),
                      Scalar("int", 6), JsonArray(<< >>)>>)>>,
        <<"process.deleted_process_list",
          JsonArray(<<Scalar("int", 7), String("text"), Scalar("int", 8)>>)>>,
        <<"process.pid", JsonArray(<<Scalar("int", 9)>>)>>,
        <<"process.comm", Object(<< <<"process.deleted_process_list",
                                     JsonArray(<<Scalar("int", 9)>>)>> >>)>>}

TestRequests ==
  {NotJson, String("text"), JsonArray(<< >>)}
  \cup {Object(s) : s \in BoundedSeq(TestMembers, 2)}

TestInfos ==
  {[pid |-> 7, newcomer |-> n, valid |-> v, ruid |-> 0,
    comm |-> c, exe |-> c, cmdLine |-> c] :
     n \in BOOLEAN, v \in BOOLEAN, c \in {"", "sh"}}

TestListings == [processes : BoundedSeq(TestInfos, 1), removed : {<< >>, <<9>>}]
=============================================================================
