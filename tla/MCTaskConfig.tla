---------------------------- MODULE MCTaskConfig ----------------------------
EXTENDS TaskConfigProps

(* A start event and two user tasks with the ids the designer gives. *)
MCNodes == <<"startevent1", "usertask1", "usertask10">>

MCType == [startevent1 |-> "StartEvent", usertask1 |-> "UserTask", usertask10 |-> "UserTask"]

MCRadioHtml == [startevent1 |-> "radio startevent1", usertask1 |-> "radio usertask1",
                usertask10 |-> "radio usertask10"]

MCWithin == [usertask1 |-> {"usertask1", "usertask10"}, usertask10 |-> {"usertask10"}]

MCUserChoices == {[ids |-> <<"7", "8">>, names |-> <<"ann", "bob">>]}

MCGroupChoices == {[ids |-> <<"3">>, names |-> <<"staff">>]}

MCTypedIds == {<<"9">>}

MCLines == {[title |-> "pass", value |-> "1"], [title |-> "stop", value |-> ""]}

=============================================================================
