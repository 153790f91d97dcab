------------------------------ MODULE MCConfig ------------------------------
(***************************************************************************)
(* Small files of Config: lines as the example file describes them, and    *)
(* lines that it does not allow, most of which parse accepts.              *)
(***************************************************************************)
EXTENDS Config

Line(key, value) == [key |-> key, value |-> value]

Specs(limits, ds, pct) ==
  [fixed_value : limits, decrement : ds, decrement_is_pct : {pct}]
MCSpecSet ==
  Specs({7, 30}, {0}, FALSE) \cup Specs({1, 4, 9}, {3, 10}, FALSE)
  \cup Specs({2, 11}, {1, 25, 50}, TRUE)

\* After a fixed size or a sequence another begins anew.
DocumentedSizes ==
  {SpecText(s) : s \in MCSpecSet} \cup
  {<<"7", ",", "2", ":", "2", "5", "%">>, <<"4", ":", "1", "0", "p", "x", ",", "7">>}

\* Accepted are 0:5%, 0:3px, 3:10q (is 3:1px), 4:50x (is 4:5px), -1:2px, 4:-1px,
\* -1, and 5 with a comma.  The others are refused.
OtherSizes ==
  {<<"0", ":", "5", "%">>, <<"0", ":", "3", "p", "x">>, <<"3", ":", "1", "0", "q">>,
   <<"4", ":", "5", "0", "x">>, <<"-", "1", ":", "2", "p", "x">>,
   <<"4", ":", "-", "1", "p", "x">>, <<"-", "1">>, <<"5", ",">>,
   <<"3", ":">>, <<"3", ":", "0", "p", "x">>, <<"3", ":", "1", "0", "0", "%">>}

MCLines ==
  {Line(<<"sizes">>, v) : v \in DocumentedSizes \cup OtherSizes} \cup
  {Line(<<"processing_timeout_secs">>, v) : v \in {<<"9">>, <<"-", "1">>}} \cup
  {Line(<<"socket_kill_timeout_secs">>, v) : v \in {<<"9", "9">>, <<"9", "9", "9", "9">>}} \cup
  {Line(<<"upload_limit">>, v) : v \in {<<"3", "k">>, <<"4", "G">>, <<"2", "0">>}} \cup
  {Line(<<"listen_port">>, <<"3", "0", "0">>),
   Line(<<"thread_pool_size">>, <<"0">>),
   Line(<<"storage", "type">>, <<"fs">>), Line(<<"storage", "type">>, <<"s3">>),
   Line(<<"storage", "data_dir">>, <<"data">>), Line(<<"storage", "temp_dir">>, <<"temp">>),
   Line(<<"formats", "*">>, <<"webp", ",", "jpeg">>), Line(<<"formats", "png">>, <<>>),
   Line(<<"colour">>, <<"red">>)}
MCWidths == {1, 5, 12}
=============================================================================
