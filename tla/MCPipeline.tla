----------------------------- MODULE MCPipeline -----------------------------
(* Instances of Pipeline for TLC. *)
EXTENDS PipelineInv

\* An input, an output, and a file that would be delivered to the same place as the output.  The
\* last name has a backslash, and is compiled as the output.
MCName == <<  <<"inputs", "a">>, <<"outputs", "x">>, <<"x">>, <<"outputs\\x">>  >>
MCWritten == <<1, 2, 3, 2>>
MCBackslashed == {"outputs\\x"}
MCPlaceholders == [name \in {"{{inputs.order}}", "{{inputs.other}}"} |->
                 IF name = "{{inputs.order}}" THEN {"order"} ELSE {"other"}]

\* The second command may be recorded with a path, with a placeholder, or be one that is denied.
MCCommandLines ==
  LET reads == [program |-> <<"tool">>, reads |-> TRUE, inputs |-> {}]
  IN << {reads},
        {reads, [program |-> <<"tool">>, reads |-> FALSE, inputs |-> {"order"}],
         [program |-> <<"sudo">>, reads |-> FALSE, inputs |-> {}]} >>
\* The first command does not write the name with the backslash, the second one writes no input.
MCWorks ==
  LET written(paths, contents) == [op : {"write"}, path : paths, content : contents]
      deleted(paths)           == [op : {"delete"}, path : paths, content : {0}]
  IN << written({1, 2}, {1, 2}) \cup written({3}, {1}) \cup deleted({1, 2}),
        written({2, 4}, {2}) \cup deleted({2}) >>
MCHandMoves == {<<1, 2>>, <<2, 1>>, <<2, 3>>, <<4, 3>>}
MCDangerous == {<<"sudo">>}
=============================================================================
