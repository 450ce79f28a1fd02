------------------------------ MODULE ToolCallsMC -----------------------------
(* A small instance of ToolCalls: one call of each kind.                   *)
EXTENDS ToolCalls

Texts == {<<"x", "y">>}

FileCall(tool, kind, place) ==
  [tool |-> tool, kind |-> kind, place |-> place, traits |-> {}, text |-> <<"x">>,
   root |-> FALSE, first |-> 2, last |-> 3, query |-> "y", most |-> 2,
   edits |-> IF tool = "apply_patch"
             THEN <<[old |-> "x", new |-> "y", all |-> FALSE],
                    [old |-> "y", new |-> "x", all |-> TRUE]>>
             ELSE <<>>]

Walk(tool, deep) ==
  [tool |-> tool, kind |-> "inside", place |-> "a", traits |-> {}, edits |-> <<>>,
   root |-> TRUE, deep |-> deep, query |-> "x", most |-> 2]

Command(traits) ==
  [tool |-> CommandTool, kind |-> "none", place |-> "a", traits |-> traits, text |-> <<>>,
   edits |-> <<>>]

Calls ==
  {FileCall("write_file", "inside", "a"), FileCall("apply_patch", "inside", "a"),
   FileCall("read_file", "inside", "a"), FileCall("write_file", "git", "g"),
   FileCall("search_text", "inside", "b"), FileCall("write_file", "outside", "o"),
   FileCall("write_file", "absolute", "a"), FileCall("extension tool", "none", "a"),
   Walk("list_files", FALSE), Walk("search_text", TRUE)}
  \cup {Command({}), Command({"read"}), Command({"read", "compound"}), Command({"validation"}),
        Command({"local write"}), Command({"read", "delete", "destructive"}),
        Command({"missing"})}
=============================================================================
