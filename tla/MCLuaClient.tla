---------------------------- MODULE MCLuaClient ----------------------------
(* LuaClient over two scripts: one that returned a tree of tables four      *)
(* deep with an empty table and a key that is neither number nor string,    *)
(* one that returned a table with a number key no Integer holds.            *)
EXTENDS LuaClient

MCTables  == {"root", "sub", "leaf", "empty", "wide"}
MCStrings == {"t", "y"}
MCNumbers == {"one", "big", "huge"}
MCValues  == MCTables \cup MCStrings \cup MCNumbers \cup {"nil", "true"}

MCTag == [v \in MCValues |->
  CASE v \in MCTables  -> "table"
    [] v \in MCStrings -> "string"
    [] v \in MCNumbers -> "number"
    [] v = "nil"  -> "nil"
    [] v = "true" -> "other"]

MCEntries == [v \in MCTables |->
  CASE v = "root"  -> <<<<"t", "sub">>, <<"true", "leaf">>, <<"one", "empty">>>>
    [] v = "sub"   -> <<<<"one", "big">>, <<"t", "leaf">>>>
    [] v = "leaf"  -> <<<<"y", "huge">>, <<"true", "y">>, <<"t", "empty">>>>
    [] v = "empty" -> <<>>
    [] v = "wide"  -> <<<<"one", "leaf">>, <<"big", "one">>>>]

MCLabel == [v \in MCStrings \cup MCNumbers |-> <<v>>]
MCChars == MCStrings \cup MCNumbers \cup {"."}
MCStart == [i \in Interps |-> IF i = "L" THEN "root" ELSE "wide"]
MCFitsInteger == {"one"}
MCFitsLong == {"one", "big"}
MCAsked == {"t", "y", "one"}
============================================================================
