----------------------------- MODULE MCLuaLoad -----------------------------
(* LuaLoad over a small tree with every kind of key and value: a subtable,   *)
(* a number too large for an Integer and one too large for a Long_Integer,   *)
(* a number key, a key that is neither a number nor a string.                *)
EXTENDS LuaLoad

MCValues == {"nil", "root", "sub", "wide", "x", "t", "y", "w", "one", "big", "huge", "true"}

MCTag == [v \in MCValues |->
  CASE v = "nil" -> "nil"
    [] v \in {"root", "sub", "wide"} -> "table"
    [] v \in {"x", "t", "y", "w"} -> "string"
    [] v \in {"one", "big", "huge"} -> "number"
    [] v = "true" -> "other"]

MCEntries == [v \in {"root", "sub", "wide"} |->
  CASE v = "root" -> <<<<"t", "sub">>, <<"true", "x">>, <<"w", "wide">>>>
    [] v = "sub"  -> <<<<"one", "big">>, <<"y", "huge">>>>
    [] v = "wide" -> <<<<"big", "one">>>>]

MCLabel == [v \in {"x", "t", "y", "w", "one", "big", "huge"} |-> <<v>>]

MCChars == {"x", "t", "y", "w", "one", "big", "huge", "."}
MCStart == [i \in Interps |-> "root"]
MCFitsInteger == {"one"}
MCFitsLong == {"one", "big"}
MCAsked == {"t", "one"}
============================================================================
