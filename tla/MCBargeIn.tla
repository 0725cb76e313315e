----------------------------- MODULE MCBargeIn -----------------------------
(***************************************************************************)
(* An acknowledgement that is listed, a short word and a question; the      *)
(* default tree, and a campaign that lets the question barge in at once and *)
(* anything else but the acknowledgement when it lasts.                     *)
(***************************************************************************)
EXTENDS BargeIn

MCTexts == {"", "mhm", "a", "why not"}
MCLength == [t \in MCTexts |-> CASE t = "" -> 0 [] t = "mhm" -> 2 [] t = "a" -> 1
                                 [] t = "why not" -> 3]
MCWhitelist == {"mhm"}

Listed   == [type |-> "keyword", match |-> "exact", values |-> MCWhitelist]
NotOne   == [type |-> "not", rule |-> Listed]
Chars    == [type |-> "length", value |-> 2]
Lasts    == [type |-> "duration", value |-> 2]
Question == [type |-> "search", hits |-> {"why not"}]
Default  == [type |-> "and", rules |-> <<NotOne, Chars, Lasts>>]
Long     == [type |-> "and", rules |-> <<NotOne, Lasts>>]
AtOnce   == [type |-> "or", rules |-> <<Question, Long>>]
Off      == [type |-> "none"]

MCTrees == {Listed, NotOne, Chars, Lasts, Question, Default, Long, AtOnce, Off}
MCCampaigns == {NoTree, AtOnce, Off}
=============================================================================
