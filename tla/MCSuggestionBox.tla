--------------------------- MODULE MCSuggestionBox ---------------------------
(* Instances of SuggestionBox for TLC: nothing, a blank, and two texts of  *)
(* which one is offered for the other.                                     *)
EXTENDS SuggestionBox

Texts == {"", " ", "ip", "ipad"}
TrimmedTexts == [t \in Texts |-> IF t = " " THEN "" ELSE t]
OfferedTexts ==
    [t \in Texts |-> CASE t = "ip" -> <<"ip", "ipad">>
                       [] t = "ipad" -> <<"ipad">>
                       [] OTHER -> <<>>]
Null == "null"

=============================================================================
