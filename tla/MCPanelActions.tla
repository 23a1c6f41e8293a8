--------------------------- MODULE MCPanelActions ---------------------------
(* Two settings forms and one service list, two settings of two values.    *)
EXTENDS PanelActions
CONSTANTS f1, f2, l1, name, timeout, old, new
TwoForms == {f1, f2}
OneList == {l1}
TwoKeys == {name, timeout}
TwoValues == {old, new}
AllOld == [k \in TwoKeys |-> old]
=============================================================================
