------------------------------ MODULE MCUiControl ------------------------------
(* UiControl for TLC: two backends, and a profile that drops the second.     *)
EXTENDS UiControl

Both == [backends |-> <<"a", "b">>, active |-> "a"]
Less == [backends |-> <<"a">>, active |-> "a"]
MCProfiles == {Both, Less}
MCInit == ControlInit /\ config = Both
MCFairSpec == MCInit /\ [][ControlNext]_controlVars /\ ControlFairness
=============================================================================
