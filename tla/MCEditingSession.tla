--------------------------- MODULE MCEditingSession ---------------------------
(* Model checking of the editing session: one or two models, one accessory, *)
(* stacks of one or two commands, and for each question the kinds of        *)
(* commands it is about.                                                   *)
EXTENDS EditingSession

CONSTANTS m1, m2, a1

OneModel == {m1}
TwoModels == {m1, m2}
OneAccessory == {a1}
NoAccessories == {}

PoseKinds == {"transform", "keyframe", "edit"}

EditingKinds == {"snapshot", "accessory", "edit"}
=============================================================================
