--------------------------- MODULE MCOrchestration ---------------------------
(* Instances of Orchestration for TLC. *)
EXTENDS Orchestration

Sound == [name |-> "known", shape |-> "clean", flags |-> "none",
          effect |-> "enough", grounded |-> TRUE, floor |-> FALSE,
          critical |-> FALSE]
Misspelt == [Sound EXCEPT !.name = "typo", !.flags = "alone"]
Forbidden == [Sound EXCEPT !.floor = TRUE]

ThreeDrafts == {Sound, Misspelt, Forbidden}

Default == [allow |-> TRUE, local |-> TRUE, web |-> TRUE, override |-> FALSE]
TwoConfigs == {Default, [Default EXCEPT !.allow = FALSE]}
=============================================================================
