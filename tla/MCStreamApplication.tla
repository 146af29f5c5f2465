------------------------- MODULE MCStreamApplication -------------------------
(* Either of the two programs, for one run: the variable program chooses,  *)
(* and the variables of the other one keep their initial values.           *)
EXTENDS StreamTutorial, TestingTool

MCInit ==
  /\ ApplicationInit
  /\ my_deque = << >>
  /\ retry = FALSE /\ stream_ended = FALSE

MCNext ==
  \/ program = "tutorial" /\ TutorialNext /\ UNCHANGED flags
  \/ program = "tool" /\ ToolNext /\ UNCHANGED my_deque

MCvars == <<avars, my_deque, flags>>

MCSpec ==
  /\ MCInit /\ [][MCNext]_MCvars
  /\ program = "tutorial" => TutorialFairness
  /\ program = "tool" => ToolFairness

ProgramTypesOK == TutorialTypeOK /\ ToolTypeOK

=============================================================================
