--------------------------- MODULE MCConversation ---------------------------
(* What sr learns from a session: the passes of sr observe over a growing  *)
(* transcript, what users say of its rankings, and the conversation that   *)
(* is read out of a history.  `part' names the component that runs; the    *)
(* others stay as they began.                                              *)
EXTENDS Observing, Feedback, Session

CONSTANTS p, q

VARIABLE part

\* Observing on its own variables with other bounds: one pass over a longer
\* transcript, one pass between rankings and the passing of time, and one pass
\* over a transcript that is replaced.
Long == INSTANCE Observing WITH
  Passes <- {p}, MaxLines <- 4, MaxCursor <- 3
Attribution == INSTANCE Observing WITH
  Passes <- {p}, MaxLines <- 1, MaxTime <- 2, MaxEmit <- 2, WINDOW <- 1
Replaced == INSTANCE Observing WITH
  Passes <- {p}, MaxLines <- 2, MaxReplace <- 1

ConversationInit ==
  /\ part \in {"passes", "long", "attribution", "replaced", "feedback", "session"}
  /\ CASE part = "long" -> Long!Init
       [] part = "attribution" -> Attribution!Init
       [] part = "replaced" -> Replaced!Init
       [] OTHER -> Init
  /\ FeedbackInit /\ SessionInit

ConversationNext ==
  \/ part = "passes" /\ Next /\ UNCHANGED <<part, feedbackVars, h>>
  \/ part = "long" /\ Long!Next /\ UNCHANGED <<part, feedbackVars, h>>
  \/ part = "attribution" /\ Attribution!Next /\ UNCHANGED <<part, feedbackVars, h>>
  \/ part = "replaced" /\ Replaced!Next /\ UNCHANGED <<part, feedbackVars, h>>
  \/ part = "feedback" /\ FeedbackNext /\ UNCHANGED <<part, vars, h>>
  \/ part = "session" /\ SessionNext /\ UNCHANGED <<part, vars, feedbackVars>>

ConversationSpec ==
  ConversationInit /\ [][ConversationNext]_<<part, vars, feedbackVars, h>>

\* Users are interchangeable, and so are the skills they judge.
Symmetries == Permutations(Users) \cup Permutations(Skills)
=============================================================================
