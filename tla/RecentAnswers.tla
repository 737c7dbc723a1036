----------------------------- MODULE RecentAnswers -----------------------------
(***************************************************************************)
(* What the event view of the desktop application may count on: the        *)
(* calendars change at any time, and every answer shows a state they were  *)
(* in at most MaxAge before the question.                                  *)
(***************************************************************************)
EXTENDS Naturals, Sequences

CONSTANTS MaxAge, NoAnswer

VARIABLES
  clock,
  history,   \* since when each state of the calendars, in their order, holds
  answer     \* the last answer: the state it shows, and when it was asked for

Init == clock = 0 /\ history = <<0>> /\ answer = NoAnswer

\* State v still held at some moment not more than MaxAge before t.
Held(v, t) == v = Len(history) \/ t <= history[v + 1] + MaxAge

TimePasses == clock' = clock + 1 /\ UNCHANGED <<history, answer>>

CalendarsChange == history' = Append(history, clock) /\ UNCHANGED <<clock, answer>>

Answer ==
  /\ \E v \in 1..Len(history), t \in 0..clock :
       Held(v, t) /\ answer' = [shows |-> v, asked |-> t]
  /\ UNCHANGED <<clock, history>>

Next == TimePasses \/ CalendarsChange \/ Answer

Spec == Init /\ [][Next]_<<clock, history, answer>>
=============================================================================
