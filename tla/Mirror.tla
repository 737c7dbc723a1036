-------------------------------- MODULE Mirror --------------------------------
(***************************************************************************)
(* What the blockers of a calendar may show: the calendar itself, copied    *)
(* twice.  The engine is told what the calendar looks like at the moment it *)
(* asks, it knows what it took from such an answer, and it shows what it    *)
(* knows.  No copy is made of anything but the one before it as it is now,  *)
(* and nothing is copied back: a time that was given up by one of the       *)
(* copies is never passed on by it again.                                   *)
(***************************************************************************)
EXTENDS Integers

CONSTANTS
  Origin, Target,  \* events of the calendar; accounts that show them
  Content, Time,   \* what an event can be, and when it can be, if it is to be shown
  Horizon,         \* how far ahead the engine looks
  Gone, Silence,   \* in an answer: the event is gone; nothing is said of it
  Unseen           \* the event is not known

VARIABLES
  now,
  truth,   \* the calendar
  told,    \* what is left of the last answer
  known,   \* the events as the engine knows them
  shown    \* the times that the blockers of each event show on each account

Pair == Origin \X Target

Init ==
  /\ now = 0 /\ truth \in [Origin -> Content]
  /\ told = [o \in Origin |-> Silence]
  /\ known = [o \in Origin |-> Unseen]
  /\ shown = [p \in Pair |-> {}]

Ahead(t) == t \in Time /\ now < t /\ t <= now + Horizon

TimePasses == now' = now + 1 /\ UNCHANGED <<truth, told, known, shown>>

\* The calendar belongs to its user.
Edit(o) ==
  /\ \E v \in Content : truth' = [truth EXCEPT ![o] = v]
  /\ UNCHANGED <<now, told, known, shown>>

\* An answer says of an event what it is now, or that it is gone, or nothing.
Ask ==
  /\ \E silent, gone \in SUBSET Origin :
       told' = [o \in Origin |-> IF o \in silent THEN Silence
                                ELSE IF o \in gone THEN Gone ELSE truth[o]]
  /\ UNCHANGED <<now, truth, known, shown>>

Interrupted == told' = [o \in Origin |-> Silence]

GiveUp == Interrupted /\ UNCHANGED <<now, truth, known, shown>>

\* A notice of the answer is taken; it is remembered if the event is ahead.
Take(o) ==
  /\ told[o] /= Silence
  /\ told' = [told EXCEPT ![o] = Silence]
  /\ \/ UNCHANGED known
     \/ Ahead(told[o]) /\ known' = [known EXCEPT ![o] = told[o]]
  /\ UNCHANGED <<now, truth, shown>>

Forget(O) ==
  /\ known' = [o \in Origin |-> IF o \in O THEN Unseen ELSE known[o]]
  /\ UNCHANGED <<now, truth, told, shown>>

\* A blocker appears, moves or is put right.  The answer may be lost with the
\* response of the call.
Show(p) ==
  /\ known[p[1]] /= Unseen
  /\ shown' = [shown EXCEPT ![p] = {known[p[1]]}]
  /\ UNCHANGED told \/ Interrupted
  /\ UNCHANGED <<now, truth, known>>

Hide(p) ==
  /\ shown' = [shown EXCEPT ![p] = {}]
  /\ UNCHANGED told \/ Interrupted
  /\ UNCHANGED <<now, truth, known>>

Next ==
  \/ TimePasses \/ Ask \/ GiveUp
  \/ \E o \in Origin : Edit(o) \/ Take(o)
  \/ \E O \in SUBSET Origin : Forget(O)
  \/ \E p \in Pair : Show(p) \/ Hide(p)

Spec == Init /\ [][Next]_<<now, truth, told, known, shown>>
=============================================================================
