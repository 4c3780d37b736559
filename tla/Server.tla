------------------------------- MODULE Server -------------------------------
(***************************************************************************)
(* What the device promises of its responses (design document 5 and 6.2:   *)
(* every CMD is answered by a RSP that names its seq): a request is        *)
(* answered at most once, in the order of asking, and only after it was    *)
(* asked.  A request may be lost instead, and then it is never answered.   *)
(***************************************************************************)
EXTENDS Naturals, Sequences, FiniteSets

CONSTANT Requests       \* numbered in the order in which the client asks

VARIABLES asked,        \* requests neither answered nor lost
          answers,      \* the answers the client has, in order
          lost          \* requests that get no answer any more

vars == <<asked, answers, lost>>

Answered == {answers[i] : i \in 1 .. Len(answers)}

Init == asked = {} /\ answers = <<>> /\ lost = {}

Ask(r) == /\ r \notin asked \cup Answered \cup lost
          /\ asked' = asked \cup {r}
          /\ UNCHANGED <<answers, lost>>

Reply(r) == /\ r \in asked /\ \A a \in Answered : a < r
            /\ asked' = asked \ {r} /\ answers' = Append(answers, r)
            /\ UNCHANGED lost

Lose(r) == /\ r \in asked
           /\ asked' = asked \ {r} /\ lost' = lost \cup {r}
           /\ UNCHANGED answers

Next == \E r \in Requests : Ask(r) \/ Reply(r) \/ Lose(r)

Spec == Init /\ [][Next]_vars
=============================================================================
