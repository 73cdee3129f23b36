-------------------------------- MODULE MCFD --------------------------------
EXTENDS FD, TLC

CONSTANTS g1, g2, g3

Input == <<{"r"}, FALSE>>
Failure == <<Mode, TRUE>>

\* Two readers, a writer and a Close.
Contention ==
  [io |-> g1 :> {"r"} @@ g2 :> Mode @@ g3 :> {}, setters |-> {}, closers |-> {g3},
   deadlines |-> {}, calls |-> 4, opens |-> 0, inputs |-> 1, arrivals |-> {Input, Failure}]

\* Deadlines for one mode or for both, with one timer or two.
Late ==
  [io |-> g1 :> {"r"} @@ g2 :> {} @@ g3 :> {}, setters |-> {g3}, closers |-> {},
   deadlines |-> {<<Mode, 1>>, <<{"w"}, 2>>, <<{"r"}, -1>>, <<{"r"}, -2>>, <<{"r"}, 0>>},
   calls |-> 4, opens |-> 0, inputs |-> 1, arrivals |-> {Input}]

\* One reader, a deadline, a Close, and the pollDesc is used again.
Reuse ==
  [io |-> g1 :> {"r"} @@ g2 :> {} @@ g3 :> {}, setters |-> {g2}, closers |-> {g3},
   deadlines |-> {<<Mode, 1>>}, calls |-> 5, opens |-> 1, inputs |-> 1,
   arrivals |-> {Input}]

AllScenarios == {Contention, Late, Reuse}
=============================================================================
