-------------------------------- MODULE MCCalls --------------------------------
(* A small instance of Calls for TLC. *)
EXTENDS Calls, TLC

CONSTANTS alice, bob, c1, c2

\* Both call each other, and no signal is safe.
Glare ==
    [ calls |-> alice :> {c1} @@ bob :> {c2}, patient |-> Side,
      enders |-> {}, failing |-> {}, online |-> Side, lossy |-> TRUE ]

\* alice calls, hangs up and calls again.
Again ==
    [ calls |-> alice :> {c1, c2} @@ bob :> {}, patient |-> Side,
      enders |-> {alice}, failing |-> {}, online |-> Side, lossy |-> FALSE ]

\* One call that either side ends, or that fails anywhere.
Broken ==
    [ calls |-> alice :> {c1} @@ bob :> {}, patient |-> {},
      enders |-> {alice, bob}, failing |-> {alice, bob},
      online |-> Side, lossy |-> TRUE ]

\* bob is offline, and alice calls twice, hangs up and waits for nothing.
Hasty ==
    [ calls |-> alice :> {c1, c2} @@ bob :> {}, patient |-> {},
      enders |-> {alice}, failing |-> {alice}, online |-> {alice},
      lossy |-> FALSE ]

SomeScenarios == {Glare, Again, Broken, Hasty}
=============================================================================
