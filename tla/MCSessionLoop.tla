--------------------------- MODULE MCSessionLoop ---------------------------
(***************************************************************************)
(* Instances of SessionLoop for TLC.                                       *)
(***************************************************************************)
EXTENDS SessionLoop

CONSTANTS
  main,  \* the main thread
  ag,    \* an agent the main thread starts
  sh,    \* a shell the main thread starts
  cs     \* a shell the agent starts

MCTasks == {ag, cs}
MCOwnerOf == [t \in MCTasks |-> IF t = cs THEN ag ELSE main]

\* Two shells of the main thread and no agent.
MCShells == {sh, cs}
MCMainOwns == [t \in MCShells |-> main]

===========================================================================
