------------------------------- MODULE Mirror -------------------------------
(***************************************************************************)
(* What the console promises about a configuration row, whatever its kind  *)
(* and however it is pushed: no requests, calls, failures or restarts here *)
(* but for their effect on the three copies of what the row says.          *)
(*                                                                         *)
(* A row is trusted once a save was reported as a success, and until       *)
(* somebody touches it.  While it is trusted, the row, the live object and *)
(* what Jasmin has on disk say the same, so neither other requests nor a   *)
(* restart of Jasmin can make the console show what is not so.             *)
(***************************************************************************)
CONSTANTS Row, Val, None

VARIABLES
  copy,     \* copy[r]: what the row says, None without a row
  live,     \* live[r]: what the object of that row says
  kept,     \* kept[r]: the same, in what Jasmin has persisted
  trusted   \* the rows whose last save was reported as a success

vars == <<copy, live, kept, trusted>>

Same(r) == copy[r] # None /\ live[r] = copy[r] /\ kept[r] = copy[r]

Values == [Row -> Val \cup {None}]

Init ==
  /\ copy \in Values /\ live \in Values /\ kept \in Values
  /\ trusted = {}

\* Rows and objects change, those of trusted rows excepted ...
Others ==
  /\ copy' \in Values /\ live' \in Values /\ kept' \in Values
  /\ \A r \in trusted' : Same(r)'
  /\ \A r \in trusted \cap trusted' : copy'[r] = copy[r]

\* ... while somebody begins to touch some of them,
Touch == trusted' \subseteq trusted /\ Others

\* ... or a save is reported as a success: the three agree by then.
Confirm(r) == r \notin trusted /\ trusted' = trusted \cup {r} /\ Others

Next == Touch \/ \E r \in Row : Confirm(r)

Spec == Init /\ [][Next]_vars
====
