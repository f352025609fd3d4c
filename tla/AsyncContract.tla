--------------------------- MODULE AsyncContract ---------------------------
(***************************************************************************)
(* What the asynchronous API promises of the commands issued on a context: *)
(* a call is accepted or refused, the callback of an accepted command is   *)
(* called once, none is accepted once the client is closing, and none is   *)
(* left without its call when the context has been freed.                  *)
(***************************************************************************)
CONSTANT Cmd

VARIABLES st, phase

cvars == <<st, phase>>

Init == st = [i \in Cmd |-> "idle"] /\ phase = "open"

Accept(i) ==
  /\ phase = "open" /\ st[i] = "idle"
  /\ st' = [st EXCEPT ![i] = "pending"]
  /\ UNCHANGED phase

Refuse(i) ==
  /\ phase # "freed" /\ st[i] = "idle"
  /\ st' = [st EXCEPT ![i] = "refused"]
  /\ UNCHANGED phase

Call(i) ==
  /\ phase # "freed" /\ st[i] = "pending"
  /\ st' = [st EXCEPT ![i] = "called"]
  /\ UNCHANGED phase

Close == phase = "open" /\ phase' = "closing" /\ UNCHANGED st

Free ==
  /\ phase # "freed"
  /\ \A i \in Cmd : st[i] # "pending"
  /\ phase' = "freed"
  /\ UNCHANGED st

Next == Close \/ Free \/ \E i \in Cmd : Accept(i) \/ Refuse(i) \/ Call(i)

Safe == Init /\ [][Next]_cvars

Spec == Safe /\ \A i \in Cmd : WF_cvars(Call(i))
=============================================================================
