---------------------------- MODULE OneTimeExport ----------------------------
(***************************************************************************)
(* What the web process promises about an export: it is stored before it   *)
(* is offered, it is withdrawn only after it has been confirmed or has     *)
(* lapsed, it is offered once, and nothing of it comes back.  There is no  *)
(* CA here, and there are no links, threads, failures or restarts.         *)
(***************************************************************************)
CONSTANT Exports

VARIABLES
    phase,     \* how far each export has come
    released   \* exports that are confirmed or have lapsed

vars == <<phase, released>>

Init ==
    /\ phase = [x \in Exports |-> "none"]
    /\ released = {}

Advance(x, from, to) ==
    /\ phase[x] = from
    /\ phase' = [phase EXCEPT ![x] = to]
    /\ UNCHANGED released

Store(x) == Advance(x, "none", "stored")
Offer(x) == Advance(x, "stored", "offered")
Withdraw(x) == x \in released /\ Advance(x, "offered", "withdrawn")
End(x) == Advance(x, "withdrawn", "ended")

Release(x) ==
    /\ phase[x] \in {"offered", "withdrawn"}
    /\ released' = released \cup {x}
    /\ UNCHANGED phase

Next == \E x \in Exports : Store(x) \/ Offer(x) \/ Withdraw(x) \/ End(x) \/ Release(x)

Spec == Init /\ [][Next]_vars

=============================================================================
