------------------------------ MODULE VetoGate ------------------------------
(***************************************************************************)
(* What the automatic path of the orchestrator promises an operator, for   *)
(* every proposed safety script: the script actuates by itself at most     *)
(* once, only out of a window that was opened for it (or at once, when the *)
(* script asks for no window), and never after the window was withdrawn;   *)
(* and a window, once open, is eventually settled.  Early approval is not  *)
(* automatic: to the gate it withdraws the window.                         *)
(***************************************************************************)
EXTENDS Naturals

CONSTANT Proposals      \* identities of the proposed scripts

VARIABLE phase

Phases == {"none", "pending", "dropped", "advised", "open", "fired", "withdrawn"}

TypeOK == phase \in [Proposals -> Phases]

Init == phase = [p \in Proposals |-> "none"]

Move(p, from, to) == /\ phase[p] = from
                     /\ phase' = [phase EXCEPT ![p] = to]

Propose(p) == Move(p, "none", "pending")
Open(p)    == Move(p, "pending", "open")
Advise(p)  == Move(p, "pending", "advised")
Fire(p)    == Move(p, "open", "fired")

(* One decision may end several proposals: panic mode ends them all. *)
End(S) == /\ S # {}
          /\ \A p \in S : phase[p] \in {"pending", "open"}
          /\ phase' = [p \in Proposals |->
                         IF p \notin S THEN phase[p]
                         ELSE IF phase[p] = "open" THEN "withdrawn" ELSE "dropped"]

Settle(p) == Open(p) \/ Advise(p) \/ Fire(p) \/ End({p})

Next == \/ \E p \in Proposals : Propose(p) \/ Open(p) \/ Advise(p) \/ Fire(p)
        \/ \E S \in SUBSET Proposals : End(S)

Safety == Init /\ [][Next]_phase

Spec == Safety /\ \A p \in Proposals : WF_phase(Settle(p))
=============================================================================
