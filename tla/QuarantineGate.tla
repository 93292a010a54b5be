--------------------------- MODULE QuarantineGate ---------------------------
(***************************************************************************)
(* What the quarantine promises about a file: it is judged once, the       *)
(* judgement stands, and only a file judged clean is ever handed out or    *)
(* made evidence.                                                          *)
(***************************************************************************)
CONSTANT Files
VARIABLES gate,      \* absent, closed, clean or infected
          readable,  \* files a link was issued for
          evidence   \* files that became evidence

Init == gate = [f \in Files |-> "absent"] /\ readable = {} /\ evidence = {}

Arrive(f) == /\ gate[f] = "absent"
             /\ gate' = [gate EXCEPT ![f] = "closed"]
             /\ UNCHANGED <<readable, evidence>>

Judge(f) == /\ gate[f] = "closed"
            /\ \E v \in {"clean", "infected"} : gate' = [gate EXCEPT ![f] = v]
            /\ UNCHANGED <<readable, evidence>>

Open(f) == /\ gate[f] = "clean"
           /\ \/ readable' = readable \cup {f} /\ UNCHANGED evidence
              \/ evidence' = evidence \cup {f} /\ UNCHANGED readable
           /\ UNCHANGED gate

Next == \E f \in Files : Arrive(f) \/ Judge(f) \/ Open(f)
Spec == Init /\ [][Next]_<<gate, readable, evidence>>
=============================================================================
