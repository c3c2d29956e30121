------------------------------ MODULE OneShot ------------------------------
(***************************************************************************)
(* What the stores promise of everything players hand to each other: an    *)
(* offer (a challenge, an invitation, a waiting lobby, an offer of a       *)
(* rematch) is used at most once, for one product made for it alone (a     *)
(* lobby, a match), or is withdrawn and never used.                        *)
(***************************************************************************)
CONSTANTS Offers, Products

VARIABLES outcome,   \* what became of each offer
          made       \* the products that exist

Init == /\ outcome \in [Offers -> {"absent", "open"}]
        /\ made = {}

Open(o) == /\ outcome[o] = "absent"
           /\ outcome' = [outcome EXCEPT ![o] = "open"]
           /\ UNCHANGED made

Use(o, p) == /\ outcome[o] = "open"
             /\ p \notin made
             /\ outcome' = [outcome EXCEPT ![o] = p]
             /\ made' = made \cup {p}

Withdraw(o) == /\ outcome[o] = "open"
               /\ outcome' = [outcome EXCEPT ![o] = "withdrawn"]
               /\ UNCHANGED made

Next == \E o \in Offers : \/ Open(o)
                          \/ \E p \in Products : Use(o, p)
                          \/ Withdraw(o)

Spec == Init /\ [][Next]_<<outcome, made>>
=============================================================================
