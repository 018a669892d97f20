---------------------------- MODULE AccessPolicy ----------------------------
(***************************************************************************)
(* What the access checks of the API promise, with the checks themselves   *)
(* left out.  A request may do what its user had the rights for while the  *)
(* request was under way.  The handlers read the session, the row and the  *)
(* grants in separate queries, so the rights an act needs may have been    *)
(* held at different instants of the request, but never only before it     *)
(* began.  Rights grow only by the act of an administrator.                *)
(***************************************************************************)
CONSTANTS Req, Users, Conns, UserOf

Rights == {"session", "admin", "row", "read", "write", "open"}
Acts == {"none", "read", "write", "administer"}

(* The rights an act needs: "open" is a connection that is not read-only.  *)
Needs(act) == CASE act = "none" -> {}
                [] act = "read" -> {"session", "row", "read"}
                [] act = "write" -> {"session", "row", "read", "write", "open"}
                [] act = "administer" -> {"session", "admin"}

VARIABLES rights, \* what every user may do on every connection now
          open,   \* the connection of every request that may yet act
          held,   \* the rights its user has had since the request began
          acted   \* what the request has done

vars == <<rights, open, held, acted>>

Init == /\ rights \in [Users \X Conns -> SUBSET Rights]
        /\ open = [r \in Req |-> {}]
        /\ held = [r \in Req |-> {}]
        /\ acted = [r \in Req |-> "none"]

(* Every request that may yet act sees the rights its user has now.        *)
Witness == held' = [r \in Req |->
                      IF open'[r] = {} THEN {}
                      ELSE held[r] \cup UNION {rights'[<<UserOf[r], c>>] : c \in open'[r]}]

Ask(r) == /\ open[r] = {} /\ acted[r] = "none"
          /\ \E c \in Conns :
                /\ "session" \in rights[<<UserOf[r], c>>]
                /\ open' = [open EXCEPT ![r] = {c}]
          /\ UNCHANGED <<rights, acted>>
          /\ Witness

Act(r, act) == /\ open[r] # {}
               /\ Needs(act) \subseteq held[r]
               /\ acted' = [acted EXCEPT ![r] = act]
               /\ open' = [open EXCEPT ![r] = {}]
               /\ act # "administer" => UNCHANGED rights
               /\ Witness

(* Requests end, answered or cut off, and sessions end: nobody gains a     *)
(* right by that.                                                          *)
Cease(R) == /\ open' = [r \in Req |-> IF r \in R THEN {} ELSE open[r]]
            /\ acted' = [r \in Req |-> IF r \in R THEN "none" ELSE acted[r]]
            /\ DOMAIN rights' = DOMAIN rights
            /\ \A k \in DOMAIN rights : rights'[k] \subseteq rights[k]
            /\ Witness

Next == \/ \E R \in SUBSET Req : Cease(R)
        \/ \E r \in Req : Ask(r) \/ \E act \in Acts \ {"none"} : Act(r, act)

Spec == Init /\ [][Next]_vars
=============================================================================
