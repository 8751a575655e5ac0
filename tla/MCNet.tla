------------------------------- MODULE MCNet --------------------------------
(***************************************************************************)
(* The network services and the card's driver.  No code hands a packet     *)
(* from the one to the other, so each is checked by itself: a behaviour    *)
(* uses one of them.                                                       *)
(***************************************************************************)
EXTENDS Net, Rtl8139

VARIABLE used

MCInit == Init /\ NicInit /\ used \in {"services", "card"}

MCNext ==
    /\ \/ used = "services" /\ Next /\ UNCHANGED nicVars
       \/ used = "card" /\ NicNext /\ UNCHANGED vars
    /\ UNCHANGED used

MCSpec == MCInit /\ [][MCNext]_<<vars, nicVars, used>>
=============================================================================
