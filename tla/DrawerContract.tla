---------------------------- MODULE DrawerContract ----------------------------
(***************************************************************************)
(* The collapsible drawer as spec sections 4.3 and 9 describe it: OpenState *)
(* is an explicit two-valued state with two named transitions, toggle and  *)
(* navigate-and-close, and it is ephemeral per mount.  The contract also   *)
(* records the leaf the drawer last handed to the hosting router, until    *)
(* the router takes it (commits it or drops it for a newer navigation).    *)
(* What the router does with the leaf afterwards is not the drawer's       *)
(* business and is not described here.                                    *)
(***************************************************************************)
CONSTANTS
    Leaves,       \* the hrefs of the drawer's leaf links
    NoSelection   \* no leaf handed over

VARIABLES openState, selection

contractVars == <<openState, selection>>

Init ==
    /\ openState = FALSE
    /\ selection = NoSelection

(* The menu button flips OpenState.                                       *)
Toggle ==
    /\ openState' = ~openState
    /\ UNCHANGED selection

(* Selecting a leaf of the open drawer hands the leaf over and closes the *)
(* drawer in one transition.                                              *)
NavigateAndClose ==
    /\ openState
    /\ \E h \in Leaves : selection' = h
    /\ openState' = FALSE

(* The router takes the leaf handed over.                                 *)
Deliver ==
    /\ selection # NoSelection
    /\ selection' = NoSelection
    /\ UNCHANGED openState

(* A new mount: the drawer starts closed with nothing handed over.        *)
Remount ==
    /\ openState' = FALSE
    /\ selection' = NoSelection

Next == Toggle \/ NavigateAndClose \/ Deliver \/ Remount

Spec == Init /\ [][Next]_contractVars

=============================================================================
