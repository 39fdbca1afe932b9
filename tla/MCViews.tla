------------------------------ MODULE MCViews ------------------------------
(* The views for TLC: the parts that do not move have one initial state.   *)
(* One project stands for the other, which is created later or never.      *)
EXTENDS Views, TLC

CONSTANTS p1, n2, r1

\* The second record has the larger image; "a" finds all rows, seven pages of two, "b" one of them.
Sizes    == 1 :> 8 @@ 2 :> 32
Searches == "a" :> 1..13 @@ "b" :> {2}
Shifts   == {-2, 0, 2}
Moved    == {-100, 0, 100}
SevenPages == 1..13

MCInit ==
    /\ part \in {"library", "workbench", "lightbox", "stage", "account", "lists", "settings"}
    /\ ViewsInit
    /\ lib_projects = p1 :> n2
    /\ part # "library" => \A i \in LibraryCards : lib_cards[i].status = "waiting"
    /\ part # "lightbox" => box_sourced = {} /\ box_viewport = 8
    /\ part # "stage" => sta_skew = 0 /\ sta_active = r1
    /\ part # "account" => ~acc_demoLoginEnabled /\ acc_serverName = n2
    /\ part # "lists" => lst_card = "users"
    /\ part # "settings" =>
           set_stored.key.kind = "empty" /\ set_stored.models = {} /\ set_stored.limit = 1

MCSpec == MCInit /\ [][ViewsNext]_viewsVars
=============================================================================
