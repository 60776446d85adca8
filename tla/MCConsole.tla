----------------------------- MODULE MCConsole -----------------------------
(* The instances of Console that TLC checks. *)
EXTENDS Console, PolicyLibrary

Templates == {8}
Mine == {[kind |-> "other", namespace |-> "", name |-> ""]}
Theirs == {[kind |-> "TracingPolicy", namespace |-> "", name |-> "theirs"]}
OneRoute == [r \in RouteIds |-> IF r = CHOOSE first \in RouteIds : TRUE THEN "on"
                                ELSE "absent"]
=============================================================================
