---------------------------- MODULE MCRliDaemon ----------------------------
(* Small instances for TLC of r.li.daemon. *)
EXTENDS RliDaemon

(* No area, fewer than workers, and more; a moving window has whole rows.   *)
SomeSetups == {s \in AnySetup :
    /\ s.areas \in {0, 2, 5} \/ s.areas = NAreas
    /\ s.bad \subseteq 0 .. s.areas - 1 /\ s.bad \in {{}, {1}}
    /\ s.mvWin => s.areas > 0 /\ s.areas % Cols = 0}

(* As many areas as there may be, one of which fails. *)
AllAreas == {s \in AnySetup : s.areas = NAreas /\ ~s.mvWin /\ s.bad = {1}}
=============================================================================
