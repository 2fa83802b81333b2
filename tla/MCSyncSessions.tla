--------------------------- MODULE MCSyncSessions ---------------------------
(* Instances of SyncSessions for TLC.                                      *)
EXTENDS SyncSessions

W(g, s) == [git |-> g, stamp |-> s]
MCDirs == {"a", "b"}
Table2(x, y) == [d \in MCDirs |-> IF d = "a" THEN x ELSE y]

Calmly == [sync |-> 1, remove |-> 0, edit |-> 0, drop |-> 0, fault |-> 0,
           stop |-> 0, crash |-> 0]

(* One user, one thing at a time; the daemon stops, crashes and fails.     *)
CalmWants == {<<"a", W(FALSE, 1)>>, <<"a", W(TRUE, 2)>>, <<"b", W(FALSE, 1)>>}
CalmScenarios ==
    {[start |-> Table2(W(TRUE, 1), None), mode |-> "calm", wants |-> CalmWants,
      budget |-> b] :
       b \in {[Calmly EXCEPT !.fault = 1, !.crash = 1],
              [Calmly EXCEPT !.sync = 2, !.drop = 1, !.fault = 1],
              [Calmly EXCEPT !.drop = 1, !.stop = 1, !.fault = 1],
              [Calmly EXCEPT !.edit = 1, !.stop = 1, !.crash = 1],
              [Calmly EXCEPT !.sync = 2, !.remove = 1, !.stop = 1]}}

(* Requests at any moment of the daemon's own work.                        *)
BusyScenarios ==
    {[start |-> Table2(W(FALSE, 1), None), mode |-> "busy",
      wants |-> {<<"a", W(TRUE, 1)>>, <<"a", W(FALSE, 2)>>}, budget |-> b] :
       b \in {[Calmly EXCEPT !.remove = 1, !.fault = 1],
              [Calmly EXCEPT !.stop = 1, !.drop = 1, !.fault = 1]}}
    \cup
    {[start |-> Table2(W(FALSE, 1), W(FALSE, 1)), mode |-> "busy",
      wants |-> {<<"a", W(FALSE, 2)>>, <<"b", W(FALSE, 1)>>},
      budget |-> [Calmly EXCEPT !.stop = 1]]}

MCScenarios == CalmScenarios \cup BusyScenarios
=============================================================================
