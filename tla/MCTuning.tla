------------------------------- MODULE MCTuning -----------------------------
(* Two policies: one that filters files and has a bare hook, made to be    *)
(* tuned, and one that kills, with a clause on the console's label that    *)
(* names other pods.                                                       *)
EXTENDS Tuning

MCValues == {"sh", "cat", "sshd", "etc", "shadow", "log", "web", "self", "other", "proxy"}
MCBelow == [v \in MCValues |-> IF v = "etc" THEN {"etc", "shadow"} ELSE {v}]

On(on, op, values, follow) == [on |-> on, op |-> op, values |-> values, follow |-> follow]

FileWatch ==
    [pod |-> {}, container |-> <<>>,
     hooks |-> <<[name |-> "open", path |-> "arg0", sels |->
                    <<[clauses |-> <<On("arg0", "Prefix", {"etc"}, FALSE)>>, acts |-> {"Post"}],
                      [clauses |-> <<On("binary", "NotIn", {"sshd"}, TRUE)>>, acts |-> {}]>>],
                 [name |-> "exec", path |-> None, sels |-> <<>>]>>]
ShellKiller ==
    [pod |-> {On("partOf", "NotIn", {"other"}, FALSE)},
     container |-> <<On("container", "NotIn", {"proxy"}, FALSE)>>,
     hooks |-> <<[name |-> "open", path |-> "arg0", sels |->
                    <<[clauses |-> <<On("binary", "In", {"sh", "cat"}, FALSE)>>,
                       acts |-> {"NotifyEnforcer"}],
                      [clauses |-> <<On("arg0", "NotPrefix", {"log"}, FALSE)>>,
                       acts |-> {"Post"}]>>]>>]
MCManifests == {FileWatch, ShellKiller}

Nothing == [binaries |-> {}, parents |-> {}, paths |-> {}, at |-> None,
          labels |-> {}, containers |-> {}]
MCRequests ==
    {[Nothing EXCEPT !.binaries = {"sh"}],
     [Nothing EXCEPT !.binaries = {"cat"}, !.parents = {"sshd"}],
     [Nothing EXCEPT !.binaries = {"cat"}, !.containers = {"proxy", "web"}],
     [Nothing EXCEPT !.paths = {"etc"}],
     [Nothing EXCEPT !.paths = {"shadow"}, !.at = "arg0"],
     [Nothing EXCEPT !.labels = {[key |-> "app", value |-> "web"]}],
     [Nothing EXCEPT !.labels = {[key |-> "partOf", value |-> "other"]}]}

(* A process sh or cat, started by sshd or by sh under sshd, does          *)
(* something to a file in a pod; or it starts, which no hook sees.         *)
MCEvents ==
    {[hook |-> hook, ancestors |-> {parent, "sshd"},
      of |-> [binary |-> binary, parent |-> parent, arg0 |-> arg,
              container |-> pod.container, app |-> pod.app, partOf |-> pod.partOf]] :
        hook \in {"open", "exec", None}, binary \in {"sh", "cat"},
        parent \in {"sh", "sshd"}, arg \in {"etc", "shadow", "log"},
        pod \in {[container |-> "web", app |-> "other", partOf |-> "self"],
                 [container |-> "proxy", app |-> "other", partOf |-> "other"],
                 [container |-> "sh", app |-> "web", partOf |-> None]}}

(* Counted are those of these of which each has another value in every     *)
(* dimension.                                                              *)
MCHappening == {e \in MCEvents :
    <<e.hook, e.of["binary"], e.of["parent"], e.of["arg0"], e.of["container"]>> \in
        {<<"open", "cat", "sshd", "shadow", "web">>, <<"exec", "sh", "sh", "log", "sh">>}}

(* Either everything is written and approved, five times, and nothing is   *)
(* counted; or one policy is tuned.                                        *)
MCTuned == {[Nothing EXCEPT !.binaries = {"cat"}, !.containers = {"proxy", "web"}]}
MCScopes ==
    {[manifests |-> MCManifests, requests |-> MCRequests, edits |-> 5, hits |-> 0],
     [manifests |-> {FileWatch}, requests |-> MCTuned, edits |-> 2, hits |-> 3]}
=============================================================================
