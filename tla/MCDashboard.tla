------------------------------ MODULE MCDashboard ------------------------------
(***************************************************************************)
(* Constants of Dashboard for TLC: two tabs of one parent, or of two who    *)
(* type the same name or different ones; one of them may type a blank.     *)
(***************************************************************************)
EXTENDS Dashboard, TLC

CONSTANTS b1, b2, t1, t2

Names == {"ann", "bob"}
TypedNames == {"ann", "bob", " ann"}
Trims == ("ann" :> "ann") @@ ("bob" :> "bob") @@ (" ann" :> "ann")


\* Whose tabs, which names, which pages first.
OneParent == [typed |-> (b1 :> "ann") @@ (b2 :> "bob"), owner |-> (t1 :> b1) @@ (t2 :> b1),
              opens |-> (t1 :> "time") @@ (t2 :> "monitoring")]
TwoNames  == [typed |-> (b1 :> "ann") @@ (b2 :> "bob"), owner |-> (t1 :> b1) @@ (t2 :> b2),
              opens |-> (t1 :> "root") @@ (t2 :> "time")]
OneName   == [typed |-> (b1 :> " ann") @@ (b2 :> "ann"), owner |-> (t1 :> b1) @@ (t2 :> b2),
              opens |-> (t1 :> "root") @@ (t2 :> "login")]
Households == {OneParent, TwoNames, OneName}

===============================================================================
