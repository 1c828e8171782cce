---------------------------- MODULE MCFreezePlan ----------------------------
(* An instance of FreezePlan for TLC: a directory, one below it and one    *)
(* beside it, which suffice to stack, to hide and to move.  Beside it, the *)
(* reading of the table, which does not depend on the state.               *)
EXTENDS FreezePlan, MountTable

MCPath == {<<>>, <<"a">>, <<"a", "b">>, <<"c">>}

MCRequests == {<<<<"a">>>>, <<<<"a", "b">>, <<"a">>>>, <<<<>>, <<"c">>, <<"c">>>>}

(* The table a plan is built from is the table the kernel wrote, whole and *)
(* byte for byte where a name needs it (mountinfo.rs).                     *)
TableExact == Len(saved) = 0 /\ pc = "idle" => RowsExact /\ NeverPartial

=============================================================================
