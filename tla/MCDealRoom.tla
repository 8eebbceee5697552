----------------------------- MODULE MCDealRoom -----------------------------
(* DealRoom with a member, a member of staff and two agents: what leaves the   *)
(* room of all that can be said in one message (Talking), and whose turn it is *)
(* when the member and an agent write four messages one by one or three at     *)
(* once (Quiet).                                                               *)
EXTENDS DealRoom

CONSTANTS m1, s1, w1, w2

MCLinked == {<<s1, m1>>}
MCWords == {Prefix[kind] : kind \in Kind} \cup {"hello"}
MCTexts == {<<>>, <<"[BROKER]", "hello">>}

Quiet(single, busy, most, roles) ==
    [hook |-> FALSE, ghl |-> FALSE, single |-> single,
     audiences |-> {"both"}, texts |-> {<<>>}, writers |-> {m1, 1},
     busy |-> busy, most |-> most, roles |-> roles]

Talking(hook) ==
    [hook |-> hook, ghl |-> TRUE, single |-> 1,
     audiences |-> {"both", "cu", "broker"}, texts |-> MCTexts, writers |-> Users,
     busy |-> {w1}, most |-> 1, roles |-> Role]

MCSetups == {Quiet(None, {w1}, 4, Repliers), Quiet(None, {w1, w2}, 3, Repliers),
             Quiet(1, {w1}, 3, {"broker_admin", "customer"}),
             Talking(TRUE), Talking(FALSE)}
=============================================================================
