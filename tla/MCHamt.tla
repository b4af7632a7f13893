------------------------------- MODULE MCHamt -------------------------------
EXTENDS Hamt

\* Three keys: two that part at the second chunk, one that parts at the first.
HamtKeys == {<<0, 0>>, <<0, 1>>, <<1, 0>>}

\* A vault after its first batch, a big value and a small one under one root.
Loaded ==
    LET v == [k \in Keys |-> CASE k = <<0, 0>> -> "b" [] k = <<1, 0>> -> "s"
                               [] OTHER -> Absent]
    IN  /\ tract = <<Furrow(<<0, 0>>, 1, "b"), Furrow(<<0, 0>>, 2, "b"),
                     Extent(<<0, 0>>, <<<<1, 2>>>>), Lone(<<1, 0>>, "s"),
                     Node(<<>>, 0 :> 3 @@ 1 :> 4)>>
        /\ head = [root |-> 5, plow |-> 5, live |-> 5]
        /\ mem = FromRoot(5)
        /\ delta = NoDelta
        /\ live = 1 .. 5 /\ reap = 0 /\ pendingReap = 0
        /\ pc = "idle"
        /\ work = [NoWork EXCEPT !.settled = TRUE]
        /\ want = v /\ saved = v
        /\ lost = [mem |-> {}, head |-> {}, past |-> FALSE]
        /\ stray = {}
        /\ ops = 0

MCSpec == (Init \/ Loaded) /\ [][Next]_vars
=============================================================================
