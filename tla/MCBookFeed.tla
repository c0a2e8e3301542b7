----------------------------- MODULE MCBookFeed -----------------------------
(* Two orders share a level of one coin, one rests on another coin. *)
EXTENDS BookFeed, TLC

Order(o) == [coin |-> IF o = 3 THEN "ETH" ELSE "BTC", oid |-> o, side |-> "B", px |-> 1]

New(o) == Order(o) @@ [kind |-> "new", sz |-> 2, orig_sz |-> None, new_sz |-> None]

Cut(o) == Order(o) @@ [kind |-> "update", sz |-> None, orig_sz |-> 2, new_sz |-> 1]

Gone(o) == Order(o) @@ [kind |-> "remove", sz |-> None, orig_sz |-> None, new_sz |-> None]

Chain(batches, drift, at) ==
    [h \in DOMAIN batches |-> [diffs |-> batches[h], drift |-> IF h = at THEN drift ELSE "none"]]

\* The front order is cut while another joins behind it, and leaves.
Queue == << <<New(1)>>, <<New(2), Cut(1)>>, <<Gone(1)>> >>

\* A block with nothing of one coin.
Mixed == << <<New(1)>>, <<New(3)>>, <<Cut(1)>> >>

\* A coin whose first block may be jumped over, and which the next one has again.
Late == << <<New(1)>>, <<New(3)>>, <<Cut(3)>> >>

MCChains == {Chain(Queue, "none", 0), Chain(Mixed, "none", 0), Chain(Late, "none", 0)}
            \cup {Chain(Queue, d, 2) : d \in {"alias", "element"}}
            \cup {Chain(Mixed, d, 2) : d \in {"missing", "nonnumeric"}}
            \cup {Chain(Mixed, "element", 1)}

\* Strict and tolerant parsing of blocks and streams, tolerant parsing of events.
MCModes == {<<"blocks", FALSE>>, <<"blocks", TRUE>>, <<"events", FALSE>>,
            <<"quicknode", FALSE>>, <<"quicknode", TRUE>>}
=============================================================================
