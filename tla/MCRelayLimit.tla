---------------------------- MODULE MCRelayLimit ----------------------------
(* A small instance of RelayLimit with a window longer than MAX_IDLE, so that
   pruning forgets hits that still count.  Two connections publish a block of
   one bill, an event whose limited tag comes second, a note of no chain and a
   gift wrap. *)
EXTENDS RelayLimit

Tag(kind, chain, id) ==
    [kind |-> kind, chain |-> chain, id |-> id, address |-> "b1"]

Block == [kind |-> "TextNote", tags |-> <<Tag("i", "bitcredit", "bill")>>]

SecondTag ==
    [kind |-> "TextNote",
     tags |-> <<Tag("i", "bitcoin", "bill"), Tag("i", "bitcredit", "bill")>>]

Note == [kind |-> "TextNote", tags |-> <<Tag("i", "bitcredit", "other")>>]

GiftWrap == [kind |-> "GiftWrap", tags |-> <<Tag("i", "bitcredit", "bill")>>]

MCEvent == {Block, SecondTag, Note, GiftWrap}
=============================================================================
