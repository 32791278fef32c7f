---------------------------- MODULE MCEbillBills ----------------------------
(* A small instance of EbillBills: a bill that its payee offered to the mint
   (sell) and endorsed to it (endorse), or asked the drawer to pay instead
   (recourse); that the mint may ask to be paid (pay), and that its drawee may
   accept at the same time (accept); another endorsement of it by the payee
   (direct); and shared bills that differ from an acceptable one in one respect
   each. *)
EXTENDS EbillBills

CONSTANTS issue, sell, recourse, endorse, accept, direct, pay, payee, mint

MCBlock == {issue, sell, recourse, endorse, accept, direct, pay}

Sold == <<issue, sell, endorse>>
Direct == <<issue, direct>>

MCChain == {<<issue>>, <<issue, sell>>, <<issue, sell, recourse>>,
            Sold, Append(Sold, pay), Append(Sold, accept), Direct}

MCHolder == [b \in MCBlock |-> IF b \in {issue, sell, recourse} THEN payee ELSE mint]

MCAsks == [b \in {sell, pay, recourse} |->
             CASE b = sell -> "offer_to_sell"
               [] b = pay -> "payment"
               [] b = recourse -> "recourse"]

MCKind == {"payment", "offer_to_sell", "recourse"}

Good == [https |-> TRUE, ok |-> TRUE, length |-> 1, sent |-> 1, file |-> "other",
         decrypts |-> TRUE, typed |-> TRUE]

MCSource ==
    [u \in {"file", "other", "http", "missing", "unsized", "announced", "longer",
            "sealed", "untyped"} |->
        CASE u = "file"      -> [Good EXCEPT !.file = "bill_file"]
          [] u = "other"     -> Good
          [] u = "http"      -> [Good EXCEPT !.https = FALSE]
          [] u = "missing"   -> [Good EXCEPT !.ok = FALSE]
          [] u = "unsized"   -> [Good EXCEPT !.length = NoLength]
          [] u = "announced" -> [Good EXCEPT !.length = 2]
          [] u = "longer"    -> [Good EXCEPT !.sent = 2]
          [] u = "sealed"    -> [Good EXCEPT !.decrypts = FALSE]
          [] u = "untyped"   -> [Good EXCEPT !.typed = FALSE]]

Offer == [mine |-> TRUE, decrypts |-> TRUE, hashed |-> TRUE, plain |-> TRUE,
          chain |-> <<issue, sell>>, signer |-> payee, urls |-> <<"file">>]

MCShared == {Offer,
             [Offer EXCEPT !.chain = Direct, !.signer = mint],
             [Offer EXCEPT !.chain = Append(Sold, pay), !.signer = mint],
             [Offer EXCEPT !.chain = Append(Sold, accept), !.signer = mint, !.urls = <<>>],
             [Offer EXCEPT !.chain = <<sell>>],
             [Offer EXCEPT !.decrypts = FALSE],
             [Offer EXCEPT !.urls = <<"other">>],
             [Offer EXCEPT !.urls = <<"untyped">>],
             [Offer EXCEPT !.urls = <<"file", "longer">>]}
=============================================================================
