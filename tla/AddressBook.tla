---------------------------- MODULE AddressBook ----------------------------
(***************************************************************************)
(* What the identity confirmation service promises about addresses,        *)
(* without any of the requests, codes, stores and calls that carry it out. *)
(* The owner of a key proves addresses; one that was proved may become the *)
(* key's address, which another one may replace but nothing takes away     *)
(* again; and others are told of a key's proved addresses only when the    *)
(* key has one.                                                            *)
(***************************************************************************)
CONSTANTS
    Key,      \* who may have an address
    Email,    \* addresses
    NoEmail   \* no address

VARIABLES
    proved,   \* the addresses each key was proved to receive mail at
    bound,    \* [Key -> address]: what it has
    told      \* [Key -> address]: what others were told of it last

bookVars == <<proved, bound, told>>

Init ==
    /\ proved = {}
    /\ bound = [k \in Key |-> NoEmail]
    /\ told = [k \in Key |-> NoEmail]

Prove(k, e) ==
    /\ proved' = proved \cup {<<k, e>>}
    /\ UNCHANGED <<bound, told>>

Bind(k, e) ==
    /\ <<k, e>> \in proved
    /\ bound' = [bound EXCEPT ![k] = e]
    /\ UNCHANGED <<proved, told>>

Tell(k, e) ==
    /\ <<k, e>> \in proved
    /\ bound[k] # NoEmail
    /\ told' = [told EXCEPT ![k] = e]
    /\ UNCHANGED <<proved, bound>>

Next == \E k \in Key, e \in Email : Prove(k, e) \/ Bind(k, e) \/ Tell(k, e)

Spec == Init /\ [][Next]_bookVars
=============================================================================
