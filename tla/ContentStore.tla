---------------------------- MODULE ContentStore ----------------------------
(***************************************************************************)
(* What a content-addressed store promises to its clients, without any of  *)
(* the requests that carry it out.  A blob is known by its digest, so a    *)
(* kept blob is never replaced; it is never dropped either; only           *)
(* acceptable blobs are kept; and a descriptor is handed out for a blob    *)
(* only when the blob is kept, so that it can be fetched from then on.     *)
(***************************************************************************)
CONSTANTS
    Content,     \* the blobs there are, each known by its digest
    Acceptable   \* the blobs the store takes

VARIABLES
    kept,        \* the blobs in the store
    promised     \* the blobs a client was given a descriptor of

storeVars == <<kept, promised>>

Init == kept = {} /\ promised = {}

\* A blob arrives, or is found to be there, with or without the client
\* learning of it.
Put(c) ==
    /\ kept' \in {kept, kept \cup ({c} \cap Acceptable)}
    /\ promised' \in {promised, promised \cup ({c} \cap kept')}

Next == \E c \in Content : Put(c)

Spec == Init /\ [][Next]_storeVars
=============================================================================
