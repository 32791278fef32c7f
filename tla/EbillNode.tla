----------------------------- MODULE EbillNode -----------------------------
(***************************************************************************)
(* The e-bill service as a node of the network (bcr-wdc-ebill-service,     *)
(* main.rs and the identity handlers of web.rs): its start from a          *)
(* configured mnemonic, its identity, recovery from another seed, and the  *)
(* loop that starts its Nostr consumer again and again.                    *)
(*                                                                         *)
(* The e-bill library keeps keys and identity in its database and follows  *)
(* the relays; of it the model has what this code relies on.  The keys are *)
(* one row.  A subscription makes the relays send what they have stored    *)
(* and what comes in later; a consumer that is started while the old       *)
(* subscription is still registered gets no new one.  An event may get     *)
(* lost on its way through a subscription.                                 *)
(***************************************************************************)
EXTENDS Integers, FiniteSets, EbillErrors

CONSTANTS
    Seed,         \* mnemonics, and the keys they stand for
    NoSeed,       \* no keys yet
    Network,      \* bitcoin networks
    NoNetwork,    \* no network yet
    Config,       \* what the service may be started with
    Handler,      \* requests that can be under way at once
    Event,        \* events published for this node
    MaxFaults     \* bound of failures and crashes

ASSUME EbillNodeAssumption ==
    /\ NoSeed \notin Seed
    /\ NoNetwork \notin Network
    /\ Config \subseteq [mnemonic : Seed, network : Network, create : BOOLEAN]
    /\ IsFiniteSet(Handler)
    /\ MaxFaults \in Nat

VARIABLES
    network,    \* database: the network it was first used with
    keys,       \* database: the key pair, as its seed
    exists,     \* database: whether there is an identity
    proc,       \* the process: where its start is, and its configuration
    clients,    \* the seed whose keys the Nostr clients were created with
    op,         \* op[h]: the request h is handling, or its last answer
    consumer,   \* where the consumer's loop is
    subscribed, \* whether a subscription is registered with the client
    inbox,      \* events received and not handled yet
    published,  \* events the relays have stored
    handled,    \* events the consumer handled
    faults,     \* failures and crashes so far
    \* History variables, which the code does not have:
    creations,  \* how often an identity was created
    recovered   \* whether keys were recovered since the last start

database == <<network, keys, exists>>
nostr    == <<consumer, subscribed, inbox, published, handled>>
vars     == <<database, proc, clients, op, nostr, faults, creations, recovered>>

\* The awaits of main until it serves, in order.
StartPc == {"network", "keys", "clients", "identity"}

\* The label of the consumer's loop after each of its awaits.
ConsumerPc == {"off", "start", "run", "unsubscribe", "dead"}

Idle(status) == [pc |-> "idle", status |-> status]

TypeOK ==
    /\ network \in Network \cup {NoNetwork}
    /\ keys \in Seed \cup {NoSeed}
    /\ exists \in BOOLEAN
    /\ proc \in [pc : {"down", "up"} \cup StartPc, cfg : Config]
    /\ clients \in Seed \cup {NoSeed}
    /\ op \in [Handler -> [pc : {"idle", "create", "restore"},
                           status : {0, OK, BadRequest, NotFound, InternalError}]]
    /\ consumer \in ConsumerPc
    /\ subscribed \in BOOLEAN
    /\ inbox \subseteq published
    /\ published \subseteq Event
    /\ handled \subseteq published
    /\ faults \in 0..MaxFaults
    /\ creations \in Nat
    /\ recovered \in BOOLEAN

Init ==
    /\ network = NoNetwork
    /\ keys = NoSeed
    /\ exists = FALSE
    /\ proc \in [pc : {"down"}, cfg : Config]
    /\ clients = NoSeed
    /\ op = [h \in Handler |-> Idle(0)]
    /\ consumer = "off"
    /\ subscribed = FALSE
    /\ inbox = {}
    /\ published = {}
    /\ handled = {}
    /\ faults = 0
    /\ creations = 0
    /\ recovered = FALSE

Fault == faults < MaxFaults /\ faults' = faults + 1
-----------------------------------------------------------------------------
(* The start *)

Goto(label) == proc' = [proc EXCEPT !.pc = label]

\* The process is started, with the old or another configuration.
Begin(cfg) ==
    /\ proc.pc = "down"
    /\ proc' = [pc |-> "network", cfg |-> cfg]
    /\ UNCHANGED <<database, clients, op, nostr, faults, creations, recovered>>

\* set_or_check_network: a database is used with one network only.
CheckNetwork ==
    /\ proc.pc = "network"
    /\ IF network \in {NoNetwork, proc.cfg.network}
       THEN network' = proc.cfg.network /\ Goto("keys")
       ELSE network' = network /\ Goto("down")
    /\ UNCHANGED <<keys, exists, clients, op, nostr, faults, creations, recovered>>

\* (mutant) The keys that are there are not compared with the mnemonic's.
CheckKeysAny ==
    /\ proc.pc = "keys"
    /\ keys' = IF keys = NoSeed THEN proc.cfg.mnemonic ELSE keys
    /\ Goto("clients")
    /\ UNCHANGED <<network, exists, clients, op, nostr, faults, creations, recovered>>

\* get_key_pair, and save_key_pair when there is none.
CheckKeys ==
    /\ proc.pc = "keys"
    /\ keys' = IF keys = NoSeed THEN proc.cfg.mnemonic ELSE keys
    /\ Goto(IF keys' = proc.cfg.mnemonic THEN "clients" ELSE "down")
    /\ UNCHANGED <<network, exists, clients, op, nostr, faults, creations, recovered>>

\* Any error of get_key_pair counts as "there are none": the mnemonic's are
\* saved, which replaces the row or fails.
MisreadKeys ==
    /\ proc.pc = "keys"
    /\ Fault
    /\ \/ keys' = proc.cfg.mnemonic /\ Goto("clients")
       \/ keys' = keys /\ Goto("down")
    /\ UNCHANGED <<network, exists, clients, op, nostr, creations, recovered>>

\* create_nostr_clients, for the keys that are in the database.
CreateClients ==
    /\ proc.pc = "clients"
    /\ clients' = keys
    /\ Goto("identity")
    /\ UNCHANGED <<database, op, nostr, faults, creations, recovered>>

\* The configured identity is created unless there is one; then the jobs, the
\* consumer's loop and the web server run.
CreateConfigured ==
    /\ proc.pc = "identity"
    /\ IF proc.cfg.create /\ ~exists
       THEN exists' = TRUE /\ creations' = creations + 1
       ELSE UNCHANGED <<exists, creations>>
    /\ Goto("up")
    /\ consumer' = "start"
    /\ subscribed' = FALSE
    /\ recovered' = FALSE
    /\ UNCHANGED <<network, keys, clients, op, inbox, published, handled, faults>>

\* The process ends: a step of its start fails, it is killed, or it is told to
\* shut down.  What it had in memory is gone.
Stop ==
    /\ proc.pc # "down"
    /\ Fault
    /\ Goto("down")
    /\ op' = [h \in Handler |-> Idle(0)]
    /\ consumer' = "off"
    /\ subscribed' = FALSE
    /\ inbox' = {}
    /\ UNCHANGED <<database, clients, published, handled, creations, recovered>>

Start == CheckNetwork \/ CheckKeys \/ CreateClients \/ CreateConfigured
-----------------------------------------------------------------------------
(* The identity's handlers *)

Serves(h) == proc.pc = "up" /\ op[h].pc = "idle"
Answer(h, status) == op' = [op EXCEPT ![h] = Idle(status)]
Continue(h, label) == op' = [op EXCEPT ![h].pc = label]

\* (mutant) Whether there is an identity is left to the library.
CreateIdentityUnchecked(h) ==
    /\ Serves(h)
    /\ Continue(h, "create")
    /\ UNCHANGED <<database, proc, clients, nostr, faults, creations, recovered>>

\* create_identity up to the library's: is there an identity already, and is
\* the payload well-formed?  A postal address that is not is an error of the
\* conversion.
CreateIdentity(h) ==
    /\ Serves(h)
    /\ \/ exists /\ Answer(h, WebStatus("IdentityAlreadyExists"))
       \/ ~exists /\ Continue(h, "create")
       \/ ~exists /\ Answer(h, WebStatus("IdentityType"))
       \/ ~exists /\ Answer(h, ProtocolStatus("Validation"))
       \/ ~exists /\ Answer(h, WebStatus("Convert"))
    /\ UNCHANGED <<database, proc, clients, nostr, faults, creations, recovered>>

\* The identity is created, over one that appeared meanwhile if there is one.
\* Whether the library refuses that is not known here.
Create(h) ==
    /\ op[h].pc = "create"
    /\ \/ exists' = TRUE /\ creations' = creations + 1 /\ Answer(h, OK)
       \/ UNCHANGED <<exists, creations>> /\ Answer(h, ProtocolStatus("Validation"))
    /\ UNCHANGED <<network, keys, proc, clients, nostr, faults, recovered>>

CreateFails(h) ==
    /\ op[h].pc = "create"
    /\ Fault
    /\ \/ exists' = TRUE /\ creations' = creations + 1
       \/ UNCHANGED <<exists, creations>>
    /\ Answer(h, ServiceStatus("Persistence"))
    /\ UNCHANGED <<network, keys, proc, clients, nostr, recovered>>

\* recover_from_seed_phrase, up to the new keys.  They may be any seed's.
Recover(h, seed) ==
    /\ Serves(h)
    /\ keys' = seed
    /\ recovered' = TRUE
    /\ Continue(h, "restore")
    /\ UNCHANGED <<network, exists, proc, clients, nostr, faults, creations>>

\* The account is restored from the relays, with what they have of it.
Restore(h) ==
    /\ op[h].pc = "restore"
    /\ exists' \in {exists, TRUE}
    /\ Answer(h, OK)
    /\ UNCHANGED <<network, keys, proc, clients, nostr, faults, creations, recovered>>

RestoreFails(h) ==
    /\ op[h].pc = "restore"
    /\ Fault
    /\ exists' \in {exists, TRUE}
    /\ Answer(h, ServiceStatus("TransportService"))
    /\ UNCHANGED <<network, keys, proc, clients, nostr, creations, recovered>>

\* get_seed_phrase: a service that is up has keys.
GetSeedPhrase(h) ==
    /\ Serves(h)
    /\ Answer(h, OK)
    /\ UNCHANGED <<database, proc, clients, nostr, faults, creations, recovered>>

\* get_identity.
GetIdentity(h) ==
    /\ Serves(h)
    /\ Answer(h, IF exists THEN OK ELSE ServiceStatus("NotFound"))
    /\ UNCHANGED <<database, proc, clients, nostr, faults, creations, recovered>>
-----------------------------------------------------------------------------
(* The consumer's loop, and the events it is there for *)

\* An event is published.  It reaches a running consumer at once unless it is
\* lost on the way.
Publish(e) ==
    /\ e \notin published
    /\ published' = published \cup {e}
    /\ \/ inbox' = inbox
       \/ consumer = "run" /\ subscribed /\ inbox' = inbox \cup {e}
    /\ UNCHANGED <<database, proc, clients, op, consumer, subscribed, handled,
                   faults, creations, recovered>>

\* The consumer's tasks start; a new subscription brings what was missed.
StartConsumer ==
    /\ consumer = "start"
    /\ consumer' = "run"
    /\ subscribed' = TRUE
    /\ inbox' = IF subscribed THEN {} ELSE published \ handled
    /\ UNCHANGED <<database, proc, clients, op, published, handled, faults,
                   creations, recovered>>

\* A start that fails ends the loop's task, and nothing else.
StartConsumerFails ==
    /\ consumer = "start"
    /\ Fault
    /\ consumer' = "dead"
    /\ UNCHANGED <<database, proc, clients, op, subscribed, inbox, published,
                   handled, creations, recovered>>

Handle(e) ==
    /\ consumer = "run"
    /\ e \in inbox
    /\ handled' = handled \cup {e}
    /\ inbox' = inbox \ {e}
    /\ UNCHANGED <<database, proc, clients, op, consumer, subscribed, published,
                   faults, creations, recovered>>

\* The interval elapses or a task ends: all tasks are aborted and awaited, and
\* what they had received is gone.
StopConsumer ==
    /\ consumer = "run"
    /\ consumer' = "unsubscribe"
    /\ inbox' = {}
    /\ UNCHANGED <<database, proc, clients, op, subscribed, published, handled,
                   faults, creations, recovered>>

\* (mutant) The subscription stays registered with the client.
UnsubscribeNever ==
    /\ consumer = "unsubscribe"
    /\ consumer' = "start"
    /\ UNCHANGED <<database, proc, clients, op, subscribed, inbox, published,
                   handled, faults, creations, recovered>>

Unsubscribe ==
    /\ consumer = "unsubscribe"
    /\ consumer' = "start"
    /\ subscribed' = FALSE
    /\ UNCHANGED <<database, proc, clients, op, inbox, published, handled,
                   faults, creations, recovered>>

\* A failure of unsubscribe_all is logged only.
UnsubscribeFails ==
    /\ consumer = "unsubscribe"
    /\ Fault
    /\ consumer' = "start"
    /\ UNCHANGED <<database, proc, clients, op, subscribed, inbox, published,
                   handled, creations, recovered>>

Loop == StartConsumer \/ StopConsumer \/ Unsubscribe
-----------------------------------------------------------------------------
Request(h) ==
    \/ CreateIdentity(h)
    \/ \E seed \in Seed : Recover(h, seed)
    \/ GetSeedPhrase(h) \/ GetIdentity(h)
    \/ Create(h) \/ CreateFails(h)
    \/ Restore(h) \/ RestoreFails(h)

Next ==
    \/ \E cfg \in Config : Begin(cfg)
    \/ Start \/ MisreadKeys \/ Stop
    \/ \E h \in Handler : Request(h)
    \/ \E e \in Event : Publish(e) \/ Handle(e)
    \/ Loop \/ StartConsumerFails \/ UnsubscribeFails

\* The runtime polls the loop's task, and its sleep ends.  An event that is
\* sent again with every restart of the consumer is handled within one of its
\* intervals, which last minutes.
Fairness == WF_vars(Loop) /\ \A e \in Event : SF_vars(Handle(e))

Spec == Init /\ [][Next]_vars /\ Fairness
-----------------------------------------------------------------------------
\* However starts fail half way, and with whatever configurations they are
\* tried, a service that is up uses the network its database was made with and
\* the keys of its own mnemonic; only a recovery can give the database other
\* keys, and then the next start is refused rather than run with them (main).
ServesOwnSeed ==
    proc.pc = "up" =>
        /\ clients = proc.cfg.mnemonic
        /\ network = proc.cfg.network
        /\ keys = clients \/ recovered

\* Between the question whether there is an identity and its creation others
\* may create one, at the start and in requests, and failures and crashes may
\* hide that they did; but only requests that overlap with the first creation
\* can repeat it: over all starts an identity is created at most as often as
\* requests can be under way at once (main, create_identity).
CreatedOnlyByOverlap ==
    creations <= IF Handler = {} THEN 1 ELSE Cardinality(Handler)

\* While the service is up, an event published for it is handled, however it
\* was lost, and although the consumer is torn down all the time, unless a
\* start of the consumer failed (the loop in main).
EventsHandled ==
    \A e \in Event :
        (proc.pc = "up" /\ e \in published)
            ~> (e \in handled \/ proc.pc # "up" \/ consumer = "dead")
=============================================================================
