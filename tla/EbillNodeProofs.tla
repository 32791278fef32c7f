-------------------------- MODULE EbillNodeProofs ---------------------------
(***************************************************************************)
(* Proofs about the e-bill service as a node, for any seeds, networks,     *)
(* configurations, events and failures, and any finite number of requests  *)
(* that are under way at once.                                             *)
(*                                                                         *)
(* The keys: each step of the start knows a little more about the database *)
(* (KeysInv).  The identity: a request that has found no identity may      *)
(* still create one, so creations are counted together with the requests   *)
(* that are about to create (CreationInv).                                 *)
(***************************************************************************)
EXTENDS EbillNode, TLAPS, FiniteSetTheorems

LEMMA IdleIsAnswer ==
    ASSUME NEW status
    PROVE  Idle(status).pc = "idle" /\ Idle(status).status = status
  BY DEF Idle

LEMMA Statuses ==
    /\ OK \in {0, OK, BadRequest, NotFound, InternalError}
    /\ \A e : /\ WebStatus(e) \in {0, OK, BadRequest, NotFound, InternalError}
              /\ ServiceStatus(e) \in {0, OK, BadRequest, NotFound, InternalError}
              /\ ProtocolStatus(e) \in {0, OK, BadRequest, NotFound, InternalError}
  BY DEF WebStatus, ServiceStatus, ProtocolStatus, ValidationStatus

Operation == [pc : {"idle", "create", "restore"},
              status : {0, OK, BadRequest, NotFound, InternalError}]

\* A request is answered, or goes on.
LEMMA AnswerTypes ==
    ASSUME op \in [Handler -> Operation], NEW h \in Handler,
           NEW status \in {0, OK, BadRequest, NotFound, InternalError},
           Answer(h, status)
    PROVE  op' \in [Handler -> Operation]
  <1>1. Idle(status) \in Operation
    BY DEF Idle, Operation
  <1> QED
    BY <1>1 DEF Answer

LEMMA ContinueTypes ==
    ASSUME op \in [Handler -> Operation], NEW h \in Handler,
           NEW label \in {"create", "restore"}, Continue(h, label)
    PROVE  op' \in [Handler -> Operation]
  <1>1. [op[h] EXCEPT !.pc = label] \in Operation
    BY DEF Operation
  <1>2. op' = [op EXCEPT ![h] = [op[h] EXCEPT !.pc = label]]
    BY DEF Continue
  <1> QED
    BY <1>1, <1>2

Proc == [pc : {"down", "up"} \cup StartPc, cfg : Config]

LEMMA GotoTypes ==
    ASSUME proc \in Proc, NEW label \in {"down", "up"} \cup StartPc, Goto(label)
    PROVE  proc' \in Proc /\ proc'.pc = label /\ proc'.cfg = proc.cfg
  BY DEF Goto, Proc

LEMMA FaultTypes ==
    ASSUME faults \in 0..MaxFaults, Fault
    PROVE  faults' \in 0..MaxFaults
  BY EbillNodeAssumption DEF Fault
-----------------------------------------------------------------------------
(* Types *)

\* The parts of TypeOK that different actions change.
DatabaseTypes ==
    /\ network \in Network \cup {NoNetwork}
    /\ keys \in Seed \cup {NoSeed}
    /\ exists \in BOOLEAN

ProcessTypes ==
    /\ proc \in Proc
    /\ clients \in Seed \cup {NoSeed}
    /\ op \in [Handler -> Operation]

NostrTypes ==
    /\ consumer \in ConsumerPc
    /\ subscribed \in BOOLEAN
    /\ inbox \subseteq published
    /\ published \subseteq Event
    /\ handled \subseteq published

HistoryTypes ==
    /\ faults \in 0..MaxFaults
    /\ creations \in Nat
    /\ recovered \in BOOLEAN

LEMMA TypesByParts ==
    TypeOK <=> DatabaseTypes /\ ProcessTypes /\ NostrTypes /\ HistoryTypes
  BY DEF TypeOK, DatabaseTypes, ProcessTypes, NostrTypes, HistoryTypes, Proc, Operation

LEMMA ConfigTypes ==
    ASSUME ProcessTypes
    PROVE  /\ proc.cfg \in Config
           /\ proc.cfg.mnemonic \in Seed
           /\ proc.cfg.network \in Network
           /\ proc.cfg.create \in BOOLEAN
  BY EbillNodeAssumption DEF ProcessTypes, Proc

LEMMA InitTypes == Init => TypeOK
  <1> SUFFICES ASSUME Init PROVE TypeOK
    OBVIOUS
  <1>1. op \in [Handler -> Operation]
    BY DEF Init, Idle, Operation
  <1>2. proc \in Proc
    BY DEF Init, Proc
  <1>3. DatabaseTypes
    BY DEF Init, DatabaseTypes
  <1>4. ProcessTypes
    BY <1>1, <1>2 DEF Init, ProcessTypes
  <1>5. NostrTypes
    BY DEF Init, NostrTypes, ConsumerPc
  <1>6. HistoryTypes
    <2>1. MaxFaults \in Nat
      BY EbillNodeAssumption
    <2>2. faults \in 0..MaxFaults /\ creations \in Nat
      BY <2>1 DEF Init
    <2>3. recovered \in BOOLEAN
      BY DEF Init
    <2> QED
      BY <2>2, <2>3 DEF HistoryTypes
  <1> QED
    BY <1>3, <1>4, <1>5, <1>6, TypesByParts

LEMMA StartTypes ==
    ASSUME TypeOK,
           \/ \E cfg \in Config : Begin(cfg)
           \/ Start \/ MisreadKeys \/ Stop
    PROVE  TypeOK'
  <1> USE TypesByParts
  <1>0. /\ ProcessTypes /\ DatabaseTypes /\ NostrTypes /\ HistoryTypes
        /\ proc.cfg.mnemonic \in Seed /\ proc.cfg.network \in Network
    BY ConfigTypes
  <1>1. ASSUME NEW cfg \in Config, Begin(cfg)
        PROVE  TypeOK'
    <2>1. proc' \in Proc
      BY <1>1 DEF Begin, Proc, StartPc
    <2> QED
      BY <1>0, <1>1, <2>1
      DEF Begin, TypeOK, database, nostr, Proc
  <1>2. CASE CheckNetwork
    <2>1. proc' \in Proc
      BY <1>0, <1>2, GotoTypes DEF CheckNetwork, ProcessTypes, StartPc
    <2> QED
      BY <1>0, <1>2, <2>1 DEF CheckNetwork, TypeOK, nostr, Proc
  <1>3. CASE CheckKeys
    <2>1. proc' \in Proc
      BY <1>0, <1>3, GotoTypes DEF CheckKeys, ProcessTypes, StartPc
    <2> QED
      BY <1>0, <1>3, <2>1 DEF CheckKeys, TypeOK, nostr, Proc
  <1>4. CASE MisreadKeys
    <2>1. proc' \in Proc
      BY <1>0, <1>4, GotoTypes DEF MisreadKeys, ProcessTypes, StartPc
    <2>2. faults' \in 0..MaxFaults
      BY <1>0, <1>4, FaultTypes DEF MisreadKeys, HistoryTypes
    <2> QED
      BY <1>0, <1>4, <2>1, <2>2 DEF MisreadKeys, TypeOK, nostr, Proc
  <1>5. CASE CreateClients
    <2>1. proc' \in Proc
      BY <1>0, <1>5, GotoTypes DEF CreateClients, ProcessTypes, StartPc
    <2> QED
      BY <1>0, <1>5, <2>1 DEF CreateClients, TypeOK, database, nostr, Proc
  <1>6. CASE CreateConfigured
    <2>1. proc' \in Proc
      BY <1>0, <1>6, GotoTypes DEF CreateConfigured, ProcessTypes, StartPc
    <2>2. creations \in Nat /\ exists \in BOOLEAN
      BY <1>0 DEF HistoryTypes, DatabaseTypes
    <2>3. creations' \in Nat /\ exists' \in BOOLEAN
      <3>1. CASE proc.cfg.create /\ ~exists
        BY <1>6, <2>2, <3>1 DEF CreateConfigured
      <3>2. CASE ~(proc.cfg.create /\ ~exists)
        BY <1>6, <2>2, <3>2 DEF CreateConfigured
      <3> QED
        BY <3>1, <3>2
    <2> QED
      BY <1>0, <1>6, <2>1, <2>3 DEF CreateConfigured, TypeOK, ConsumerPc, Proc
  <1>7. CASE Stop
    <2>1. proc' \in Proc
      BY <1>0, <1>7, GotoTypes DEF Stop, ProcessTypes, StartPc
    <2>2. faults' \in 0..MaxFaults
      BY <1>0, <1>7, FaultTypes DEF Stop, HistoryTypes
    <2>3. op' \in [Handler -> Operation]
      BY <1>7 DEF Stop, Idle, Operation
    <2> QED
      BY <1>0, <1>7, <2>1, <2>2, <2>3
      DEF Stop, TypeOK, database, ConsumerPc, Proc, Operation
  <1> QED
    BY <1>1, <1>2, <1>3, <1>4, <1>5, <1>6, <1>7 DEF Start

LEMMA RequestTypes ==
    ASSUME TypeOK, NEW h \in Handler, Request(h)
    PROVE  TypeOK'
  <1> USE TypesByParts
  <1>0. op \in [Handler -> Operation]
    BY DEF ProcessTypes
  <1>1. /\ op' \in [Handler -> Operation]
        /\ network' = network /\ keys' \in Seed \cup {NoSeed} /\ exists' \in BOOLEAN
        /\ proc' = proc /\ clients' = clients /\ UNCHANGED nostr
        /\ faults' \in 0..MaxFaults /\ creations' \in Nat /\ recovered' \in BOOLEAN
    <2> USE <1>0, Statuses
    <2>1. CASE CreateIdentity(h)
      <3>1. op' \in [Handler -> Operation]
        BY <2>1, AnswerTypes, ContinueTypes DEF CreateIdentity
      <3> QED
        BY <2>1, <3>1 DEF CreateIdentity, TypeOK, database
    <2>2. ASSUME NEW seed \in Seed, Recover(h, seed)
          PROVE  <1>1!:
      <3>1. op' \in [Handler -> Operation]
        BY <2>2, ContinueTypes DEF Recover
      <3> QED
        BY <2>2, <3>1 DEF Recover, TypeOK
    <2>3. CASE GetSeedPhrase(h)
      <3>1. op' \in [Handler -> Operation]
        BY <2>3, AnswerTypes DEF GetSeedPhrase
      <3> QED
        BY <2>3, <3>1 DEF GetSeedPhrase, TypeOK, database
    <2>4. CASE GetIdentity(h)
      <3>1. op' \in [Handler -> Operation]
        BY <2>4, AnswerTypes DEF GetIdentity
      <3> QED
        BY <2>4, <3>1 DEF GetIdentity, TypeOK, database
    <2>5. CASE Create(h)
      <3>1. op' \in [Handler -> Operation]
        BY <2>5, AnswerTypes DEF Create
      <3>3. creations' \in Nat /\ exists' \in BOOLEAN
        <4>1. creations \in Nat /\ exists \in BOOLEAN
          BY DEF TypeOK
        <4>2. \/ exists' = TRUE /\ creations' = creations + 1
              \/ exists' = exists /\ creations' = creations
          BY <2>5 DEF Create
        <4>3. CASE exists' = TRUE /\ creations' = creations + 1
          BY <4>1, <4>3
        <4>4. CASE exists' = exists /\ creations' = creations
          BY <4>1, <4>4
        <4> QED
          BY <4>2, <4>3, <4>4
      <3> QED
        BY <2>5, <3>1, <3>3 DEF Create, TypeOK
    <2>6. CASE CreateFails(h)
      <3>1. op' \in [Handler -> Operation]
        BY <2>6, AnswerTypes DEF CreateFails
      <3>2. faults' \in 0..MaxFaults
        BY <2>6, FaultTypes DEF CreateFails, HistoryTypes
      <3>3. creations' \in Nat /\ exists' \in BOOLEAN
        <4>1. creations \in Nat /\ exists \in BOOLEAN
          BY DEF TypeOK
        <4>2. \/ exists' = TRUE /\ creations' = creations + 1
              \/ exists' = exists /\ creations' = creations
          BY <2>6 DEF CreateFails
        <4>3. CASE exists' = TRUE /\ creations' = creations + 1
          BY <4>1, <4>3
        <4>4. CASE exists' = exists /\ creations' = creations
          BY <4>1, <4>4
        <4> QED
          BY <4>2, <4>3, <4>4
      <3> QED
        BY <2>6, <3>1, <3>2, <3>3 DEF CreateFails, TypeOK
    <2>7. CASE Restore(h)
      <3>1. op' \in [Handler -> Operation]
        BY <2>7, AnswerTypes DEF Restore
      <3> QED
        BY <2>7, <3>1 DEF Restore, TypeOK
    <2>8. CASE RestoreFails(h)
      <3>1. op' \in [Handler -> Operation]
        BY <2>8, AnswerTypes DEF RestoreFails
      <3>2. faults' \in 0..MaxFaults
        BY <2>8, FaultTypes DEF RestoreFails, HistoryTypes
      <3> QED
        BY <2>8, <3>1, <3>2 DEF RestoreFails, TypeOK
    <2> QED
      BY <2>1, <2>2, <2>3, <2>4, <2>5, <2>6, <2>7, <2>8 DEF Request
  <1> QED
    BY <1>1 DEF TypeOK, nostr, Operation

LEMMA NostrStepTypes ==
    ASSUME TypeOK,
           \/ \E e \in Event : Publish(e) \/ Handle(e)
           \/ Loop \/ StartConsumerFails \/ UnsubscribeFails
    PROVE  TypeOK'
  <1>1. ASSUME NEW e \in Event, Publish(e)
        PROVE  TypeOK'
    BY <1>1 DEF Publish, TypeOK, database
  <1>2. ASSUME NEW e \in Event, Handle(e)
        PROVE  TypeOK'
    BY <1>2 DEF Handle, TypeOK, database
  <1>3. CASE StartConsumer
    BY <1>3 DEF StartConsumer, TypeOK, database, ConsumerPc
  <1>4. CASE StartConsumerFails
    BY <1>4, EbillNodeAssumption DEF StartConsumerFails, TypeOK, database, ConsumerPc, Fault
  <1>5. CASE StopConsumer
    BY <1>5 DEF StopConsumer, TypeOK, database, ConsumerPc
  <1>6. CASE Unsubscribe
    BY <1>6 DEF Unsubscribe, TypeOK, database, ConsumerPc
  <1>7. CASE UnsubscribeFails
    BY <1>7, EbillNodeAssumption DEF UnsubscribeFails, TypeOK, database, ConsumerPc, Fault
  <1> QED
    BY <1>1, <1>2, <1>3, <1>4, <1>5, <1>6, <1>7 DEF Loop

LEMMA NextTypes == TypeOK /\ [Next]_vars => TypeOK'
  <1> SUFFICES ASSUME TypeOK, [Next]_vars PROVE TypeOK'
    OBVIOUS
  <1>1. CASE UNCHANGED vars
    BY <1>1 DEF vars, database, nostr, TypeOK
  <1>2. CASE Next
    BY <1>2, StartTypes, RequestTypes, NostrStepTypes DEF Next
  <1> QED
    BY <1>1, <1>2

\* Whatever is started, requested, published or fails, the node's state keeps
\* its types; in particular the consumer holds and handles only published
\* events (main, create_identity, recover_from_seed_phrase).
THEOREM TypeCorrect == Spec => []TypeOK
  BY InitTypes, NextTypes, PTL DEF Spec
-----------------------------------------------------------------------------
(* The keys *)

\* What each step of the start has made sure of.
KeysInv ==
    /\ proc.pc \notin {"down", "network"} => network = proc.cfg.network
    /\ proc.pc \in {"clients", "identity"} => keys = proc.cfg.mnemonic
    /\ proc.pc \in {"identity", "up"} => clients = proc.cfg.mnemonic
    /\ proc.pc = "up" => keys = clients \/ recovered

LEMMA KeysStep ==
    ASSUME TypeOK, KeysInv, [Next]_vars
    PROVE  KeysInv'
  <1>0. proc \in Proc
    BY TypesByParts DEF ProcessTypes
  <1>1. CASE UNCHANGED <<network, keys, proc, clients, recovered>>
    BY <1>1 DEF KeysInv
  <1>2. ASSUME NEW cfg \in Config, Begin(cfg)
        PROVE  KeysInv'
    BY <1>2 DEF Begin, KeysInv
  <1>3. CASE CheckNetwork
    BY <1>0, <1>3 DEF CheckNetwork, Goto, KeysInv, Proc
  <1>4. CASE CheckKeys
    <2>1. /\ proc'.cfg = proc.cfg
          /\ proc'.pc = IF keys' = proc.cfg.mnemonic THEN "clients" ELSE "down"
      BY <1>0, <1>4 DEF CheckKeys, Goto, Proc
    <2> QED
      BY <1>4, <2>1 DEF CheckKeys, KeysInv
  <1>5. CASE MisreadKeys
    <2>1. /\ proc'.cfg = proc.cfg
          /\ \/ proc'.pc = "clients" /\ keys' = proc.cfg.mnemonic
             \/ proc'.pc = "down"
      BY <1>0, <1>5 DEF MisreadKeys, Goto, Proc
    <2> QED
      BY <1>5, <2>1 DEF MisreadKeys, KeysInv
  <1>6. CASE CreateClients
    <2>1. proc'.cfg = proc.cfg /\ proc'.pc = "identity"
      BY <1>0, <1>6 DEF CreateClients, Goto, Proc
    <2> QED
      BY <1>6, <2>1 DEF CreateClients, KeysInv, database
  <1>7. CASE CreateConfigured
    <2>1. proc'.cfg = proc.cfg /\ proc'.pc = "up"
      BY <1>0, <1>7 DEF CreateConfigured, Goto, Proc
    <2> QED
      BY <1>7, <2>1 DEF CreateConfigured, KeysInv
  <1>8. CASE Stop
    <2>1. proc'.pc = "down"
      BY <1>0, <1>8 DEF Stop, Goto, Proc
    <2> QED
      BY <2>1 DEF KeysInv
  <1>9. ASSUME NEW h \in Handler, Request(h)
        PROVE  KeysInv'
    <2>1. ASSUME NEW seed \in Seed, Recover(h, seed)
          PROVE  KeysInv'
      BY <2>1 DEF Recover, Serves, KeysInv
    <2>2. CASE UNCHANGED <<network, keys, proc, clients, recovered>>
      BY <1>1, <2>2
    <2> QED
      BY <1>9, <2>1, <2>2
      DEF Request, CreateIdentity, GetSeedPhrase, GetIdentity, Create, CreateFails,
          Restore, RestoreFails, database
  <1>10. ASSUME \/ \E e \in Event : Publish(e) \/ Handle(e)
                \/ Loop \/ StartConsumerFails \/ UnsubscribeFails
                \/ UNCHANGED vars
         PROVE  KeysInv'
    <2>1. UNCHANGED <<network, keys, proc, clients, recovered>>
      BY <1>10
      DEF Publish, Handle, Loop, StartConsumer, StopConsumer, Unsubscribe,
          StartConsumerFails, UnsubscribeFails, vars, database
    <2> QED
      BY <1>1, <2>1
  <1> QED
    BY <1>2, <1>3, <1>4, <1>5, <1>6, <1>7, <1>8, <1>9, <1>10 DEF Next, Start

\* A service that is up uses the network and the keys it was configured with,
\* unless keys were recovered since, however often and wherever earlier starts
\* failed (main, recover_from_seed_phrase).
THEOREM ServesOwnSeedHolds == Spec => []ServesOwnSeed
  <1>1. Init => KeysInv
    BY DEF Init, KeysInv
  <1>2. TypeOK /\ KeysInv /\ [Next]_vars => KeysInv'
    BY KeysStep
  <1>3. KeysInv => ServesOwnSeed
    BY DEF KeysInv, ServesOwnSeed
  <1> QED
    BY TypeCorrect, <1>1, <1>2, <1>3, PTL DEF Spec
-----------------------------------------------------------------------------
(* The identity *)

\* Requests that found no identity and may still create one.
Creating == {h \in Handler : op[h].pc = "create"}

Most == IF Handler = {} THEN 1 ELSE Cardinality(Handler)

CreationInv ==
    /\ ~exists => creations = 0
    /\ Creating # {} => proc.pc = "up"
    /\ creations + Cardinality(Creating) <= Most

LEMMA HandlersFinite ==
    /\ Most \in Nat /\ 1 <= Most
    /\ \A S \in SUBSET Handler : Cardinality(S) \in Nat /\ Cardinality(S) <= Most
    /\ Cardinality({}) = 0
  <1>1. IsFiniteSet(Handler)
    BY EbillNodeAssumption
  <1>2. Cardinality(Handler) \in Nat /\ (Handler # {} => 1 <= Cardinality(Handler))
    BY <1>1, FS_CardinalityType, FS_EmptySet
  <1>3. ASSUME NEW S \in SUBSET Handler
        PROVE  IsFiniteSet(S) /\ Cardinality(S) <= Cardinality(Handler)
    BY <1>1, FS_Subset
  <1>4. \A S \in SUBSET Handler : Cardinality(S) \in Nat
    BY <1>3, FS_CardinalityType
  <1>5. Cardinality({}) = 0
    BY FS_EmptySet
  <1>6. Handler = {} => \A S \in SUBSET Handler : Cardinality(S) = 0
    BY <1>5
  <1> QED
    BY <1>2, <1>3, <1>4, <1>5, <1>6 DEF Most

\* A request that is done is counted no more.
LEMMA OneCreatesLess ==
    ASSUME TypeOK, NEW h \in Handler, op[h].pc = "create",
           NEW status, Answer(h, status)
    PROVE  /\ Creating' = Creating \ {h}
           /\ Cardinality(Creating') = Cardinality(Creating) - 1
  <1>1. Creating' = Creating \ {h}
    <2>1. \A g \in Handler : op'[g].pc = "create" <=> g # h /\ op[g].pc = "create"
      BY TypesByParts DEF Answer, Idle, ProcessTypes, Operation
    <2> QED
      BY <2>1 DEF Creating
  <1>2. IsFiniteSet(Creating) /\ h \in Creating
    BY EbillNodeAssumption, FS_Subset DEF Creating
  <1> QED
    BY <1>1, <1>2, FS_RemoveElement

LEMMA CreationStep ==
    ASSUME TypeOK, CreationInv, [Next]_vars
    PROVE  CreationInv'
  <1>0. /\ proc \in Proc /\ op \in [Handler -> Operation]
        /\ creations \in Nat /\ Cardinality(Creating) \in Nat
    BY TypesByParts, HandlersFinite DEF ProcessTypes, HistoryTypes, Creating
  <1>1. ASSUME Creating' = {}, ~exists' => creations' = 0,
               creations' = creations \/ creations' = 1
        PROVE  CreationInv'
    <2>1. creations' <= Most /\ creations' \in Nat
      BY <1>0, <1>1, HandlersFinite DEF CreationInv
    <2> QED
      BY <1>1, <2>1, HandlersFinite DEF CreationInv
  <1>2. ASSUME UNCHANGED <<creations, proc>>, exists => exists',
               Creating' \subseteq Creating
        PROVE  CreationInv'
    <2>1. Cardinality(Creating') \in Nat /\ Cardinality(Creating') <= Cardinality(Creating)
      <3>1. IsFiniteSet(Creating)
        BY EbillNodeAssumption, FS_Subset DEF Creating
      <3> QED
        BY <1>2, <3>1, FS_Subset, FS_CardinalityType
    <2>2. creations + Cardinality(Creating') <= Most
      BY <1>0, <2>1, HandlersFinite DEF CreationInv
    <2> QED
      BY <1>2, <2>2 DEF CreationInv
  <1>3. ASSUME UNCHANGED <<creations, proc, exists, op>>
        PROVE  CreationInv'
    BY <1>2, <1>3 DEF Creating
  <1>4. ASSUME NEW h \in Handler, CreateIdentity(h)
        PROVE  CreationInv'
    <2>1. CASE exists
      <3>1. Creating' \subseteq Creating
        BY <1>0, <1>4, <2>1 DEF CreateIdentity, Answer, Idle, Creating
      <3> QED
        BY <1>2, <1>4, <3>1 DEF CreateIdentity, database
    <2>2. CASE ~exists
      <3>1. creations' = 0 /\ proc'.pc = "up"
        BY <1>4, <2>2 DEF CreateIdentity, Serves, CreationInv
      <3>2. Cardinality(Creating') <= Most /\ Cardinality(Creating') \in Nat
        <4>1. Creating' \in SUBSET Handler
          BY DEF Creating
        <4> QED
          BY <4>1, HandlersFinite
      <3> QED
        BY <3>1, <3>2 DEF CreationInv
    <2> QED
      BY <2>1, <2>2
  <1>5. ASSUME NEW h \in Handler, Create(h) \/ CreateFails(h)
        PROVE  CreationInv'
    <2>1. /\ op[h].pc = "create" /\ proc' = proc
          /\ \E status : Answer(h, status)
          /\ \/ exists' = TRUE /\ creations' = creations + 1
             \/ exists' = exists /\ creations' = creations
      BY <1>5 DEF Create, CreateFails
    <2>2. /\ Creating' \subseteq Creating
          /\ Cardinality(Creating') = Cardinality(Creating) - 1
      BY <2>1, OneCreatesLess
    <2>3. Creating' # {} => proc'.pc = "up"
      BY <2>1, <2>2 DEF CreationInv
    <2>4. creations' + Cardinality(Creating') <= Most
      BY <1>0, <2>1, <2>2, HandlersFinite DEF CreationInv
    <2>5. ~exists' => creations' = 0
      BY <2>1 DEF CreationInv
    <2> QED
      BY <2>3, <2>4, <2>5 DEF CreationInv
  <1>6. ASSUME NEW h \in Handler, Restore(h) \/ RestoreFails(h)
        PROVE  CreationInv'
    <2>1. /\ proc' = proc /\ creations' = creations /\ (exists => exists')
          /\ \E status : Answer(h, status)
      <3>1. exists' \in {exists, TRUE} /\ exists \in BOOLEAN
        BY <1>6, TypesByParts DEF Restore, RestoreFails, DatabaseTypes
      <3>2. exists => exists'
        BY <3>1
      <3>3. /\ proc' = proc /\ creations' = creations
            /\ \E status : Answer(h, status)
        BY <1>6 DEF Restore, RestoreFails
      <3> QED
        BY <3>2, <3>3
    <2>2. Creating' \subseteq Creating
      BY <1>0, <2>1 DEF Answer, Idle, Creating
    <2> QED
      BY <1>2, <2>1, <2>2
  <1>7. ASSUME NEW h \in Handler, NEW seed \in Seed, Recover(h, seed)
        PROVE  CreationInv'
    <2>1. Creating' \subseteq Creating
      BY <1>0, <1>7 DEF Recover, Continue, Creating, Operation
    <2> QED
      BY <1>2, <1>7, <2>1 DEF Recover
  <1>8. ASSUME NEW h \in Handler, GetSeedPhrase(h) \/ GetIdentity(h)
        PROVE  CreationInv'
    <2>1. Creating' \subseteq Creating
      BY <1>0, <1>8 DEF GetSeedPhrase, GetIdentity, Answer, Idle, Creating
    <2> QED
      BY <1>2, <1>8, <2>1 DEF GetSeedPhrase, GetIdentity, database
  <1>9. ASSUME NEW h \in Handler, Request(h)
        PROVE  CreationInv'
    BY <1>4, <1>5, <1>6, <1>7, <1>8, <1>9 DEF Request
  <1>10. ASSUME \/ \E cfg \in Config : Begin(cfg)
                \/ CheckNetwork \/ CheckKeys \/ MisreadKeys \/ CreateClients
         PROVE  CreationInv'
    <2>1. Creating = {}
      BY <1>10 DEF CreationInv, Begin, CheckNetwork, CheckKeys, MisreadKeys, CreateClients
    <2>2. UNCHANGED <<creations, exists, op>>
      BY <1>10 DEF Begin, CheckNetwork, CheckKeys, MisreadKeys, CreateClients, database
    <2> QED
      BY <1>1, <2>1, <2>2 DEF Creating, CreationInv
  <1>11. CASE CreateConfigured
    <2>1. Creating' = {}
      BY <1>11 DEF CreateConfigured, CreationInv, Creating
    <2>2. \/ exists' = TRUE /\ ~exists /\ creations' = creations + 1
          \/ exists' = exists /\ creations' = creations
      BY <1>11 DEF CreateConfigured
    <2>3. /\ ~exists' => creations' = 0
          /\ creations' = creations \/ creations' = 1
      BY <1>0, <2>2 DEF CreationInv
    <2> QED
      BY <1>1, <2>1, <2>3
  <1>12. CASE Stop
    <2>1. Creating' = {}
      BY <1>12 DEF Stop, Idle, Creating
    <2> QED
      BY <1>1, <1>12, <2>1 DEF Stop, CreationInv, database
  <1>13. ASSUME \/ \E e \in Event : Publish(e) \/ Handle(e)
                \/ Loop \/ StartConsumerFails \/ UnsubscribeFails
                \/ UNCHANGED vars
         PROVE  CreationInv'
    BY <1>3, <1>13
    DEF Publish, Handle, Loop, StartConsumer, StopConsumer, Unsubscribe,
        StartConsumerFails, UnsubscribeFails, vars, database
  <1> QED
    BY <1>9, <1>10, <1>11, <1>12, <1>13 DEF Next, Start

\* Starts and requests that race, fail and are repeated create an identity at
\* most as often as requests can be under way at once (main, create_identity).
THEOREM CreatedOnlyByOverlapHolds == Spec => []CreatedOnlyByOverlap
  <1>1. Init => CreationInv
    <2> SUFFICES ASSUME Init PROVE CreationInv
      OBVIOUS
    <2>1. Creating = {} /\ creations = 0
      BY DEF Init, Creating, Idle
    <2> QED
      BY <2>1, HandlersFinite DEF CreationInv
  <1>2. TypeOK /\ CreationInv /\ [Next]_vars => CreationInv'
    BY CreationStep
  <1>3. TypeOK /\ CreationInv => CreatedOnlyByOverlap
    <2> SUFFICES ASSUME TypeOK, CreationInv PROVE CreatedOnlyByOverlap
      OBVIOUS
    <2>1. creations \in Nat /\ Cardinality(Creating) \in Nat /\ Most \in Nat
      BY HandlersFinite DEF TypeOK, Creating
    <2>2. creations <= Most
      BY <2>1 DEF CreationInv
    <2> QED
      BY <2>2 DEF CreatedOnlyByOverlap, Most
  <1> QED
    BY TypeCorrect, <1>1, <1>2, <1>3, PTL DEF Spec
=============================================================================
