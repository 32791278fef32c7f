-------------------------- MODULE EbillBillsProofs --------------------------
(***************************************************************************)
(* Proofs about a bill in the e-bill service, for any blocks, chains,      *)
(* shared bills, sources, requests, deadlines, failures and restarts.      *)
(*                                                                         *)
(* The chains: whatever this node has or calls valid is a beginning of the *)
(* bill's chain on Nostr, followed by nothing but requests of its own      *)
(* (Known), and so is the chain that a request goes on with after it was   *)
(* compared (Sound).  The jobs: a payment that was visible when the round  *)
(* began is either found, or the job that looks for it has not ended yet   *)
(* (DueInv).                                                               *)
(***************************************************************************)
EXTENDS EbillBills, TLAPS

\* Chain c departs from the chain on Nostr only by requests of this node.
KnownOn(c, chain) ==
    \E n \in 0..Len(c) : /\ n <= Len(chain)
                         /\ \A i \in 1..n : c[i] = chain[i]
                         /\ \A i \in (n + 1)..Len(c) : c[i] = PayRequest
Known(c) == KnownOn(c, nostr)

LEMMA Constants ==
    /\ Chain \subseteq Seq(Block) /\ <<>> \notin Chain
    /\ PayRequest \in Block
    /\ Chain \cup {<<>>} \subseteq Seq(Block)
  <1>1. <<>> \in Seq(Block)
    OBVIOUS
  <1> QED
    BY <1>1, EbillBillsAssumption

LEMMA PrefixElements ==
    ASSUME NEW c \in Seq(Block), NEW d \in Seq(Block), IsPrefix(c, d)
    PROVE  Len(c) <= Len(d) /\ \A i \in 1..Len(c) : c[i] = d[i]
  <1>1. Len(c) <= Len(d) /\ SubSeq(c, 1, Len(c)) = SubSeq(d, 1, Len(c))
    BY DEF IsPrefix
  <1>2. ASSUME NEW i \in 1..Len(c)
        PROVE  c[i] = d[i]
    <2>1. SubSeq(c, 1, Len(c))[i] = c[i]
      OBVIOUS
    <2>2. SubSeq(d, 1, Len(c))[i] = d[i]
      BY <1>1
    <2> QED
      BY <1>1, <2>1, <2>2
  <1> QED
    BY <1>1, <1>2

LEMMA PrefixKnown ==
    ASSUME NEW c \in Seq(Block), NEW d \in Seq(Block), NEW chain \in Seq(Block),
           IsPrefix(c, d), KnownOn(d, chain)
    PROVE  KnownOn(c, chain)
  <1>1. Len(c) <= Len(d) /\ \A i \in 1..Len(c) : c[i] = d[i]
    BY PrefixElements
  <1>2. PICK n \in 0..Len(d) : /\ n <= Len(chain)
                               /\ \A i \in 1..n : d[i] = chain[i]
                               /\ \A i \in (n + 1)..Len(d) : d[i] = PayRequest
    BY DEF KnownOn
  <1>3. CASE n <= Len(c)
    <2>1. /\ n \in 0..Len(c) /\ \A i \in 1..n : c[i] = chain[i]
          /\ \A i \in (n + 1)..Len(c) : c[i] = PayRequest
      BY <1>1, <1>2, <1>3
    <2> QED
      BY <1>2, <2>1 DEF KnownOn
  <1>4. CASE Len(c) < n
    <2>1. /\ Len(c) \in 0..Len(c) /\ Len(c) <= Len(chain)
          /\ \A i \in 1..Len(c) : c[i] = chain[i]
          /\ \A i \in (Len(c) + 1)..Len(c) : c[i] = PayRequest
      BY <1>1, <1>2, <1>4
    <2> QED
      BY <2>1 DEF KnownOn
  <1> QED
    BY <1>2, <1>3, <1>4

\* What is published is known.
LEMMA PublishedKnown ==
    ASSUME NEW chain \in Seq(Block)
    PROVE  KnownOn(chain, chain)
  <1>1. /\ Len(chain) \in 0..Len(chain)
        /\ \A i \in (Len(chain) + 1)..Len(chain) : chain[i] = PayRequest
    OBVIOUS
  <1> QED
    BY <1>1 DEF KnownOn

\* Chains stay known when the chain on Nostr grows.
LEMMA KnownStays ==
    ASSUME NEW c \in Seq(Block), NEW chain \in Seq(Block), NEW longer \in Seq(Block),
           IsPrefix(chain, longer), KnownOn(c, chain)
    PROVE  KnownOn(c, longer)
  <1>1. Len(chain) <= Len(longer) /\ \A i \in 1..Len(chain) : chain[i] = longer[i]
    BY PrefixElements
  <1>2. PICK n \in 0..Len(c) : /\ n <= Len(chain)
                               /\ \A i \in 1..n : c[i] = chain[i]
                               /\ \A i \in (n + 1)..Len(c) : c[i] = PayRequest
    BY DEF KnownOn
  <1> QED
    BY <1>1, <1>2 DEF KnownOn

\* A request of this node's own may follow what it knows.
LEMMA RequestKnown ==
    ASSUME NEW c \in Seq(Block), NEW chain \in Seq(Block), KnownOn(c, chain)
    PROVE  KnownOn(Append(c, PayRequest), chain)
  <1> DEFINE d == Append(c, PayRequest)
  <1>1. /\ Len(d) = Len(c) + 1 /\ d[Len(c) + 1] = PayRequest
        /\ \A i \in 1..Len(c) : d[i] = c[i]
    BY Constants
  <1>2. PICK n \in 0..Len(c) : /\ n <= Len(chain)
                               /\ \A i \in 1..n : c[i] = chain[i]
                               /\ \A i \in (n + 1)..Len(c) : c[i] = PayRequest
    BY DEF KnownOn
  <1>3. n \in 0..Len(d) /\ \A i \in (n + 1)..Len(d) : d[i] = PayRequest
    BY <1>1, <1>2
  <1>4. \A i \in 1..n : d[i] = chain[i]
    BY <1>1, <1>2
  <1> HIDE DEF d
  <1>5. KnownOn(d, chain)
    BY <1>2, <1>3, <1>4 DEF KnownOn
  <1> QED
    BY <1>5 DEF d

\* Two known chains differ only where one has such a request.
LEMMA KnownAgree ==
    ASSUME NEW c \in Seq(Block), NEW d \in Seq(Block), NEW chain \in Seq(Block),
           KnownOn(c, chain), KnownOn(d, chain),
           NEW i \in DOMAIN c \cap DOMAIN d
    PROVE  c[i] = d[i] \/ PayRequest \in {c[i], d[i]}
  <1>1. i \in 1..Len(c) /\ i \in 1..Len(d)
    OBVIOUS
  <1>2. PICK n \in 0..Len(c) : /\ \A j \in 1..n : c[j] = chain[j]
                               /\ \A j \in (n + 1)..Len(c) : c[j] = PayRequest
    BY DEF KnownOn
  <1>3. PICK m \in 0..Len(d) : /\ \A j \in 1..m : d[j] = chain[j]
                               /\ \A j \in (m + 1)..Len(d) : d[j] = PayRequest
    BY DEF KnownOn
  <1> QED
    BY <1>1, <1>2, <1>3
-----------------------------------------------------------------------------
(* The invariant *)

Operation == [pc : {"idle", "keys", "files"}, effect : BOOLEAN,
              status : {0, OK, BadRequest, NotFound, InternalError},
              ask : {{}} \cup {{p} : p \in Shared}]

\* A request that is blamed had no effect; one that checks files found its bill
\* on Nostr.
Sound(o) ==
    /\ o \in Operation
    /\ o.status \in {BadRequest, NotFound} => ~o.effect
    /\ \A p \in o.ask : p.chain \in Chain /\ Known(p.chain)

ChainsInv ==
    /\ nostr \in Chain \cup {<<>>}
    /\ local \in Chain \cup {<<>>} /\ Known(local)
    /\ accepted \subseteq Chain /\ \A c \in accepted : Known(c)

RequestsInv ==
    /\ op \in [Handler -> Operation]
    /\ \A h \in Handler : Sound(op[h])

\* A payment that was visible when the round began: its job is still to come.
DueInv ==
    due /\ payment = "waiting" =>
        /\ visible
        /\ job.pc = "check"
        /\ Asked # {} /\ Asked \subseteq job.left

JobsInv ==
    /\ payment \in {"waiting", "paid", "expired"}
    /\ visible \in BOOLEAN
    /\ now \in 0..MaxTime
    /\ job \in [pc : {"delay", "wait", "check", "maturity"}, left : SUBSET Kind]
    /\ job.left # {} => job.pc = "check"
    /\ reported \in BOOLEAN
    /\ faults \in 0..MaxFaults
    /\ told = IF reported THEN 1 ELSE 0
    /\ due \in BOOLEAN
    /\ DueInv

Inv == ChainsInv /\ RequestsInv /\ JobsInv
-----------------------------------------------------------------------------
(* The chains *)

\* What a step does to them.
ChainStep ==
    \/ UNCHANGED <<nostr, local, accepted>>
    \/ /\ UNCHANGED <<local, accepted>>
       /\ nostr' \in Chain /\ IsPrefix(nostr, nostr')
    \/ /\ UNCHANGED <<nostr, accepted>>
       /\ \/ local' = nostr
          \/ local' = Append(local, PayRequest) /\ local' \in Chain
    \/ /\ UNCHANGED <<nostr, local>>
       /\ \E c \in Chain : accepted' \subseteq accepted \cup {c} /\ Known(c)

LEMMA ChainStepPreserves ==
    ASSUME ChainsInv, ChainStep
    PROVE  ChainsInv'
  <1>0. /\ nostr \in Seq(Block) /\ local \in Seq(Block)
        /\ Chain \subseteq Seq(Block) /\ accepted \subseteq Seq(Block)
    BY Constants DEF ChainsInv
  <1>1. CASE UNCHANGED <<nostr, local, accepted>>
    BY <1>1 DEF ChainsInv, Known
  <1>2. CASE UNCHANGED <<local, accepted>> /\ nostr' \in Chain /\ IsPrefix(nostr, nostr')
    <2>1. KnownOn(local, nostr') /\ \A c \in accepted : KnownOn(c, nostr')
      BY <1>0, <1>2, KnownStays DEF ChainsInv, Known
    <2> QED
      BY <1>2, <2>1 DEF ChainsInv, Known
  <1>3. CASE UNCHANGED <<nostr, accepted>> /\ local' = nostr
    BY <1>0, <1>3, PublishedKnown DEF ChainsInv, Known
  <1>4. CASE /\ UNCHANGED <<nostr, accepted>>
             /\ local' = Append(local, PayRequest) /\ local' \in Chain
    BY <1>0, <1>4, RequestKnown DEF ChainsInv, Known
  <1>5. CASE /\ UNCHANGED <<nostr, local>>
             /\ \E c \in Chain : accepted' \subseteq accepted \cup {c} /\ Known(c)
    BY <1>5 DEF ChainsInv, Known
  <1> QED
    BY <1>1, <1>2, <1>3, <1>4, <1>5 DEF ChainStep

LEMMA SurroundingsChains ==
    ASSUME Inv, \/ \E chain \in Chain : Publish(chain)
                \/ Receive \/ PayOnChain \/ Tick \/ Restart
    PROVE  ChainStep
  <1>1. ASSUME NEW chain \in Chain, Publish(chain)
        PROVE  ChainStep
    BY <1>1 DEF Publish, ChainStep, bill, IsStrictPrefix
  <1>2. CASE Receive
    BY <1>2 DEF Receive, Adopt, ChainStep
  <1>3. CASE PayOnChain \/ Tick \/ Restart
    BY <1>3 DEF PayOnChain, Tick, Restart, ChainStep, bill
  <1> QED
    BY <1>1, <1>2, <1>3

LEMMA JobsLeaveChains ==
    ASSUME Round \/ JobFails
    PROVE  ChainStep
  BY DEF Round, InitialDelay, StartRound, Check, Timeouts, CheckMaturity, JobFails,
         CheckFails, TimeoutsFail, CheckMaturityFails, ChainStep, bill

LEMMA ReadsChangeNothing ==
    ASSUME NEW h \in Handler, ReadBill(h)
    PROVE  UNCHANGED <<nostr, bill, now, job, reported, told, due, accepted>>
  BY DEF ReadBill, GetBillsBalanceHistory, GetBills, GetBillDetail, GetBillPaymentStatus,
         GetBillPaymentActions, GetBillAttachment, PrepareRequestToPay,
         GetEncryptedBillFile, ReadFails, Reply

LEMMA ChangesOfChains ==
    ASSUME NEW h \in Handler, ChangeBill(h)
    PROVE  ChainStep
  <1>1. CASE CheckBillPayment(h) \/ CheckBillPaymentFails(h)
    BY <1>1 DEF CheckBillPayment, CheckBillPaymentFails, ChainStep
  <1>2. CASE RequestToPay(h) \/ RequestToPayFails(h)
    BY <1>2 DEF RequestToPay, RequestToPayFails, MayRequest, Adopt, ChainStep, bill
  <1>3. CASE GetBillKeys(h) \/ GetBillKeysFails(h)
    BY <1>3 DEF GetBillKeys, GetBillKeysFails, ChainStep, bill
  <1>4. CASE SyncBillChain(h) \/ SyncBillChainFails(h)
    BY <1>4 DEF SyncBillChain, SyncBillChainFails, Adopt, ChainStep, bill
  <1> QED
    BY <1>1, <1>2, <1>3, <1>4 DEF ChangeBill

\* A bill that is judged by the local chain is known because that is.
LEMMA LocalBeginningsKnown ==
    ASSUME ChainsInv, NEW c \in Chain, IsPrefix(c, local)
    PROVE  Known(c)
  <1>1. c \in Seq(Block) /\ local \in Seq(Block) /\ nostr \in Seq(Block)
    BY Constants DEF ChainsInv
  <1> QED
    BY <1>1, PrefixKnown DEF ChainsInv, Known

LEMMA JudgementsOfChains ==
    ASSUME Inv, NEW h \in Handler, JudgeBill(h)
    PROVE  ChainStep
  <1>1. ASSUME NEW p \in Shared,
               \/ ValidateSharedBill(h, p) \/ GetSharedBillHistory(h, p)
               \/ ValidateEndorsedBillFails(h, p)
        PROVE  ChainStep
    BY <1>1 DEF ValidateSharedBill, GetSharedBillHistory, ValidateEndorsedBillFails,
       Reply, ChainStep, bill
  <1>2. ASSUME NEW p \in Shared, ValidateEndorsedBill(h, p)
        PROVE  ChainStep
    <2>1. UNCHANGED <<nostr, local>>
      BY <1>2 DEF ValidateEndorsedBill, bill
    <2>2. CASE p.chain \in Chain /\ IsPrefix(p.chain, local)
      <3>1. Known(p.chain)
        BY <2>2, LocalBeginningsKnown DEF Inv
      <3> QED
        BY <1>2, <2>1, <2>2, <3>1 DEF ValidateEndorsedBill, ChainStep
    <2>3. CASE ~(p.chain \in Chain /\ IsPrefix(p.chain, local))
      BY <1>2, <2>1, <2>3 DEF ValidateEndorsedBill, ChainStep
    <2> QED
      BY <2>2, <2>3
  <1>3. CASE CheckFiles(h)
    <2>1. PICK p \in op[h].ask :
              accepted' = IF FilesStatus(p.urls) = OK THEN accepted \cup {p.chain} ELSE accepted
      BY <1>3 DEF CheckFiles
    <2>2. p.chain \in Chain /\ Known(p.chain)
      BY <2>1 DEF Inv, RequestsInv, Sound
    <2>3. UNCHANGED <<nostr, local>>
      BY <1>3 DEF CheckFiles, bill
    <2> QED
      BY <2>1, <2>2, <2>3 DEF ChainStep
  <1>4. CASE CheckFilesFails(h)
    BY <1>4 DEF CheckFilesFails, ChainStep, bill
  <1> QED
    BY <1>1, <1>2, <1>3, <1>4 DEF JudgeBill

LEMMA NextChains ==
    ASSUME Inv, [Next]_vars
    PROVE  ChainStep
  <1>1. ASSUME NEW h \in Handler, ReadBill(h)
        PROVE  ChainStep
    BY <1>1, ReadsChangeNothing DEF ChainStep, bill
  <1>2. CASE UNCHANGED vars
    BY <1>2 DEF vars, bill, ChainStep
  <1> QED
    BY <1>1, <1>2, SurroundingsChains, JobsLeaveChains, ChangesOfChains,
       JudgementsOfChains DEF Next
-----------------------------------------------------------------------------
(* The requests *)

RequestStep ==
    \/ op' = op
    \/ op' = [h \in Handler |-> Idle(0, FALSE)]
    \/ \E h \in Handler : \E o : Sound(o) /\ op' = [op EXCEPT ![h] = o]

LEMMA KnownForward ==
    ASSUME ChainsInv, ChainStep, NEW c \in Chain, Known(c)
    PROVE  Known(c)'
  <1>1. nostr \in Seq(Block) /\ c \in Seq(Block) /\ Chain \subseteq Seq(Block)
    BY Constants DEF ChainsInv
  <1>2. CASE nostr' = nostr
    BY <1>2 DEF Known
  <1>3. CASE nostr' \in Chain /\ IsPrefix(nostr, nostr')
    BY <1>1, <1>3, KnownStays DEF Known
  <1> QED
    BY <1>2, <1>3 DEF ChainStep

LEMMA Statuses ==
    /\ OK = 200 /\ BadRequest = 400 /\ NotFound = 404 /\ InternalError = 500
    /\ ValidationStatus = BadRequest
    /\ \A e : /\ WebStatus(e) \in {BadRequest, InternalError}
              /\ ServiceStatus(e) \in {BadRequest, NotFound, InternalError}
              /\ BillServiceStatus(e) \in {BadRequest, NotFound, InternalError}
    /\ ServiceStatus("Persistence") = InternalError
    /\ ServiceStatus("TransportService") = InternalError
    /\ BillServiceStatus("Persistence") = InternalError
    /\ BillServiceStatus("Notification") = InternalError
    /\ \A u : FetchStatus(u) \in {OK, BadRequest, InternalError}
    /\ \A urls : FilesStatus(urls) \in {OK, BadRequest, InternalError}
  <1>1. \A e : /\ WebStatus(e) \in {BadRequest, InternalError}
               /\ ServiceStatus(e) \in {BadRequest, NotFound, InternalError}
               /\ BillServiceStatus(e) \in {BadRequest, NotFound, InternalError}
    BY DEF WebStatus, ServiceStatus, BillServiceStatus
  <1>2. \A u : FetchStatus(u) \in {OK, BadRequest, InternalError}
    BY <1>1 DEF FetchStatus, ValidationStatus, WebStatus
  <1>3. \A urls : FilesStatus(urls) \in {OK, BadRequest, InternalError}
    BY <1>1, <1>2 DEF FilesStatus
  <1> QED
    BY <1>1, <1>2, <1>3 DEF OK, BadRequest, NotFound, InternalError, ValidationStatus,
       ServiceStatus, BillServiceStatus

\* An answer is sound if it does not blame a request that had an effect.
LEMMA IdleSound ==
    ASSUME NEW status \in {0, OK, BadRequest, NotFound, InternalError},
           NEW effect \in BOOLEAN,
           effect => status \notin {BadRequest, NotFound}
    PROVE  Sound(Idle(status, effect))
  <1>1. Idle(status, effect) \in Operation
    BY Zenon DEF Idle, Operation
  <1>2. /\ Idle(status, effect).status = status
        /\ Idle(status, effect).effect = effect
        /\ Idle(status, effect).ask = {}
    BY DEF Idle
  <1> QED
    BY <1>1, <1>2 DEF Sound

\* A request that goes on has no status yet.
LEMMA ContinueStep ==
    ASSUME NEW h \in Handler, NEW label \in {"keys", "files"}, NEW effect \in BOOLEAN,
           NEW ask \in {{}} \cup {{p} : p \in Shared},
           \A p \in ask : p.chain \in Chain /\ Known(p.chain),
           Continue(h, label, effect, ask)
    PROVE  RequestStep
  <1> DEFINE o == [pc |-> label, status |-> 0, effect |-> effect, ask |-> ask]
  <1>1. o \in Operation
    BY Zenon DEF Operation
  <1>2. o.status = 0 /\ o.ask = ask
    OBVIOUS
  <1>3. Sound(o)
    BY <1>1, <1>2, Statuses DEF Sound
  <1>4. op' = [op EXCEPT ![h] = o]
    BY DEF Continue
  <1> HIDE DEF o
  <1> QED
    BY <1>3, <1>4 DEF RequestStep

LEMMA AnswerStep ==
    ASSUME NEW h \in Handler,
           NEW status \in {0, OK, BadRequest, NotFound, InternalError},
           NEW effect \in BOOLEAN,
           effect => status \notin {BadRequest, NotFound},
           Answer(h, status, effect)
    PROVE  RequestStep
  BY IdleSound DEF Answer, RequestStep

\* An answer to a request that had no effect.
LEMMA NoEffectStep ==
    ASSUME NEW h \in Handler,
           NEW status \in {0, OK, BadRequest, NotFound, InternalError},
           Answer(h, status, FALSE)
    PROVE  RequestStep
  BY AnswerStep

\* An answer that blames nobody.
LEMMA NoBlameStep ==
    ASSUME NEW h \in Handler, NEW status \in {OK, InternalError},
           NEW effect \in BOOLEAN, Answer(h, status, effect)
    PROVE  RequestStep
  BY AnswerStep, Statuses

LEMMA IfKnownStatus ==
    ASSUME NEW status \in {0, OK, BadRequest, NotFound, InternalError}
    PROVE  IfKnown(status) \in {0, OK, BadRequest, NotFound, InternalError}
  BY Statuses DEF IfKnown

LEMMA ReadRequests ==
    ASSUME NEW h \in Handler, ReadBill(h)
    PROVE  RequestStep
  <1> DEFINE S == {0, OK, BadRequest, NotFound, InternalError}
  <1>1. ASSUME NEW status \in S, Reply(h, status)
        PROVE  RequestStep
    BY <1>1, NoEffectStep DEF Reply
  <1>2. /\ OK \in S /\ IfKnown(OK) \in S /\ ValidationStatus \in S
        /\ \A e : BillServiceStatus(e) \in S /\ ServiceStatus(e) \in S
        /\ \A u : FetchStatus(u) \in S
    BY Statuses, IfKnownStatus
  <1>3. CASE GetBillsBalanceHistory(h) \/ GetBills(h)
    BY <1>1, <1>2, <1>3 DEF GetBillsBalanceHistory, GetBills
  <1>4. CASE \/ GetBillDetail(h) \/ GetBillPaymentStatus(h)
             \/ GetBillPaymentActions(h) \/ PrepareRequestToPay(h)
    BY <1>1, <1>2, <1>4 DEF GetBillDetail, GetBillPaymentStatus, GetBillPaymentActions,
       PrepareRequestToPay
  <1>5. CASE GetBillAttachment(h)
    <2>1. PICK status \in S : Reply(h, IfKnown(status))
      BY <1>2, <1>5 DEF GetBillAttachment
    <2> QED
      BY <1>1, <2>1, IfKnownStatus
  <1>6. CASE GetEncryptedBillFile(h)
    BY <1>1, <1>2, <1>6 DEF GetEncryptedBillFile
  <1>7. CASE ReadFails(h)
    BY <1>2, <1>7, NoEffectStep DEF ReadFails
  <1> QED
    BY <1>3, <1>4, <1>5, <1>6, <1>7 DEF ReadBill

\* A payment is found only for a bill that is known.
LEMMA UnknownUnpaid ==
    ASSUME NEW k \in Kind, local = <<>>
    PROVE  Checked(k) = payment
  BY DEF Checked, Waiting, Asked

LEMMA ChangeRequests ==
    ASSUME RequestsInv, NEW h \in Handler, ChangeBill(h)
    PROVE  RequestStep
  <1> DEFINE S == {0, OK, BadRequest, NotFound, InternalError}
  <1>0. /\ OK \in S /\ IfKnown(OK) \in S /\ IfKnown(ValidationStatus) \in S
        /\ \A e : BillServiceStatus(e) \in S /\ ServiceStatus(e) \in S
    BY Statuses, IfKnownStatus
  <1>1. CASE CheckBillPayment(h)
    <2>1. "payment" \in Kind
      BY EbillBillsAssumption
    <2>2. CASE local = <<>>
      <3>1. payment' = payment
        BY <1>1, <2>1, <2>2, UnknownUnpaid DEF CheckBillPayment
      <3>2. Answer(h, IfKnown(OK), FALSE)
        <4>1. (payment' # payment) = FALSE
          BY <3>1
        <4> QED
          BY <1>1, <4>1, Zenon DEF CheckBillPayment
      <3> QED
        BY <1>0, <3>2, NoEffectStep
    <2>3. CASE local # <<>>
      <3>1. IfKnown(OK) = OK
        BY <2>3 DEF IfKnown
      <3>2. (payment' # payment) \in BOOLEAN
        OBVIOUS
      <3>3. Answer(h, OK, payment' # payment)
        BY <1>1, <3>1, Zenon DEF CheckBillPayment
      <3> QED
        BY <3>2, <3>3, NoBlameStep
    <2> QED
      BY <2>2, <2>3
  <1>2. CASE CheckBillPaymentFails(h)
    <2>1. (payment' # payment) \in BOOLEAN
      OBVIOUS
    <2>2. Answer(h, InternalError, payment' # payment)
      BY <1>2, Statuses, Zenon DEF CheckBillPaymentFails
    <2> QED
      BY <2>1, <2>2, NoBlameStep
  <1>3. CASE RequestToPay(h)
    <2>1. CASE Continue(h, "keys", TRUE, {})
      <3>1. {} \in {{}} \cup {{p} : p \in Shared} /\ TRUE \in BOOLEAN
        OBVIOUS
      <3>2. \A p \in {} : p.chain \in Chain /\ Known(p.chain)
        OBVIOUS
      <3> QED
        BY <2>1, <3>1, <3>2, ContinueStep, Zenon
    <2>2. CASE Answer(h, IfKnown(ValidationStatus), FALSE)
      BY <1>0, <2>2, NoEffectStep
    <2> QED
      BY <1>3, <2>1, <2>2 DEF RequestToPay
  <1>4. CASE RequestToPayFails(h)
    <2>1. \/ Answer(h, InternalError, TRUE)
          \/ Answer(h, InternalError, FALSE)
      BY <1>4, Statuses DEF RequestToPayFails
    <2> QED
      BY <2>1, NoBlameStep
  <1>5. CASE GetBillKeys(h) \/ GetBillKeysFails(h)
    <2>1. Answer(h, OK, TRUE) \/ Answer(h, BillServiceStatus("Persistence"), TRUE)
      BY <1>5, Zenon DEF GetBillKeys, GetBillKeysFails
    <2>2. BillServiceStatus("Persistence") = InternalError
      BY Statuses
    <2> QED
      BY <2>1, <2>2, NoBlameStep
  <1>6. CASE SyncBillChain(h)
    <2>1. CASE Answer(h, OK, TRUE)
      BY <2>1, NoBlameStep
    <2>2. CASE Answer(h, IF local = <<>> THEN ServiceStatus("TransportService") ELSE OK, FALSE)
      BY <1>0, <2>2, NoEffectStep
    <2> QED
      BY <1>6, <2>1, <2>2 DEF SyncBillChain
  <1>7. CASE SyncBillChainFails(h)
    <2>1. Answer(h, InternalError, TRUE)
      BY <1>7, Statuses DEF SyncBillChainFails
    <2> QED
      BY <2>1, NoBlameStep
  <1> QED
    BY <1>1, <1>2, <1>3, <1>4, <1>5, <1>6, <1>7 DEF ChangeBill

LEMMA JudgeRequests ==
    ASSUME Inv, NEW h \in Handler, JudgeBill(h)
    PROVE  RequestStep
  <1> DEFINE S == {0, OK, BadRequest, NotFound, InternalError}
  <1>0. /\ OK \in S /\ \A e : WebStatus(e) \in S
        /\ \A urls : FilesStatus(urls) \in S
    BY Statuses
  <1>1. ASSUME NEW p \in Shared, ValidateSharedBill(h, p)
        PROVE  RequestStep
    <2>1. CASE Genuine(p) /\ Continue(h, "files", FALSE, {p})
      <3>1. p.chain \in Chain /\ IsPrefix(p.chain, nostr)
        BY <2>1 DEF Genuine
      <3>2. p.chain \in Seq(Block) /\ nostr \in Seq(Block)
        BY <3>1, Constants DEF Inv, ChainsInv
      <3>3. Known(p.chain)
        BY <3>1, <3>2, PublishedKnown, PrefixKnown DEF Known
      <3> QED
        BY <2>1, <3>1, <3>3, ContinueStep
    <2>2. CASE Answer(h, WebStatus("SharedBill"), FALSE)
      BY <1>0, <2>2, NoEffectStep
    <2> QED
      BY <1>1, <2>1, <2>2 DEF ValidateSharedBill
  <1>2. ASSUME NEW p \in Shared, ValidateEndorsedBill(h, p)
        PROVE  RequestStep
    <2>1. Answer(h, OK, FALSE) \/ Answer(h, WebStatus("SharedBill"), FALSE)
      BY <1>2 DEF ValidateEndorsedBill
    <2> QED
      BY <1>0, <2>1, NoEffectStep
  <1>3. ASSUME NEW p \in Shared,
               GetSharedBillHistory(h, p) \/ ValidateEndorsedBillFails(h, p)
        PROVE  RequestStep
    <2>1. PICK status \in S : Answer(h, status, FALSE)
      BY <1>0, <1>3 DEF GetSharedBillHistory, ValidateEndorsedBillFails, Reply
    <2> QED
      BY <2>1, NoEffectStep
  <1>4. CASE CheckFiles(h)
    <2>1. PICK status \in S : Answer(h, status, FALSE)
      BY <1>0, <1>4 DEF CheckFiles
    <2> QED
      BY <2>1, NoEffectStep
  <1>5. CASE CheckFilesFails(h)
    BY <1>0, <1>5, NoEffectStep DEF CheckFilesFails
  <1> QED
    BY <1>1, <1>2, <1>3, <1>4, <1>5 DEF JudgeBill

LEMMA NextRequests ==
    ASSUME Inv, [Next]_vars
    PROVE  RequestStep
  <1>1. CASE \/ \E chain \in Chain : Publish(chain)
             \/ Receive \/ PayOnChain \/ Tick
    BY <1>1 DEF Publish, Receive, PayOnChain, Tick, RequestStep
  <1>2. CASE Restart
    BY <1>2 DEF Restart, RequestStep
  <1>3. CASE Round \/ JobFails
    BY <1>3 DEF Round, InitialDelay, StartRound, Check, Timeouts, CheckMaturity, JobFails,
       CheckFails, TimeoutsFail, CheckMaturityFails, RequestStep
  <1>4. CASE UNCHANGED vars
    BY <1>4 DEF vars, RequestStep
  <1>5. RequestsInv
    BY DEF Inv
  <1> QED
    BY <1>1, <1>2, <1>3, <1>4, <1>5, ReadRequests, ChangeRequests, JudgeRequests DEF Next

LEMMA RequestStepPreserves ==
    ASSUME Inv, ChainStep, RequestStep
    PROVE  RequestsInv'
  <1>0. ASSUME NEW o, Sound(o)
        PROVE  Sound(o)'
    BY <1>0, KnownForward DEF Sound, Inv
  <1>1. CASE op' = op
    BY <1>0, <1>1 DEF Inv, RequestsInv
  <1>2. CASE op' = [h \in Handler |-> Idle(0, FALSE)]
    <2>1. Sound(Idle(0, FALSE))
      BY IdleSound
    <2>2. Idle(0, FALSE) \in Operation
      BY <2>1 DEF Sound
    <2> QED
      BY <1>0, <1>2, <2>1, <2>2 DEF RequestsInv
  <1>3. ASSUME NEW h \in Handler, NEW o, Sound(o), op' = [op EXCEPT ![h] = o]
        PROVE  RequestsInv'
    <2>1. op \in [Handler -> Operation] /\ o \in Operation
      BY <1>3 DEF Inv, RequestsInv, Sound
    <2>2. op' \in [Handler -> Operation]
      BY <1>3, <2>1
    <2>3. \A j \in Handler : op'[j] = IF j = h THEN o ELSE op[j]
      BY <1>3, <2>1
    <2>4. \A j \in Handler : Sound(op'[j])
      BY <1>3, <2>3 DEF Inv, RequestsInv
    <2> QED
      BY <1>0, <2>2, <2>4 DEF RequestsInv
  <1> QED
    BY <1>1, <1>2, <1>3 DEF RequestStep
-----------------------------------------------------------------------------
(* The jobs *)

LEMMA AskedKinds == Asked \subseteq Kind
  BY EbillBillsAssumption DEF Asked

\* The jobs' task: its place and the checks that are left.
LEMMA JobSteps ==
    ASSUME JobsInv, [Next]_vars
    PROVE  /\ job' \in [pc : {"delay", "wait", "check", "maturity"}, left : SUBSET Kind]
           /\ job'.left # {} => job'.pc = "check"
  <1> DEFINE J == [pc : {"delay", "wait", "check", "maturity"}, left : SUBSET Kind]
  <1>0. job \in J /\ (job.left # {} => job.pc = "check")
    BY DEF JobsInv
  <1>1. ASSUME NEW label \in {"delay", "wait", "check", "maturity"}, job.left = {},
               Goto(label)
        PROVE  job' \in J /\ job'.left = {}
    BY <1>0, <1>1 DEF Goto
  <1>2. ASSUME NEW k \in Kind, job.pc = "check", job' = [job EXCEPT !.left = @ \ {k}]
        PROVE  job' \in J /\ job'.pc = "check"
    BY <1>0, <1>2
  <1>3. CASE UNCHANGED job
    BY <1>0, <1>3
  <1>4. CASE InitialDelay \/ CheckMaturity \/ CheckMaturityFails
    <2>1. job.pc # "check" /\ Goto("wait")
      BY <1>4 DEF InitialDelay, CheckMaturity, CheckMaturityFails
    <2> QED
      BY <1>0, <1>1, <2>1
  <1>5. CASE Timeouts \/ TimeoutsFail
    <2>1. job.left = {} /\ Goto("maturity")
      BY <1>5 DEF Timeouts, TimeoutsFail
    <2> QED
      BY <1>1, <2>1
  <1>6. CASE StartRound
    BY <1>6 DEF StartRound
  <1>7. ASSUME NEW k \in Kind, Check(k) \/ CheckFails(k)
        PROVE  job' \in J /\ (job'.left # {} => job'.pc = "check")
    BY <1>2, <1>7 DEF Check, CheckFails
  <1>8. CASE Restart
    <2>1. job' = [pc |-> "delay", left |-> {}]
      BY <1>8 DEF Restart
    <2> QED
      BY <2>1
  <1>9. CASE \/ \E chain \in Chain : Publish(chain)
             \/ Receive \/ PayOnChain \/ Tick
    BY <1>3, <1>9 DEF Publish, Receive, PayOnChain, Tick
  <1>10. ASSUME NEW h \in Handler, ReadBill(h) \/ ChangeBill(h) \/ JudgeBill(h)
         PROVE  UNCHANGED job
    <2>1. CASE ReadBill(h)
      BY <2>1, ReadsChangeNothing
    <2>2. CASE ChangeBill(h)
      BY <2>2 DEF ChangeBill, CheckBillPayment, CheckBillPaymentFails, RequestToPay,
         RequestToPayFails, GetBillKeys, GetBillKeysFails, SyncBillChain, SyncBillChainFails
    <2>3. CASE JudgeBill(h)
      BY <2>3 DEF JudgeBill, ValidateSharedBill, ValidateEndorsedBill,
         ValidateEndorsedBillFails, GetSharedBillHistory, CheckFiles, CheckFilesFails, Reply
    <2> QED
      BY <1>10, <2>1, <2>2, <2>3
  <1>11. CASE UNCHANGED vars
    BY <1>3, <1>11 DEF vars
  <1> QED
    BY <1>3, <1>4, <1>5, <1>6, <1>7, <1>8, <1>9, <1>10, <1>11 DEF Next, Round, JobFails

\* A job that looks for payments of kind k found what is paid, or it failed and
\* a payment that is still open is no longer due.
CheckStep(k) ==
    /\ UNCHANGED <<local, visible>>
    /\ job.pc = "check" /\ job' = [job EXCEPT !.left = @ \ {k}]
    /\ payment' \in {payment, Checked(k)}
    /\ due' \in BOOLEAN
    /\ due' => due
    /\ Waiting(k) => payment' = Checked(k) \/ ~due'

\* What a step does to the bill and its request.
PaymentStep ==
    \/ UNCHANGED <<local, payment, visible, job, due>>
    \/ payment' = "waiting" /\ visible' = FALSE /\ due' = FALSE         \* Adopt
    \/ UNCHANGED <<payment, visible>> /\ due' = FALSE                   \* Restart
    \/ UNCHANGED <<local, payment, job, due>> /\ visible' = TRUE        \* PayOnChain
    \/ /\ UNCHANGED <<local, payment, visible>>                         \* StartRound
       /\ job' = [pc |-> "check", left |-> Kind]
       /\ due' = (visible /\ \E k \in Kind : Waiting(k))
    \/ \E k \in Kind : CheckStep(k)
    \/ /\ UNCHANGED <<local, visible, job, due>>                        \* CheckBillPayment
       /\ payment' \in {payment, Checked("payment")}
    \/ /\ UNCHANGED <<local, visible, due>>                             \* Timeouts
       /\ job.left = {} /\ payment' \in {payment, TimedOut}
    \/ /\ UNCHANGED <<local, payment, visible, due>>                    \* Goto
       /\ job.pc # "check"

LEMMA PaymentStepPreserves ==
    ASSUME JobsInv, PaymentStep
    PROVE  /\ payment' \in {"waiting", "paid", "expired"}
           /\ visible' \in BOOLEAN
           /\ due' \in BOOLEAN
           /\ DueInv'
  <1>0. /\ payment \in {"waiting", "paid", "expired"} /\ visible \in BOOLEAN
        /\ due \in BOOLEAN /\ DueInv
        /\ job \in [pc : {"delay", "wait", "check", "maturity"}, left : SUBSET Kind]
    BY DEF JobsInv
  <1>1. CASE UNCHANGED <<local, payment, visible, job, due>>
    BY <1>0, <1>1 DEF DueInv, Asked
  <1>2. CASE payment' = "waiting" /\ visible' = FALSE /\ due' = FALSE
    BY <1>0, <1>2 DEF DueInv
  <1>3. CASE UNCHANGED <<payment, visible>> /\ due' = FALSE
    BY <1>0, <1>3 DEF DueInv
  <1>4. CASE UNCHANGED <<local, payment, job, due>> /\ visible' = TRUE
    BY <1>0, <1>4 DEF DueInv, Asked
  <1>5. CASE /\ UNCHANGED <<local, payment, visible>>
             /\ job' = [pc |-> "check", left |-> Kind]
             /\ due' = (visible /\ \E k \in Kind : Waiting(k))
    <2>1. Asked' = Asked
      BY <1>5 DEF Asked
    <2>2. job'.pc = "check" /\ job'.left = Kind
      BY <1>5
    <2>3. due' => visible /\ Asked # {}
      BY <1>5 DEF Waiting
    <2>4. due' \in BOOLEAN
      BY <1>0, <1>5
    <2> QED
      BY <1>0, <1>5, <2>1, <2>2, <2>3, <2>4, AskedKinds DEF DueInv
  <1>6. ASSUME NEW k \in Kind, CheckStep(k)
        PROVE  /\ payment' \in {"waiting", "paid", "expired"}
               /\ visible' \in BOOLEAN
               /\ due' \in BOOLEAN
               /\ DueInv'
    <2>0. visible' = visible /\ due' \in BOOLEAN /\ job.pc = "check"
      BY <1>6 DEF CheckStep
    <2>1. Asked' = Asked
      BY <1>6 DEF CheckStep, Asked
    <2>2. job'.pc = "check" /\ job'.left = job.left \ {k}
      BY <1>0, <1>6 DEF CheckStep
    <2>3. payment' \in {"waiting", "paid", "expired"}
      BY <1>0, <1>6 DEF CheckStep, Checked
    <2>4. ASSUME due', payment' = "waiting"
          PROVE  k \notin Asked /\ due /\ payment = "waiting"
      BY <1>0, <1>6, <2>4 DEF CheckStep, Checked, Waiting, DueInv
    <2> QED
      BY <1>0, <2>0, <2>1, <2>2, <2>3, <2>4 DEF DueInv
  <1>7. CASE /\ UNCHANGED <<local, visible, job, due>>
             /\ payment' \in {payment, Checked("payment")}
    <2>1. Asked' = Asked
      BY <1>7 DEF Asked
    <2> QED
      BY <1>0, <1>7, <2>1 DEF DueInv, Checked
  <1>8. CASE /\ UNCHANGED <<local, visible, due>>
             /\ job.left = {} /\ payment' \in {payment, TimedOut}
    <2>1. ~(due /\ payment = "waiting")
      BY <1>0, <1>8 DEF DueInv
    <2> QED
      BY <1>0, <1>8, <2>1 DEF DueInv, TimedOut
  <1>9. CASE UNCHANGED <<local, payment, visible, due>> /\ job.pc # "check"
    BY <1>0, <1>9 DEF DueInv
  <1> QED
    BY <1>1, <1>2, <1>3, <1>4, <1>5, <1>6, <1>7, <1>8, <1>9, Zenon DEF PaymentStep

LEMMA NextPayments ==
    ASSUME JobsInv, [Next]_vars
    PROVE  PaymentStep
  <1>0. due \in BOOLEAN
    BY DEF JobsInv
  <1>1. CASE Receive
    BY <1>1 DEF Receive, Adopt, PaymentStep
  <1>2. CASE Restart
    BY <1>2 DEF Restart, PaymentStep, bill
  <1>3. CASE PayOnChain
    BY <1>3 DEF PayOnChain, PaymentStep
  <1>4. CASE StartRound
    BY <1>4 DEF StartRound, PaymentStep, bill
  <1>5. ASSUME NEW k \in Kind, Check(k)
        PROVE  PaymentStep
    <2>1. /\ UNCHANGED <<local, visible, due>>
          /\ job.pc = "check" /\ job' = [job EXCEPT !.left = @ \ {k}]
          /\ payment' = Checked(k)
      BY <1>5 DEF Check
    <2> QED
      BY <1>0, <2>1 DEF PaymentStep, CheckStep
  <1>6. ASSUME NEW k \in Kind, CheckFails(k)
        PROVE  PaymentStep
    <2>1. /\ UNCHANGED <<local, visible>>
          /\ job.pc = "check" /\ job' = [job EXCEPT !.left = @ \ {k}]
          /\ payment' \in {payment, Checked(k)}
          /\ due' = (due /\ ~Waiting(k))
      BY <1>6 DEF CheckFails
    <2>2. due' \in BOOLEAN /\ (due' => due) /\ (Waiting(k) => ~due')
      BY <2>1, Zenon
    <2> QED
      BY <2>1, <2>2 DEF PaymentStep, CheckStep
  <1>7. CASE Timeouts \/ TimeoutsFail
    BY <1>7 DEF Timeouts, TimeoutsFail, PaymentStep
  <1>8. CASE InitialDelay \/ CheckMaturity \/ CheckMaturityFails
    BY <1>8 DEF InitialDelay, CheckMaturity, CheckMaturityFails, PaymentStep, bill
  <1>9. ASSUME NEW h \in Handler, ReadBill(h) \/ JudgeBill(h)
        PROVE  PaymentStep
    <2>1. CASE ReadBill(h)
      BY <2>1, ReadsChangeNothing DEF PaymentStep, bill
    <2>2. CASE JudgeBill(h)
      BY <2>2 DEF JudgeBill, ValidateSharedBill, ValidateEndorsedBill,
         ValidateEndorsedBillFails, GetSharedBillHistory, CheckFiles,
         CheckFilesFails, Reply, PaymentStep, bill
    <2> QED
      BY <1>9, <2>1, <2>2
  <1>10. ASSUME NEW h \in Handler, ChangeBill(h)
         PROVE  PaymentStep
    <2>1. CASE CheckBillPayment(h) \/ CheckBillPaymentFails(h)
      <3>1. /\ UNCHANGED <<local, visible, job, due>>
            /\ payment' \in {payment, Checked("payment")}
        BY <2>1 DEF CheckBillPayment, CheckBillPaymentFails
      <3> QED
        BY <3>1 DEF PaymentStep
    <2>2. CASE RequestToPay(h) \/ RequestToPayFails(h)
      BY <2>2 DEF RequestToPay, RequestToPayFails, Adopt, PaymentStep, bill
    <2>3. CASE GetBillKeys(h) \/ GetBillKeysFails(h)
      BY <2>3 DEF GetBillKeys, GetBillKeysFails, PaymentStep, bill
    <2>4. CASE SyncBillChain(h) \/ SyncBillChainFails(h)
      BY <2>4 DEF SyncBillChain, SyncBillChainFails, Adopt, PaymentStep, bill
    <2> QED
      BY <1>10, <2>1, <2>2, <2>3, <2>4 DEF ChangeBill
  <1>11. CASE (\E chain \in Chain : Publish(chain)) \/ Tick
    BY <1>11 DEF Publish, Tick, PaymentStep, bill
  <1>12. CASE UNCHANGED vars
    BY <1>12 DEF vars, bill, PaymentStep
  <1> QED
    BY <1>1, <1>2, <1>3, <1>4, <1>5, <1>6, <1>7, <1>8, <1>9, <1>10, <1>11, <1>12
       DEF Next, Round, JobFails
\* A step changes time and failures within their bounds, and what was reported
\* only with the set of what was reported.
CounterStep ==
    /\ now' = now \/ (now < MaxTime /\ now' = now + 1)
    /\ faults' = faults \/ Fault
    /\ \/ UNCHANGED <<reported, told>>
       \/ reported' = FALSE /\ told' = 0
       \/ reported = FALSE /\ reported' = TRUE /\ told' = told + 1

LEMMA NextCounters ==
    ASSUME JobsInv, [Next]_vars
    PROVE  CounterStep
  <1>0. reported \in BOOLEAN
    BY DEF JobsInv
  <1>1. CASE \/ \E chain \in Chain : Publish(chain)
             \/ Receive \/ PayOnChain \/ Tick \/ Restart
    BY <1>1 DEF Publish, Receive, PayOnChain, Tick, Restart, CounterStep
  <1>2. CASE \/ InitialDelay \/ StartRound \/ Timeouts \/ TimeoutsFail
             \/ CheckMaturityFails \/ \E k \in Kind : Check(k) \/ CheckFails(k)
    BY <1>2 DEF InitialDelay, StartRound, Timeouts, TimeoutsFail, CheckMaturityFails,
       Check, CheckFails, CounterStep
  <1>3. CASE CheckMaturity
    <2>1. \/ UNCHANGED <<reported, told>>
          \/ ~reported /\ reported' = TRUE /\ told' = told + 1
      BY <1>3 DEF CheckMaturity
    <2>2. UNCHANGED <<now, faults>>
      BY <1>3 DEF CheckMaturity
    <2> QED
      BY <1>0, <2>1, <2>2 DEF CounterStep
  <1>4. ASSUME NEW h \in Handler, ReadBill(h)
        PROVE  CounterStep
    <2>1. faults' = faults \/ Fault
      BY <1>4 DEF ReadBill, GetBillsBalanceHistory, GetBills, GetBillDetail,
         GetBillPaymentStatus, GetBillPaymentActions, GetBillAttachment,
         PrepareRequestToPay, GetEncryptedBillFile, ReadFails, Reply
    <2> QED
      BY <1>4, <2>1, ReadsChangeNothing DEF CounterStep
  <1>5. ASSUME NEW h \in Handler, ChangeBill(h)
        PROVE  CounterStep
    BY <1>5 DEF ChangeBill, CheckBillPayment, CheckBillPaymentFails, RequestToPay,
       RequestToPayFails, GetBillKeys, GetBillKeysFails, SyncBillChain,
       SyncBillChainFails, CounterStep
  <1>6. ASSUME NEW h \in Handler, JudgeBill(h)
        PROVE  CounterStep
    BY <1>6 DEF JudgeBill, ValidateSharedBill, ValidateEndorsedBill,
       ValidateEndorsedBillFails, GetSharedBillHistory, CheckFiles,
       CheckFilesFails, Reply, CounterStep
  <1>7. CASE UNCHANGED vars
    BY <1>7 DEF vars, CounterStep
  <1> QED
    BY <1>1, <1>2, <1>3, <1>4, <1>5, <1>6, <1>7 DEF Next, Round, JobFails

LEMMA CounterStepPreserves ==
    ASSUME JobsInv, CounterStep
    PROVE  /\ now' \in 0..MaxTime
           /\ reported' \in BOOLEAN
           /\ faults' \in 0..MaxFaults
           /\ told' = IF reported' THEN 1 ELSE 0
  <1>1. now' \in 0..MaxTime /\ faults' \in 0..MaxFaults
    BY EbillBillsAssumption DEF JobsInv, CounterStep, Fault
  <1>2. CASE UNCHANGED <<reported, told>>
    BY <1>1, <1>2 DEF JobsInv
  <1>3. CASE reported' = FALSE /\ told' = 0
    BY <1>1, <1>3
  <1>4. CASE reported = FALSE /\ reported' = TRUE /\ told' = told + 1
    BY <1>1, <1>4 DEF JobsInv
  <1> QED
    BY <1>2, <1>3, <1>4 DEF CounterStep

LEMMA NextJobs ==
    ASSUME JobsInv, [Next]_vars
    PROVE  JobsInv'
  <1>1. PaymentStep /\ CounterStep
    BY NextPayments, NextCounters
  <1> QED
    BY <1>1, JobSteps, PaymentStepPreserves, CounterStepPreserves DEF JobsInv
-----------------------------------------------------------------------------
(* The theorems *)

LEMMA Initially == Init => Inv
  <1> SUFFICES ASSUME Init PROVE Inv
    OBVIOUS
  <1>1. ChainsInv
    <2>1. nostr = <<>> /\ local = <<>> /\ accepted = {}
      BY DEF Init
    <2>2. Known(<<>>)
      <3>1. <<>> \in Seq(Block)
        BY Constants
      <3> QED
        BY <2>1, <3>1, PublishedKnown DEF Known
    <2> QED
      BY <2>1, <2>2 DEF ChainsInv
  <1>2. RequestsInv
    <2>1. Sound(Idle(0, FALSE))
      BY IdleSound
    <2> QED
      BY <2>1 DEF Init, RequestsInv, Sound
  <1>3. JobsInv
    <2>1. job = [pc |-> "delay", left |-> {}]
      BY DEF Init
    <2>2. /\ job \in [pc : {"delay", "wait", "check", "maturity"}, left : SUBSET Kind]
          /\ job.left = {}
      BY <2>1
    <2>3. 0 \in 0..MaxTime /\ 0 \in 0..MaxFaults
      BY EbillBillsAssumption
    <2> QED
      BY <2>2, <2>3 DEF Init, JobsInv, DueInv
  <1> QED
    BY <1>1, <1>2, <1>3 DEF Inv

LEMMA Inductive == Inv /\ [Next]_vars => Inv'
  <1> SUFFICES ASSUME Inv, [Next]_vars PROVE Inv'
    OBVIOUS
  <1>1. ChainStep /\ RequestStep
    BY NextChains, NextRequests
  <1>2. ChainsInv'
    BY <1>1, ChainStepPreserves DEF Inv
  <1>3. RequestsInv'
    BY <1>1, RequestStepPreserves
  <1>4. JobsInv'
    BY NextJobs DEF Inv
  <1> QED
    BY <1>2, <1>3, <1>4 DEF Inv

LEMMA Invariance == Spec => []Inv
  BY Initially, Inductive, PTL DEF Spec

\* In every reachable state the bill's chains, its request, the jobs and the
\* requests under way have their types, and checks are left only while the
\* round's payment jobs run.
THEOREM TypeCorrect == Spec => []TypeOK
  <1>1. Inv => TypeOK
    <2> SUFFICES ASSUME Inv PROVE TypeOK
      OBVIOUS
    <2>1. told \in Nat
      BY DEF Inv, JobsInv
    <2> QED
      BY <2>1 DEF Inv, ChainsInv, RequestsInv, JobsInv, Operation, TypeOK
  <1> QED
    BY <1>1, Invariance, PTL

\* A request that is answered with 400 or 404 changed nothing, also where a
\* step fails after another took its effect (request_to_pay_bill, error.rs).
THEOREM BlameChangesNothing == Spec => []RefusedMeansUnchanged
  <1>1. Inv => RefusedMeansUnchanged
    BY DEF Inv, RequestsInv, Sound, RefusedMeansUnchanged
  <1> QED
    BY <1>1, Invariance, PTL

\* Whenever two chains that the mint called valid differ, one of them has a
\* request of its own there (validate_and_decrypt_shared_bill,
\* validate_endorsed_bill_matches_shared_bill).
THEOREM JudgementsAgree == Spec => []AcceptedAgree
  <1>1. Inv => AcceptedAgree
    <2> SUFFICES ASSUME Inv, NEW c \in accepted, NEW d \in accepted,
                        NEW i \in DOMAIN c \cap DOMAIN d
                 PROVE  c[i] = d[i] \/ PayRequest \in {c[i], d[i]}
      BY DEF AcceptedAgree
    <2>1. /\ c \in Seq(Block) /\ d \in Seq(Block) /\ nostr \in Seq(Block)
          /\ KnownOn(c, nostr) /\ KnownOn(d, nostr)
      BY Constants DEF Inv, ChainsInv, Known
    <2> QED
      BY <2>1, KnownAgree
  <1> QED
    BY <1>1, Invariance, PTL

\* A request for payment does not expire in a round that began when its payment
\* was visible, unless the job that looks for it failed (run_jobs).
THEOREM ExpiredAfterPayments == Spec => TimeoutsAfterPayments
  <1> DEFINE Expires == payment = "waiting" /\ payment' = "expired"
  <1>1. ASSUME JobsInv, [Next]_vars, Expires
        PROVE  ~due
    <2>1. CASE UNCHANGED payment \/ payment' = "waiting"
      BY <1>1, <2>1
    <2>2. CASE \E k \in Kind : payment' = Checked(k)
      BY <1>1, <2>2 DEF Checked
    <2>3. CASE job.left = {}
      BY <1>1, <2>3 DEF JobsInv, DueInv
    <2>4. \/ UNCHANGED payment \/ payment' = "waiting"
          \/ \E k \in Kind : payment' = Checked(k)
          \/ job.left = {}
      BY <1>1, NextPayments, EbillBillsAssumption DEF PaymentStep, CheckStep
    <2> QED
      BY <2>1, <2>2, <2>3, <2>4
  <1>2. Inv /\ [Next]_vars => [Expires => ~due]_vars
    BY <1>1 DEF Inv
  <1> QED
    BY <1>2, Invariance, PTL DEF Spec, TimeoutsAfterPayments

\* A payment of any kind that was visible when a round began has been found when
\* the round's payment jobs have ended, unless the job that looks for it failed,
\* the chain changed, or the process was restarted (run_jobs).
THEOREM FoundInRound ==
    Spec => [](due /\ (job.pc = "check" => job.left = {}) => payment # "waiting")
  <1>1. ASSUME Inv, due, job.pc = "check" => job.left = {}
        PROVE  payment # "waiting"
    BY <1>1 DEF Inv, JobsInv, DueInv
  <1>2. Inv => (due /\ (job.pc = "check" => job.left = {}) => payment # "waiting")
    BY <1>1
  <1> QED
    BY <1>2, Invariance, PTL

\* Each process reports at most once that the bill is mature, with failures and
\* restarts and whoever holds the bill meanwhile (check_bills_maturity).
THEOREM ReportedAtMostOnce == Spec => [](told <= 1)
  <1>1. Inv => told <= 1
    BY DEF Inv, JobsInv
  <1> QED
    BY <1>1, Invariance, PTL
=============================================================================
