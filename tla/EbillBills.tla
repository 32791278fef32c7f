----------------------------- MODULE EbillBills -----------------------------
(***************************************************************************)
(* The life of one bill in the e-bill service (bcr-wdc-ebill-service): the *)
(* round of jobs that looks for payments, expires requests and reports the *)
(* bill's maturity (job.rs), and the handlers that act on the bill or      *)
(* judge one that was shared with the mint (web.rs), while the bill's      *)
(* chain grows on Nostr.                                                   *)
(*                                                                         *)
(* Chain, payment and time are the e-bill library's and its surroundings': *)
(* of them the model has what this code relies on.  A call into the        *)
(* library is atomic, and one that fails may have had its effect before.   *)
(***************************************************************************)
EXTENDS Integers, FiniteSets, SequencesExt, EbillErrors

CONSTANTS
    Block,        \* the bill's blocks
    Chain,        \* the sequences of blocks that are valid chains
    Holder,       \* Holder[b]: who holds the bill when b is its last block
    Asks,         \* Asks[b]: the kind of payment that b asks for, if any
    PayRequest,   \* the block with which the mint asks to be paid
    Own,          \* this node
    Kind,         \* kinds of payment, with one job each
    BillFiles,    \* the hashes of the bill's files
    Source,       \* Source[u]: what the URL u answers
    MaxFileSize,  \* MAX_DOCUMENT_FILE_SIZE_BYTES
    Shared,       \* shared bills that the mint may be asked about
    Handler,      \* requests that can be under way at once
    Deadline, Maturity, MaxTime,
    MaxFaults     \* bound of failures and restarts

NoLength == -1

ASSUME EbillBillsAssumption ==
    /\ Chain \subseteq Seq(Block) /\ <<>> \notin Chain
    /\ DOMAIN Holder = Block
    /\ DOMAIN Asks \subseteq Block /\ \A b \in DOMAIN Asks : Asks[b] \in Kind
    /\ PayRequest \in DOMAIN Asks /\ Asks[PayRequest] = "payment"
    /\ {"payment", "offer_to_sell", "recourse"} = Kind
    /\ MaxFileSize \in Nat
    /\ \A u \in DOMAIN Source :
           Source[u] \in [https : BOOLEAN, ok : BOOLEAN, sent : Nat,
                          length : Nat \cup {NoLength}, file : BillFiles \cup {"other"},
                          decrypts : BOOLEAN, typed : BOOLEAN]
    /\ \A p \in Shared :
           /\ p.mine \in BOOLEAN /\ p.decrypts \in BOOLEAN
           /\ p.hashed \in BOOLEAN /\ p.plain \in BOOLEAN
           /\ p.chain \in Seq(Block)
           /\ p.signer \in {Holder[b] : b \in Block}
           /\ p.urls \in Seq(DOMAIN Source)
    /\ {Deadline, Maturity, MaxTime, MaxFaults} \subseteq Nat

VARIABLES
    nostr,      \* the bill's chain on Nostr; it only grows
    local,      \* the chain in this node's database
    payment,    \* what became of the request the local chain ends in
    visible,    \* whether a payment of that request can be seen
    now,        \* the time
    job,        \* the jobs' task, and the checks that its round has left
    reported,   \* the task's set: whether the bill was reported as matured
    op,         \* op[h]: the request h is handling, or its last answer
    faults,     \* failures and restarts so far
    \* History variables, which the code does not have:
    told,       \* how often this process reported that the bill is mature
    due,        \* a payment was visible when the round began, and its check worked
    accepted    \* chains of shared bills that were called valid

bill == <<local, payment, visible>>
vars == <<nostr, bill, now, job, reported, op, faults, told, due, accepted>>

Idle(status, effect) == [pc |-> "idle", status |-> status, effect |-> effect, ask |-> {}]

TypeOK ==
    /\ nostr \in Chain \cup {<<>>}
    /\ local \in Chain \cup {<<>>}
    /\ payment \in {"waiting", "paid", "expired"}
    /\ visible \in BOOLEAN
    /\ now \in 0..MaxTime
    /\ job \in [pc : {"delay", "wait", "check", "maturity"}, left : SUBSET Kind]
    /\ job.left # {} => job.pc = "check"
    /\ reported \in BOOLEAN
    /\ op \in [Handler -> [pc : {"idle", "keys", "files"}, effect : BOOLEAN,
                           status : {0, OK, BadRequest, NotFound, InternalError},
                           ask : {{}} \cup {{p} : p \in Shared}]]
    /\ faults \in 0..MaxFaults
    /\ told \in Nat
    /\ due \in BOOLEAN
    /\ accepted \subseteq Chain

Init ==
    /\ nostr = <<>>
    /\ local = <<>>
    /\ payment = "waiting"
    /\ visible = FALSE
    /\ now = 0
    /\ job = [pc |-> "delay", left |-> {}]
    /\ reported = FALSE
    /\ op = [h \in Handler |-> Idle(0, FALSE)]
    /\ faults = 0
    /\ told = 0
    /\ due = FALSE
    /\ accepted = {}

Fault == faults < MaxFaults /\ faults' = faults + 1

\* The kind of payment that the local chain ends in asking for, as a set.
Asked == IF local = <<>> THEN {}
         ELSE {Asks[b] : b \in {Last(local)} \cap DOMAIN Asks}

Held == local # <<>> /\ Holder[Last(local)] = Own
Waiting(k) == k \in Asked /\ payment = "waiting"

\* Blocks are added to the local chain; a new request starts unpaid.
Adopt(chain) ==
    /\ local' = chain
    /\ payment' = "waiting"
    /\ visible' = FALSE
    /\ due' = FALSE
-----------------------------------------------------------------------------
(* The surroundings *)

\* A block of the bill is published on Nostr.  The mint's own request appears
\* there after it is in the local chain, unless another block came before it.
Publish(chain) ==
    /\ IsStrictPrefix(nostr, chain)
    /\ Len(chain) = Len(nostr) + 1
    /\ Last(chain) = PayRequest => IsPrefix(chain, local)
    /\ nostr' = chain
    /\ UNCHANGED <<bill, now, job, reported, op, faults, told, due, accepted>>

\* The consumer brings the local chain up to date.  Where it departs from
\* Nostr, the library may give it up.
Receive ==
    /\ ~IsPrefix(nostr, local)
    /\ Adopt(nostr)
    /\ UNCHANGED <<nostr, now, job, reported, op, faults, told, accepted>>

PayOnChain ==
    /\ \E k \in Kind : Waiting(k)
    /\ ~visible
    /\ visible' = TRUE
    /\ UNCHANGED <<nostr, local, payment, now, job, reported, op, faults, told, due, accepted>>

Tick ==
    /\ now < MaxTime
    /\ now' = now + 1
    /\ UNCHANGED <<nostr, bill, job, reported, op, faults, told, due, accepted>>

\* The process is restarted; what it had in memory is gone.
Restart ==
    /\ Fault
    /\ job' = [pc |-> "delay", left |-> {}]
    /\ reported' = FALSE
    /\ op' = [h \in Handler |-> Idle(0, FALSE)]
    /\ told' = 0
    /\ due' = FALSE
    /\ UNCHANGED <<nostr, bill, now, accepted>>
-----------------------------------------------------------------------------
(* The jobs *)

Goto(label) == job' = [job EXCEPT !.pc = label]

InitialDelay ==
    /\ job.pc = "delay"
    /\ Goto("wait")
    /\ UNCHANGED <<nostr, bill, now, reported, op, faults, told, due, accepted>>

\* The interval ticks: the payment jobs start together.
StartRound ==
    /\ job.pc = "wait"
    /\ job' = [pc |-> "check", left |-> Kind]
    /\ due' = (visible /\ \E k \in Kind : Waiting(k))
    /\ UNCHANGED <<nostr, bill, now, reported, op, faults, told, accepted>>

\* What becomes of the request when it is looked at for payments of kind k, and
\* when deadlines are.
Checked(k) == IF visible /\ Waiting(k) THEN "paid" ELSE payment
TimedOut == IF now > Deadline /\ (\E k \in Kind : Waiting(k)) THEN "expired" ELSE payment

\* (mutant) The recourse job looks for ordinary payments as well as the first
\* job does, and nothing looks for payments of recourse.
CheckWrongKind(k) ==
    /\ job.pc = "check"
    /\ k \in job.left
    /\ job' = [job EXCEPT !.left = @ \ {k}]
    /\ payment' = Checked(IF k = "recourse" THEN "payment" ELSE k)
    /\ UNCHANGED <<nostr, local, visible, now, reported, op, faults, told, due, accepted>>

\* A payment job finds what is paid.
Check(k) ==
    /\ job.pc = "check"
    /\ k \in job.left
    /\ job' = [job EXCEPT !.left = @ \ {k}]
    /\ payment' = Checked(k)
    /\ UNCHANGED <<nostr, local, visible, now, reported, op, faults, told, due, accepted>>

\* A payment job fails, which is logged only.
CheckFails(k) ==
    /\ job.pc = "check"
    /\ k \in job.left
    /\ Fault
    /\ job' = [job EXCEPT !.left = @ \ {k}]
    /\ payment' \in {payment, Checked(k)}
    /\ due' = (due /\ ~Waiting(k))
    /\ UNCHANGED <<nostr, local, visible, now, reported, op, told, accepted>>

\* (mutant) The timeout job is joined with the payment jobs.
TimeoutsJoined ==
    /\ job.pc = "check"
    /\ payment' = TimedOut
    /\ job' = IF job.left = {} THEN [job EXCEPT !.pc = "maturity"] ELSE job
    /\ UNCHANGED <<nostr, local, visible, now, reported, op, faults, told, due, accepted>>

\* (mutant) The payment jobs are spawned and not waited for.
TimeoutsUnawaited ==
    /\ job.pc = "check"
    /\ payment' = TimedOut
    /\ Goto("maturity")
    /\ UNCHANGED <<nostr, local, visible, now, reported, op, faults, told, due, accepted>>

\* All payment jobs have ended: requests whose deadline has passed expire.
Timeouts ==
    /\ job.pc = "check" /\ job.left = {}
    /\ payment' = TimedOut
    /\ Goto("maturity")
    /\ UNCHANGED <<nostr, local, visible, now, reported, op, faults, told, due, accepted>>

TimeoutsFail ==
    /\ job.pc = "check" /\ job.left = {}
    /\ Fault
    /\ payment' \in {payment, TimedOut}
    /\ Goto("maturity")
    /\ UNCHANGED <<nostr, local, visible, now, reported, op, told, due, accepted>>

\* (mutant) The bill is marked before it is known to be held and mature.
CheckMaturityMarksFirst ==
    /\ job.pc = "maturity"
    /\ IF local # <<>> /\ ~reported
       THEN reported' = TRUE /\ told' = IF Held /\ Maturity <= now THEN told + 1 ELSE told
       ELSE UNCHANGED <<reported, told>>
    /\ Goto("wait")
    /\ UNCHANGED <<nostr, bill, now, op, faults, due, accepted>>

\* The bill is reported if this node holds it, it is mature, and it was not
\* reported before.
CheckMaturity ==
    /\ job.pc = "maturity"
    /\ IF Held /\ Maturity <= now /\ ~reported
       THEN reported' = TRUE /\ told' = told + 1
       ELSE UNCHANGED <<reported, told>>
    /\ Goto("wait")
    /\ UNCHANGED <<nostr, bill, now, op, faults, due, accepted>>

CheckMaturityFails ==
    /\ job.pc = "maturity"
    /\ Fault
    /\ Goto("wait")
    /\ UNCHANGED <<nostr, bill, now, reported, op, told, due, accepted>>

Round ==
    \/ InitialDelay \/ StartRound
    \/ \E k \in Kind : Check(k)
    \/ Timeouts \/ CheckMaturity

JobFails == (\E k \in Kind : CheckFails(k)) \/ TimeoutsFail \/ CheckMaturityFails
-----------------------------------------------------------------------------
(* The handlers *)

Serves(h) == op[h].pc = "idle"
Answer(h, status, effect) == op' = [op EXCEPT ![h] = Idle(status, effect)]
Continue(h, label, effect, ask) ==
    op' = [op EXCEPT ![h] = [pc |-> label, status |-> 0, effect |-> effect, ask |-> ask]]

\* A request that changes nothing is answered.
Reply(h, status) ==
    /\ Serves(h)
    /\ Answer(h, status, FALSE)
    /\ UNCHANGED <<nostr, bill, now, job, reported, faults, told, due, accepted>>

IfKnown(status) == IF local = <<>> THEN BillServiceStatus("NotFound") ELSE status

GetBillsBalanceHistory(h) == Reply(h, OK)
GetBills(h) == Reply(h, OK)

\* get_bill_detail and get_bill_history.
GetBillDetail(h) == Reply(h, IfKnown(OK))

\* get_bill_payment_status and get_bill_endorsements.
GetBillPaymentStatus(h) == Reply(h, IfKnown(OK))

GetBillPaymentActions(h) == Reply(h, IfKnown(OK))

\* The file may not be on the bill, its bytes may not be readable, and their
\* type may not be recognised.
GetBillAttachment(h) ==
    \E status \in {BillServiceStatus("NotFound"), ServiceStatus("NotFound"),
                   ValidationStatus, OK} :
        Reply(h, IfKnown(status))

PrepareRequestToPay(h) == Reply(h, IfKnown(OK))

\* Reading the identity or the bill fails before a request did anything.
ReadFails(h) ==
    /\ Serves(h)
    /\ Fault
    /\ Answer(h, ServiceStatus("Persistence"), FALSE)
    /\ UNCHANGED <<nostr, bill, now, job, reported, told, due, accepted>>

\* check_bill_payment: the payment job for this bill alone.
CheckBillPayment(h) ==
    /\ Serves(h)
    /\ payment' = Checked("payment")
    /\ Answer(h, IfKnown(OK), payment' # payment)
    /\ UNCHANGED <<nostr, local, visible, now, job, reported, faults, told, due, accepted>>

CheckBillPaymentFails(h) ==
    /\ Serves(h)
    /\ Fault
    /\ payment' \in {payment, Checked("payment")}
    /\ Answer(h, BillServiceStatus("Persistence"), payment' # payment)
    /\ UNCHANGED <<nostr, local, visible, now, job, reported, told, due, accepted>>

\* The library lets the holder ask to be paid if that makes a valid chain.
MayRequest == Held /\ Append(local, PayRequest) \in Chain

RequestToPay(h) ==
    /\ Serves(h)
    /\ \/ /\ MayRequest
          /\ Adopt(Append(local, PayRequest))
          /\ Continue(h, "keys", TRUE, {})
       \/ /\ ~MayRequest
          /\ Answer(h, IfKnown(ValidationStatus), FALSE)
          /\ UNCHANGED <<bill, due>>
    /\ UNCHANGED <<nostr, now, job, reported, faults, told, accepted>>

\* The action fails, before or after the block was stored.
RequestToPayFails(h) ==
    /\ Serves(h)
    /\ MayRequest
    /\ Fault
    /\ \/ Adopt(Append(local, PayRequest)) /\ Answer(h, BillServiceStatus("Notification"), TRUE)
       \/ UNCHANGED <<bill, due>> /\ Answer(h, BillServiceStatus("Persistence"), FALSE)
    /\ UNCHANGED <<nostr, now, job, reported, told, accepted>>

\* After the action its answer needs the bill's keys.
GetBillKeys(h) ==
    /\ op[h].pc = "keys"
    /\ Answer(h, OK, TRUE)
    /\ UNCHANGED <<nostr, bill, now, job, reported, faults, told, due, accepted>>

GetBillKeysFails(h) ==
    /\ op[h].pc = "keys"
    /\ Fault
    /\ Answer(h, BillServiceStatus("Persistence"), TRUE)
    /\ UNCHANGED <<nostr, bill, now, job, reported, told, due, accepted>>

\* resync_bill_chain; a bill that is not known here may be found or not, and a
\* local chain that departs from Nostr may be given up or not.  Whatever the
\* transport does not find is an error of the transport.
SyncBillChain(h) ==
    /\ Serves(h)
    /\ \/ /\ ~IsPrefix(nostr, local)
          /\ Adopt(nostr)
          /\ Answer(h, OK, TRUE)
       \/ /\ ~IsStrictPrefix(local, nostr) \/ local = <<>>
          /\ Answer(h, IF local = <<>> THEN ServiceStatus("TransportService") ELSE OK, FALSE)
          /\ UNCHANGED <<bill, due>>
    /\ UNCHANGED <<nostr, now, job, reported, faults, told, accepted>>

SyncBillChainFails(h) ==
    /\ Serves(h)
    /\ Fault
    /\ ~IsPrefix(nostr, local)
    /\ Adopt(nostr)
    /\ Answer(h, ServiceStatus("TransportService"), TRUE)
    /\ UNCHANGED <<nostr, now, job, reported, told, accepted>>
-----------------------------------------------------------------------------
(* Shared bills *)

\* What downloading a file comes to.  Content-Length must be there, and both it
\* and the bytes that come are limited.
FetchStatus(u) ==
    LET s == Source[u] IN
    CASE ~s.https \/ ~s.ok -> WebStatus("FileDownload")
      [] s.length = NoLength \/ s.length > MaxFileSize -> WebStatus("FileDownload")
      [] s.sent > MaxFileSize \/ ~s.decrypts -> WebStatus("FileDownload")
      [] ~s.typed -> ValidationStatus
      [] OTHER -> OK

GetEncryptedBillFile(h) == \E u \in DOMAIN Source : Reply(h, FetchStatus(u))

\* (mutant) The blocks are not looked for on Nostr.
GenuineOffNostr(p) ==
    /\ p.mine /\ p.decrypts /\ p.hashed
    /\ p.chain \in Chain
    /\ p.plain
    /\ p.signer = Holder[Last(p.chain)]

\* The checks before the files: receiver, data and hash, chain, the same
\* blocks on Nostr, plaintexts, and the signature of the holder.
Genuine(p) ==
    /\ p.mine /\ p.decrypts /\ p.hashed
    /\ p.chain \in Chain
    /\ IsPrefix(p.chain, nostr)
    /\ p.plain
    /\ p.signer = Holder[Last(p.chain)]

\* validate_and_decrypt_shared_bill, up to the files.
ValidateSharedBill(h, p) ==
    /\ Serves(h)
    /\ \/ /\ Genuine(p)
          /\ Continue(h, "files", FALSE, {p})
       \/ ~Genuine(p) /\ Answer(h, WebStatus("SharedBill"), FALSE)
    /\ UNCHANGED <<nostr, bill, now, job, reported, faults, told, due, accepted>>

\* As many files as the bill has, and each of them one of the bill's.
FilesMatch(urls) ==
    /\ Len(urls) = Cardinality(BillFiles)
    /\ \A i \in DOMAIN urls : Source[urls[i]].file \in BillFiles

\* What checking the files comes to, if there are any: the first that cannot be
\* downloaded ends it.
FilesStatus(urls) ==
    LET bad == {i \in DOMAIN urls : FetchStatus(urls[i]) # OK} IN
    CASE bad # {} -> FetchStatus(urls[Min(bad)])
      [] urls = <<>> \/ FilesMatch(urls) -> OK
      [] OTHER -> WebStatus("SharedBill")

CheckFiles(h) ==
    /\ op[h].pc = "files"
    /\ \E p \in op[h].ask :
           /\ Answer(h, FilesStatus(p.urls), FALSE)
           /\ accepted' = IF FilesStatus(p.urls) = OK THEN accepted \cup {p.chain} ELSE accepted
    /\ UNCHANGED <<nostr, bill, now, job, reported, faults, told, due>>

CheckFilesFails(h) ==
    /\ op[h].pc = "files"
    /\ Fault
    /\ Answer(h, WebStatus("FileDownload"), FALSE)
    /\ UNCHANGED <<nostr, bill, now, job, reported, told, due, accepted>>

\* validate_endorsed_bill_matches_shared_bill: only the local chain counts.
ValidateEndorsedBill(h, p) ==
    /\ Serves(h)
    /\ \/ /\ p.decrypts /\ p.chain \in Chain /\ IsPrefix(p.chain, local)
          /\ Answer(h, OK, FALSE)
          /\ accepted' = accepted \cup {p.chain}
       \/ /\ ~(p.decrypts /\ p.chain \in Chain /\ IsPrefix(p.chain, local))
          /\ Answer(h, WebStatus("SharedBill"), FALSE)
          /\ accepted' = accepted
    /\ UNCHANGED <<nostr, bill, now, job, reported, faults, told, due>>

\* A local chain that cannot be read counts as one that differs.
ValidateEndorsedBillFails(h, p) ==
    /\ Serves(h)
    /\ p.decrypts /\ p.chain \in Chain
    /\ Fault
    /\ Answer(h, WebStatus("SharedBill"), FALSE)
    /\ UNCHANGED <<nostr, bill, now, job, reported, told, due, accepted>>

GetSharedBillHistory(h, p) ==
    Reply(h, IF p.decrypts /\ p.chain \in Chain THEN OK ELSE WebStatus("SharedBillData"))

ReadBill(h) ==
    \/ GetBillsBalanceHistory(h) \/ GetBills(h) \/ GetBillDetail(h) \/ GetBillPaymentStatus(h)
    \/ GetBillPaymentActions(h) \/ GetBillAttachment(h) \/ PrepareRequestToPay(h)
    \/ GetEncryptedBillFile(h) \/ ReadFails(h)

ChangeBill(h) ==
    \/ CheckBillPayment(h) \/ CheckBillPaymentFails(h)
    \/ RequestToPay(h) \/ RequestToPayFails(h)
    \/ GetBillKeys(h) \/ GetBillKeysFails(h)
    \/ SyncBillChain(h) \/ SyncBillChainFails(h)

JudgeBill(h) ==
    \/ \E p \in Shared : \/ ValidateSharedBill(h, p) \/ ValidateEndorsedBill(h, p)
                         \/ ValidateEndorsedBillFails(h, p) \/ GetSharedBillHistory(h, p)
    \/ CheckFiles(h) \/ CheckFilesFails(h)
-----------------------------------------------------------------------------
Next ==
    \/ \E chain \in Chain : Publish(chain)
    \/ Receive \/ PayOnChain \/ Tick \/ Restart
    \/ Round \/ JobFails
    \/ \E h \in Handler : ReadBill(h) \/ ChangeBill(h) \/ JudgeBill(h)

\* The runtime polls the jobs' task, and its timers fire.
Spec == Init /\ [][Next]_vars /\ WF_vars(Round)
-----------------------------------------------------------------------------
\* "We want to run this job after all payment jobs are done": a request is not
\* expired in a round that began with its payment visible, unless the job that
\* looks for it failed, whatever requests change meanwhile (run_jobs).
TimeoutsAfterPayments ==
    [][(payment = "waiting" /\ payment' = "expired") => ~due]_vars

\* Whatever kind of payment was asked for, one that is visible does not stay
\* unnoticed: some job finds it, unless its request expires or is followed by
\* another, and failed jobs and restarts only delay that (run, run_jobs).
PaymentsSettle ==
    (visible /\ payment = "waiting") ~> (payment # "waiting" \/ ~visible)

\* A bill that matures in the hands of this node is reported, and only once, by
\* each process that lives long enough: also if it came here after it was
\* mature, and if reading it failed (check_bills_maturity).
MaturedReported ==
    /\ [](told <= 1)
    /\ (Held /\ Maturity <= now) ~> (told = 1 \/ ~Held)

\* An answer that blames the request, 400 or 404, means that it changed nothing,
\* so that a client may correct and repeat it; also when a step fails after
\* another took its effect (request_to_pay_bill, error.rs).
RefusedMeansUnchanged ==
    \A h \in Handler : op[h].status \in {BadRequest, NotFound} => ~op[h].effect

\* The mint judges shared bills one time by Nostr and another time by its own
\* chain, at different times and with downloads in between.  Where two versions
\* that it called valid differ, one of them has a request of its own that had
\* not reached Nostr (validate_and_decrypt_shared_bill,
\* validate_endorsed_bill_matches_shared_bill).
AcceptedAgree ==
    \A c, d \in accepted : \A i \in DOMAIN c \cap DOMAIN d :
        c[i] = d[i] \/ PayRequest \in {c[i], d[i]}
=============================================================================
