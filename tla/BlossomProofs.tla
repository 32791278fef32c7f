--------------------------- MODULE BlossomProofs ----------------------------
(***************************************************************************)
(* Proofs about the relay's file store, for any number of requests, blobs  *)
(* and failures and any limit.  The table and the descriptors alone are    *)
(* not enough for an induction: whether an insert is sound depends on what *)
(* its request did before, so the invariant says of every request what its *)
(* local variables hold at each of its labels (Sound).                     *)
(***************************************************************************)
EXTENDS Blossom, TLAPS

\* The blobs the store takes.
Acceptable == {b \in Blob : Size[b] <= MaxFileSize /\ LooksEncrypted(b, Size[b])}

\* A request that downloads knows the digest it wants and from whom; one that
\* is about to insert holds all of an acceptable blob.
Sound(o) ==
    /\ o \in Operation
    /\ o.got <= MaxFileSize
    /\ o.pc \in {"lookup", "fetch", "stream"} => o.want \in Blob
    /\ o.pc = "stream" => o.src \in Blob
    /\ o.pc # "idle" => o.status = 0
    /\ o.pc = "store" => o.src \in Acceptable /\ o.got = Size[o.src]

RequestsSound == op \in [Handler -> Operation] /\ \A h \in Handler : Sound(op[h])

\* Whoever was given a descriptor was given one of a row.
PromisesKept ==
    \A desc \in given : /\ desc.sha256 \in DOMAIN files
                        /\ desc = [sha256 |-> desc.sha256, size |-> Size[desc.sha256]]

Rows == DOMAIN files \subseteq Acceptable /\
        files = [d \in DOMAIN files |-> [bytes |-> <<d, Size[d]>>, size |-> Size[d]]]

Inv == /\ RequestsSound
       /\ Rows
       /\ given \subseteq [sha256 : Blob, size : Nat]
       /\ PromisesKept
       /\ faults \in 0..MaxFaults
-----------------------------------------------------------------------------
(* What a step does, in three parts *)

\* A request changes its own record only.
Moves == \/ op' = op
         \/ op' = [h \in Handler |-> Idle(0)]
         \/ \E h \in Handler : \E x : Sound(x) /\ op' = [op EXCEPT ![h] = x]

\* At most an acceptable blob is stored, and at most a stored one promised.
Keeps(b) == \/ files' = files
            \/ b \in Acceptable /\ files' = Inserted(b, Size[b])
Promises(b) == \/ given' = given
               \/ /\ b \in DOMAIN files'
                  /\ given' = given \cup {[sha256 |-> b, size |-> Size[b]]}
Stores == \/ UNCHANGED <<files, given>>
          \/ \E b \in Blob : Keeps(b) /\ Promises(b)

Counts == faults' = faults \/ Fault

\* An internal error is answered only together with a database failure.
ErrorStep ==
    \A h \in Handler :
        (op[h].status # InternalError /\ op'[h].status = InternalError)
            => faults' = faults + 1

Summary == Moves /\ Stores /\ Counts /\ ErrorStep

LEMMA IdleSound ==
    ASSUME NEW s \in Status
    PROVE  Sound(Idle(s)) /\ Idle(s).status = s
  <1>1. 0 <= MaxFileSize /\ 0 \in Nat
    BY BlossomAssumption
  <1> QED
    BY <1>1 DEF Sound, Idle, Operation

\* A request that replaces its record by a sound one.
LEMMA ChangeMoves ==
    ASSUME RequestsSound, NEW h \in Handler, NEW x, Sound(x),
           op' = [op EXCEPT ![h] = x],
           x.status # InternalError \/ Fault
    PROVE  Moves /\ ErrorStep
  <1>1. Moves
    BY DEF Moves
  <1>2. ASSUME NEW k \in Handler,
               op[k].status # InternalError, op'[k].status = InternalError
        PROVE  faults' = faults + 1
    BY <1>2 DEF RequestsSound, Fault
  <1> QED
    BY <1>1, <1>2 DEF ErrorStep

LEMMA AnswerMoves ==
    ASSUME RequestsSound, NEW h \in Handler, NEW s \in Status, Answer(h, s),
           s # InternalError \/ Fault
    PROVE  Moves /\ ErrorStep
  <1>1. Sound(Idle(s)) /\ Idle(s).status = s
    BY IdleSound
  <1>2. op' = [op EXCEPT ![h] = Idle(s)]
    BY DEF Answer
  <1> QED
    BY <1>1, <1>2, ChangeMoves

\* A request that changes only its own record, and fails only if the database
\* did.
LEMMA OwnRecordSummary ==
    ASSUME Inv, NEW h \in Handler, NEW x, Sound(x),
           op' = [op EXCEPT ![h] = x], UNCHANGED <<files, given>>,
           \/ UNCHANGED faults /\ x.status # InternalError
           \/ Fault
    PROVE  Summary
  <1>1. Moves /\ ErrorStep
    BY ChangeMoves DEF Inv
  <1>2. Stores /\ Counts
    BY DEF Stores, Counts
  <1> QED
    BY <1>1, <1>2 DEF Summary

LEMMA AnswerSummary ==
    ASSUME Inv, NEW h \in Handler, NEW s \in Status,
           Answer(h, s), UNCHANGED <<files, given>>,
           \/ UNCHANGED faults /\ s # InternalError
           \/ Fault
    PROVE  Summary
  <1>1. Sound(Idle(s)) /\ Idle(s).status = s
    BY IdleSound
  <1>2. op' = [op EXCEPT ![h] = Idle(s)]
    BY DEF Answer
  <1> QED
    BY <1>1, <1>2, OwnRecordSummary
-----------------------------------------------------------------------------
(* The steps *)

LEMMA StatusValues ==
    /\ {0, OK, BadRequest, Unauthorized, NotFound, TooLarge, InternalError,
        NotImplemented} = Status
    /\ \A s \in {0, OK, BadRequest, Unauthorized, NotFound, TooLarge,
                 NotImplemented} : s # InternalError
  BY DEF Status, OK, BadRequest, Unauthorized, NotFound, TooLarge,
         InternalError, NotImplemented

LEMMA ReadSteps ==
    ASSUME Inv, NEW h \in Handler, NEW b \in Blob,
           \/ GetBlob(h, b) \/ HeadBlob(h, b) \/ Preflight(h, Size[b])
           \/ PreflightMalformed(h) \/ Unimplemented(h)
    PROVE  Summary
  <1>1. PICK s \in Status : Reply(h, s) /\ s # InternalError
    <2>1. CASE GetBlob(h, b)
      BY <2>1, StatusValues DEF GetBlob, GetFile
    <2>2. CASE HeadBlob(h, b)
      BY <2>2, StatusValues DEF HeadBlob, GetFileHead
    <2>3. CASE Preflight(h, Size[b])
      BY <2>3, StatusValues DEF Preflight, UploadHead
    <2>4. CASE PreflightMalformed(h) \/ Unimplemented(h)
      BY <2>4, StatusValues DEF PreflightMalformed, Unimplemented
    <2> QED
      BY <2>1, <2>2, <2>3, <2>4
  <1> QED
    BY <1>1, AnswerSummary DEF Reply

LEMMA SizesAreNaturals ==
    ASSUME NEW b \in Blob
    PROVE  Size[b] \in Nat
  BY BlossomAssumption

LEMMA UploadStep ==
    ASSUME Inv, NEW h \in Handler, NEW b \in Blob, Upload(h, b)
    PROVE  Summary
  <1> DEFINE x == [pc |-> "store", want |-> b, src |-> b, known |-> TRUE,
                   got |-> Size[b], status |-> 0]
  <1>1. CASE UploadVerdict(b) = OK
    <2>1. b \in Acceptable
      BY <1>1, StatusValues, SizesAreNaturals, BlossomAssumption
         DEF UploadVerdict, Acceptable, OK, TooLarge, BadRequest
    <2>2. Sound(x) /\ x.status # InternalError
      BY <2>1, StatusValues, SizesAreNaturals
         DEF Sound, Operation, Acceptable
    <2>3. op' = [op EXCEPT ![h] = x] /\ UNCHANGED <<files, given, faults>>
      BY <1>1 DEF Upload
    <2> HIDE DEF x
    <2> QED
      BY <2>2, <2>3, OwnRecordSummary
  <1>2. CASE UploadVerdict(b) # OK
    <2>1. UploadVerdict(b) \in Status /\ UploadVerdict(b) # InternalError
      BY StatusValues DEF UploadVerdict
    <2>2. Answer(h, UploadVerdict(b)) /\ UNCHANGED <<files, given, faults>>
      BY <1>2 DEF Upload
    <2> QED
      BY <2>1, <2>2, AnswerSummary
  <1> QED
    BY <1>1, <1>2

LEMMA MirrorStep ==
    ASSUME Inv, NEW h \in Handler, NEW r \in MirrorRequest, Mirror(h, r)
    PROVE  Summary
  <1> DEFINE x == [Idle(0) EXCEPT !.pc = "lookup", !.want = r.x]
  <1>1. CASE MirrorVerdict(r) = OK
    <2>1. r.x \in Blob
      <3>1. r.x # NoBlob
        BY <1>1 DEF MirrorVerdict, OK, BadRequest, Unauthorized
      <3>2. r.x \in Blob \cup {NoBlob}
        BY DEF MirrorRequest
      <3> QED
        BY <3>1, <3>2
    <2>3. Sound(Idle(0))
      BY StatusValues, IdleSound
    <2>4. Sound(x) /\ x.status # InternalError
      <3>1. /\ x.pc = "lookup" /\ x.want = r.x /\ x.src = NoBlob
            /\ x.got = 0 /\ x.status = 0
        BY DEF Idle
      <3>2. x \in Operation
        BY <2>1, <2>3 DEF Sound, Operation
      <3>3. 0 <= MaxFileSize /\ 0 # InternalError
        BY BlossomAssumption DEF InternalError
      <3> HIDE DEF x
      <3> QED
        BY <2>1, <3>1, <3>2, <3>3 DEF Sound
    <2>5. op' = [op EXCEPT ![h] = x] /\ UNCHANGED <<files, given, faults>>
      BY <1>1 DEF Mirror
    <2> HIDE DEF x
    <2> QED
      BY <2>4, <2>5, OwnRecordSummary
  <1>2. CASE MirrorVerdict(r) # OK
    <2>1. MirrorVerdict(r) \in Status /\ MirrorVerdict(r) # InternalError
      BY StatusValues DEF MirrorVerdict
    <2>2. Answer(h, MirrorVerdict(r)) /\ UNCHANGED <<files, given, faults>>
      BY <1>2 DEF Mirror
    <2> QED
      BY <2>1, <2>2, AnswerSummary
  <1> QED
    BY <1>1, <1>2

\* Steps that end a request and leave the table alone.
LEMMA EndSteps ==
    ASSUME Inv, NEW h \in Handler,
           \/ GetBlobFails(h) \/ LookupFails(h) \/ FetchFails(h)
           \/ BreaksOff(h) \/ TimesOut(h)
    PROVE  Summary
  <1>1. CASE GetBlobFails(h) \/ LookupFails(h)
    BY <1>1, StatusValues, AnswerSummary DEF GetBlobFails, LookupFails
  <1>2. CASE FetchFails(h) \/ BreaksOff(h) \/ TimesOut(h)
    BY <1>2, StatusValues, AnswerSummary DEF FetchFails, BreaksOff, TimesOut
  <1> QED
    BY <1>1, <1>2

\* A request under way that only changes its record.
LEMMA BusySteps ==
    ASSUME Inv, NEW h \in Handler, op[h].pc # "idle", NEW x, Sound(x),
           x.status = op[h].status, op' = [op EXCEPT ![h] = x],
           UNCHANGED <<files, given, faults>>
    PROVE  Summary
  <1>1. op[h].status = 0
    BY DEF Inv, RequestsSound, Sound
  <1>2. x.status # InternalError
    BY <1>1 DEF InternalError
  <1> QED
    BY <1>2, OwnRecordSummary

LEMMA MissingStep ==
    ASSUME Inv, NEW h \in Handler, Missing(h)
    PROVE  Summary
  <1> DEFINE x == [op[h] EXCEPT !.pc = "fetch"]
  <1>1. Sound(op[h]) /\ op[h].pc = "lookup"
    BY DEF Inv, RequestsSound, Missing
  <1>2. Sound(x) /\ x.status = op[h].status
    BY <1>1 DEF Sound, Operation
  <1>3. op' = [op EXCEPT ![h] = x] /\ UNCHANGED <<files, given, faults>>
    BY DEF Missing, Continue, Inv, RequestsSound
  <1> HIDE DEF x
  <1> QED
    BY <1>1, <1>2, <1>3, BusySteps

LEMMA FetchStep ==
    ASSUME Inv, NEW h \in Handler, NEW b \in Blob, NEW known \in BOOLEAN,
           Fetch(h, b, known)
    PROVE  Summary
  <1> DEFINE x == [op[h] EXCEPT !.pc = "stream", !.src = b, !.known = known]
  <1>1. CASE known /\ Size[b] > MaxFileSize
    BY <1>1, StatusValues, AnswerSummary DEF Fetch
  <1>2. CASE ~(known /\ Size[b] > MaxFileSize)
    <2>1. Sound(op[h]) /\ op[h].pc = "fetch"
      BY DEF Inv, RequestsSound, Fetch
    <2>2. Sound(x) /\ x.status = op[h].status
      BY <2>1 DEF Sound, Operation
    <2>3. op' = [op EXCEPT ![h] = x] /\ UNCHANGED <<files, given, faults>>
      BY <1>2 DEF Fetch, Inv, RequestsSound
    <2> HIDE DEF x
    <2> QED
      BY <2>1, <2>2, <2>3, BusySteps
  <1> QED
    BY <1>1, <1>2

LEMMA ChunkStep ==
    ASSUME Inv, NEW h \in Handler, NEW n \in Nat, Chunk(h, n)
    PROVE  Summary
  <1> DEFINE x == [op[h] EXCEPT !.got = n]
  <1>1. CASE n > MaxFileSize
    BY <1>1, StatusValues, AnswerSummary DEF Chunk
  <1>2. CASE ~(n > MaxFileSize)
    <2>1. Sound(op[h]) /\ op[h].pc = "stream"
      BY DEF Inv, RequestsSound, Chunk
    <2>2. Sound(x) /\ x.status = op[h].status
      BY <1>2, <2>1, BlossomAssumption DEF Sound, Operation
    <2>3. op' = [op EXCEPT ![h] = x] /\ UNCHANGED <<files, given, faults>>
      BY <1>2 DEF Chunk, Inv, RequestsSound
    <2> HIDE DEF x
    <2> QED
      BY <2>1, <2>2, <2>3, BusySteps
  <1> QED
    BY <1>1, <1>2

\* A download is stored only if it is complete, the blob asked for, and
\* encrypted.
LEMMA BodyEndsStep ==
    ASSUME Inv, NEW h \in Handler, BodyEnds(h)
    PROVE  Summary
  <1> DEFINE x == [op[h] EXCEPT !.pc = "store"]
  <1>1. Sound(op[h]) /\ op[h].pc = "stream"
    BY DEF Inv, RequestsSound, BodyEnds
  <1>2. CASE BodyAccepted(h)
    <2>1. op[h].src \in Blob /\ op[h].want \in Blob /\ op[h].got <= MaxFileSize
      BY <1>1 DEF Sound
    <2>2. op[h].got = Size[op[h].src]
      BY <1>2, <2>1, BlossomAssumption DEF BodyAccepted, Digest
    <2>3. op[h].src \in Acceptable
      BY <1>2, <2>1, <2>2 DEF BodyAccepted, Acceptable
    <2>4. Sound(x) /\ x.status = op[h].status
      BY <1>1, <2>2, <2>3 DEF Sound, Operation
    <2>5. op' = [op EXCEPT ![h] = x] /\ UNCHANGED <<files, given, faults>>
      BY <1>2 DEF BodyEnds, Continue, Inv, RequestsSound
    <2> HIDE DEF x
    <2> QED
      BY <1>1, <2>4, <2>5, BusySteps
  <1>3. CASE ~BodyAccepted(h)
    BY <1>3, StatusValues, AnswerSummary DEF BodyEnds
  <1> QED
    BY <1>2, <1>3

\* A blob that is there is promised as its row has it.
LEMMA FoundStep ==
    ASSUME Inv, NEW h \in Handler, Found(h)
    PROVE  Summary
  <1> DEFINE b == op[h].want
  <1>1. b \in DOMAIN files /\ b \in Blob
    BY DEF Found, Inv, Rows, Acceptable
  <1>2. files[b].size = Size[b]
    BY <1>1 DEF Inv, Rows
  <1>3. Keeps(b) /\ Promises(b)
    BY <1>1, <1>2 DEF Found, Keeps, Promises
  <1>4. Moves /\ ErrorStep
    BY StatusValues, AnswerMoves DEF Found, Inv
  <1> QED
    BY <1>1, <1>3, <1>4 DEF Summary, Stores, Counts, Found

\* What an insert is about to store.
LEMMA AboutToStore ==
    ASSUME Inv, NEW h \in Handler, op[h].pc = "store"
    PROVE  /\ op[h].src \in Acceptable
           /\ Inserted(op[h].src, op[h].got) = Inserted(op[h].src, Size[op[h].src])
           /\ Descriptor(op[h].src, op[h].got)
                = [sha256 |-> op[h].src, size |-> Size[op[h].src]]
           /\ op[h].src \in DOMAIN Inserted(op[h].src, Size[op[h].src])
  <1>1. op[h].src \in Acceptable /\ op[h].got = Size[op[h].src]
    BY DEF Inv, RequestsSound, Sound
  <1>2. Digest(op[h].src, Size[op[h].src]) = op[h].src
    BY DEF Digest
  <1> QED
    BY <1>1, <1>2 DEF Inserted, Descriptor

LEMMA StoreSteps ==
    ASSUME Inv, NEW h \in Handler, Store(h) \/ StoreFails(h)
    PROVE  Summary
  <1> DEFINE b == op[h].src
  <1>1. op[h].pc = "store"
    BY DEF Store, StoreFails
  <1>2. b \in Acceptable /\ b \in Blob
    BY <1>1, AboutToStore DEF Acceptable
  <1>3. Keeps(b) /\ Promises(b)
    BY <1>1, <1>2, AboutToStore DEF Store, StoreFails, Keeps, Promises
  <1>4. Moves /\ ErrorStep
    BY StatusValues, AnswerMoves DEF Store, StoreFails, Inv
  <1>5. Counts
    BY DEF Store, StoreFails, Counts
  <1> QED
    BY <1>2, <1>3, <1>4, <1>5 DEF Summary, Stores

LEMMA ClientGoneStep ==
    ASSUME Inv, NEW h \in Handler, ClientGone(h)
    PROVE  Summary
  <1> DEFINE b == op[h].src
  <1>1. CASE op[h].pc = "store"
    <2>1. b \in Acceptable /\ b \in Blob
      BY <1>1, AboutToStore DEF Acceptable
    <2>2. Keeps(b) /\ Promises(b)
      BY <1>1, <2>1, AboutToStore DEF ClientGone, Keeps, Promises
    <2> QED
      BY <2>1, <2>2, StatusValues, AnswerMoves
         DEF Summary, Stores, Counts, ClientGone, Inv
  <1>2. CASE op[h].pc # "store"
    BY <1>2, StatusValues, AnswerSummary DEF ClientGone
  <1> QED
    BY <1>1, <1>2

LEMMA RestartStep ==
    ASSUME Inv, Restart
    PROVE  Summary
  <1>1. Idle(0).status # InternalError
    BY DEF Idle, InternalError
  <1>2. ErrorStep
    BY <1>1 DEF Restart, ErrorStep
  <1> QED
    BY <1>2 DEF Restart, Summary, Moves, Stores, Counts

LEMMA StepSummary ==
    ASSUME Inv, [Next]_vars
    PROVE  Summary
  <1>1. CASE UNCHANGED vars
    BY <1>1 DEF vars, Summary, Moves, Stores, Counts, ErrorStep
  <1>2. ASSUME NEW h \in Handler, Client(h)
        PROVE  Summary
    <2>1. ASSUME NEW b \in Blob,
                 Upload(h, b) \/ GetBlob(h, b) \/ HeadBlob(h, b) \/ Preflight(h, Size[b])
          PROVE  Summary
      BY <2>1, UploadStep, ReadSteps
    <2>2. ASSUME NEW r \in MirrorRequest, Mirror(h, r)
          PROVE  Summary
      BY <2>2, MirrorStep
    <2>3. CASE PreflightMalformed(h)
      BY <2>3, StatusValues, AnswerSummary DEF PreflightMalformed, Reply
    <2>4. CASE Unimplemented(h)
      BY <2>4, StatusValues, AnswerSummary DEF Unimplemented, Reply
    <2> QED
      BY <1>2, <2>1, <2>2, <2>3, <2>4, ClientGoneStep DEF Client
  <1>3. ASSUME NEW h \in Handler, Source(h)
        PROVE  Summary
    BY <1>3, FetchStep, EndSteps, ChunkStep, BodyEndsStep DEF Source
  <1>4. ASSUME NEW h \in Handler, Database(h)
        PROVE  Summary
    BY <1>4, FoundStep, MissingStep, EndSteps, StoreSteps DEF Database
  <1>5. ASSUME NEW h \in Handler, TimesOut(h) \/ GetBlobFails(h)
        PROVE  Summary
    BY <1>5, EndSteps
  <1> QED
    BY <1>1, <1>2, <1>3, <1>4, <1>5, RestartStep DEF Next
-----------------------------------------------------------------------------
(* The invariant *)

LEMMA InitInv ==
    ASSUME Init
    PROVE  Inv
  <1>1. RequestsSound
    BY StatusValues, IdleSound DEF Init, RequestsSound, Sound
  <1>2. Rows
    BY DEF Init, Rows
  <1> QED
    BY <1>1, <1>2, BlossomAssumption DEF Init, Inv, PromisesKept

\* Inserting an acceptable blob keeps all rows whole, and keeps all of them.
LEMMA InsertKeepsRows ==
    ASSUME Rows, NEW b \in Acceptable, files' = Inserted(b, Size[b])
    PROVE  Rows' /\ DOMAIN files' = DOMAIN files \cup {b}
  <1>1. Digest(b, Size[b]) = b
    BY DEF Digest
  <1>2. files' = [d \in DOMAIN files \cup {b} |->
                    IF d \in DOMAIN files THEN files[d]
                    ELSE [bytes |-> <<b, Size[b]>>, size |-> Size[b]]]
    BY <1>1 DEF Inserted
  <1>3. \A d \in DOMAIN files :
            files[d] = [bytes |-> <<d, Size[d]>>, size |-> Size[d]]
    BY DEF Rows
  <1>4. DOMAIN files' = DOMAIN files \cup {b}
    BY <1>2
  <1>5. DOMAIN files' \subseteq Acceptable'
    BY <1>4 DEF Rows, Acceptable, LooksEncrypted
  <1>6. files' = [d \in DOMAIN files' |->
                    [bytes |-> <<d, Size[d]>>, size |-> Size[d]]]
    BY <1>2, <1>3, <1>4
  <1> QED
    BY <1>4, <1>5, <1>6 DEF Rows

LEMMA NextInv ==
    ASSUME Inv, [Next]_vars
    PROVE  Inv'
  <1>1. Moves /\ Stores /\ Counts
    BY StepSummary DEF Summary
  <1>2. RequestsSound'
    <2>1. CASE op' = op
      BY <2>1 DEF Inv, RequestsSound, Sound, Operation, Acceptable, LooksEncrypted
    <2>2. CASE op' = [h \in Handler |-> Idle(0)]
      BY <2>2, StatusValues, IdleSound
         DEF RequestsSound, Sound, Operation, Acceptable, LooksEncrypted
    <2>3. ASSUME NEW h \in Handler, NEW x, Sound(x), op' = [op EXCEPT ![h] = x]
          PROVE  RequestsSound'
      BY <2>3 DEF Inv, RequestsSound, Sound, Operation, Acceptable, LooksEncrypted
    <2> QED
      BY <1>1, <2>1, <2>2, <2>3 DEF Moves
  <1>3. /\ Rows'
        /\ DOMAIN files \subseteq DOMAIN files'
    BY <1>1, InsertKeepsRows DEF Stores, Keeps, Inv, Rows, Acceptable, LooksEncrypted
  <1>4. /\ (given \subseteq [sha256 : Blob, size : Nat])'
        /\ PromisesKept'
    <2>1. CASE given' = given
      BY <1>3, <2>1 DEF Inv, PromisesKept
    <2>2. ASSUME NEW b \in Blob, b \in DOMAIN files',
                 given' = given \cup {[sha256 |-> b, size |-> Size[b]]}
          PROVE  /\ (given \subseteq [sha256 : Blob, size : Nat])'
                 /\ PromisesKept'
      BY <1>3, <2>2, SizesAreNaturals DEF Inv, PromisesKept
    <2> QED
      BY <1>1, <2>1, <2>2 DEF Stores, Promises
  <1>5. faults' \in 0..MaxFaults
    BY <1>1, BlossomAssumption DEF Counts, Fault, Inv
  <1> QED
    BY <1>2, <1>3, <1>4, <1>5 DEF Inv
-----------------------------------------------------------------------------
(* The theorems *)

\* Rows, requests and answers fit each other whatever the order of the steps of
\* uploads, mirrors and reads and of the failures of the database.
THEOREM Invariance == Spec => []Inv
  <1>1. Init => Inv
    BY InitInv
  <1>2. Inv /\ [Next]_vars => Inv'
    BY NextInv
  <1> QED
    BY <1>1, <1>2, PTL DEF Spec

\* The state of the file store keeps its types (files, op in Blossom).
THEOREM TypeCorrect == Spec => []TypeOK
  <1>1. Inv => TypeOK
    <2>1. ASSUME Inv, NEW d \in DOMAIN files
          PROVE  files[d] \in [bytes : Bytes, size : Nat]
      <3>1. d \in Blob /\ Size[d] \in Nat /\ Size[d] <= MaxFileSize
        BY <2>1, SizesAreNaturals DEF Inv, Rows, Acceptable
      <3>2. files[d] = [bytes |-> <<d, Size[d]>>, size |-> Size[d]]
        BY <2>1 DEF Inv, Rows
      <3>3. Size[d] \in 0..MaxFileSize
        BY <3>1, BlossomAssumption
      <3>4. <<d, Size[d]>> \in Bytes
        BY <3>1, <3>3 DEF Bytes
      <3> QED
        BY <3>1, <3>2, <3>4
    <2> QED
      BY <2>1 DEF Inv, TypeOK, RequestsSound, Rows, Acceptable
  <1> QED
    BY <1>1, Invariance, PTL

\* Only complete, acceptable blobs are ever stored, under their own digest
\* (handle_upload, handle_mirror).
THEOREM RowsAreWholeHolds == Spec => []RowsAreWhole
  <1>1. Inv => RowsAreWhole
    BY DEF Inv, Rows, Acceptable, RowsAreWhole
  <1> QED
    BY <1>1, Invariance, PTL

\* A descriptor, once given, is good for ever (handle_upload, handle_mirror,
\* handle_get_file, handle_get_file_head, handle_upload_head).
THEOREM DescriptorsHoldForEver == Spec => []DescriptorsHold
  <1>1. ASSUME Inv, NEW desc \in given
        PROVE  /\ GetFile(desc.sha256) = [status |-> OK,
                                         bytes |-> <<desc.sha256, desc.size>>]
               /\ GetFileHead(desc.sha256) = [status |-> OK, length |-> desc.size]
               /\ desc.size = Size[desc.sha256]
               /\ UploadHead(desc.size) = OK
    <2>1. desc.sha256 \in DOMAIN files /\ desc.size = Size[desc.sha256]
      BY <1>1 DEF Inv, PromisesKept
    <2>2. /\ Size[desc.sha256] \in Nat /\ Size[desc.sha256] <= MaxFileSize
          /\ files[desc.sha256] = [bytes |-> <<desc.sha256, desc.size>>,
                                   size |-> desc.size]
      BY <1>1, <2>1, SizesAreNaturals DEF Inv, Rows, Acceptable
    <2>3. ~(desc.size > MaxFileSize)
      BY <2>1, <2>2, BlossomAssumption
    <2> QED
      BY <2>1, <2>2, <2>3 DEF GetFile, GetFileHead, UploadHead
  <1>2. Inv => DescriptorsHold
    BY <1>1 DEF DescriptorsHold
  <1> QED
    BY <1>2, Invariance, PTL

\* No request ever holds more than the limit in memory (handle_mirror).
THEOREM BufferBoundedHolds == Spec => []BufferBounded
  <1>1. Inv => BufferBounded
    BY DEF Inv, RequestsSound, Sound, BufferBounded
  <1> QED
    BY <1>1, Invariance, PTL

\* Internal errors come from the database alone (PostgresStore::insert).
THEOREM ErrorsOnlyFromDatabaseHolds == Spec => ErrorsOnlyFromDatabase
  <1>1. Inv /\ [Next]_vars =>
          [\A h \in Handler :
              (op[h].status # InternalError /\ op'[h].status = InternalError)
                 => faults' = faults + 1]_vars
    BY StepSummary DEF Summary, ErrorStep
  <1> QED
    BY <1>1, Invariance, PTL DEF Spec, ErrorsOnlyFromDatabase

\* Uploads, mirrors and failures implement the content-addressed store.
THEOREM ContentStoreImplemented == Spec => ImplementsContentStore
  <1> DEFINE Kept     == {files[d].bytes[1] : d \in DOMAIN files}
             Promised == {desc.sha256 : desc \in given}
  <1>1. Init => Abstract!Init
    BY DEF Init, Abstract!Init
  <1>2. ASSUME Inv, [Next]_vars
        PROVE  [Abstract!Next]_Abstract!storeVars
    <2>1. Kept = DOMAIN files /\ Kept' = DOMAIN files'
      <3>1. Rows /\ Rows'
        BY <1>2, NextInv DEF Inv
      <3>2. \A d \in DOMAIN files : files[d].bytes[1] = d
        BY <3>1 DEF Rows
      <3>3. \A d \in DOMAIN files' : files'[d].bytes[1] = d
        BY <3>1 DEF Rows
      <3> QED
        BY <3>2, <3>3
    <2>2. CASE UNCHANGED <<files, given>>
      BY <2>2 DEF Abstract!storeVars
    <2>3. ASSUME NEW b \in Blob, Keeps(b), Promises(b)
          PROVE  Abstract!Put(b)
      <3>1. Kept' \in {Kept, Kept \cup ({b} \cap Acceptable)}
        <4>1. CASE files' = files
          BY <2>1, <4>1
        <4>2. CASE b \in Acceptable /\ files' = Inserted(b, Size[b])
          <5>1. DOMAIN files' = DOMAIN files \cup {b}
            BY <1>2, <4>2, InsertKeepsRows DEF Inv
          <5> HIDE DEF Kept
          <5> QED
            BY <2>1, <4>2, <5>1
        <4> QED
          BY <2>3, <4>1, <4>2 DEF Keeps
      <3>2. Promised' \in {Promised, Promised \cup ({b} \cap Kept')}
        <4>1. CASE given' = given
          BY <4>1
        <4>2. CASE /\ b \in DOMAIN files'
                   /\ given' = given \cup {[sha256 |-> b, size |-> Size[b]]}
          <5>1. /\ \A desc \in given' : desc \in given \/ desc.sha256 = b
                /\ \A desc \in given : desc \in given'
                /\ [sha256 |-> b, size |-> Size[b]] \in given'
            BY <4>2
          <5>2. Promised' \subseteq Promised \cup {b}
            BY <5>1
          <5>3. Promised \subseteq Promised'
            BY <5>1
          <5>4. b \in Promised'
            BY <5>1
          <5> QED
            BY <2>1, <4>2, <5>2, <5>3, <5>4
        <4> QED
          BY <2>3, <4>1, <4>2 DEF Promises
      <3> QED
        BY <3>1, <3>2 DEF Abstract!Put, Acceptable
    <2> QED
      BY <1>2, <2>2, <2>3, StepSummary DEF Summary, Stores, Abstract!Next
  <1> QED
    BY <1>1, <1>2, Invariance, PTL DEF Spec, ImplementsContentStore, Abstract!Spec
=============================================================================
