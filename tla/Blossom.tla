------------------------------ MODULE Blossom -------------------------------
(***************************************************************************)
(* The file store of the relay (bcr-wdc-relay, blossom/ and auth.rs).      *)
(* Clients upload encrypted blobs or ask the relay to mirror one from      *)
(* another server.  A mirror request looks for the blob, downloads it in   *)
(* chunks and inserts it, with an await between any two of these, while    *)
(* other requests store the same blob; the source may announce no length,  *)
(* send too much, stall or break off; the client may go away; the database *)
(* may fail; the relay may restart.                                        *)
(*                                                                         *)
(* Contents.  SHA-256 is taken to be free of collisions: a complete blob   *)
(* is known by its digest and stands for it.  What a source sent before it *)
(* broke off is the first n bytes of a blob; no blob of the model is the   *)
(* beginning of another, so the digest of a part is no blob's.  A row's    *)
(* size is an i32; PostgreSQL takes no BYTEA of 2^30 bytes, so the         *)
(* conversion never changes the size of a row that is stored.              *)
(***************************************************************************)
EXTENDS Integers, FiniteSets

CONSTANTS
    Handler,      \* requests that can be under way at once
    Blob,         \* contents clients upload and sources serve
    NoBlob,       \* the absent blob
    Size,         \* [Blob -> Nat]: their lengths
    Encrypted,    \* the blobs that begin with a secp256k1 public key
    PubKeyLen,    \* ENCRYPTION_PUB_KEY_BYTE_LEN, 65
    MaxFileSize,  \* max_file_size_bytes
    MaxFaults     \* bound of database failures

ASSUME BlossomAssumption ==
    /\ NoBlob \notin Blob
    /\ Size \in [Blob -> Nat]
    /\ PubKeyLen \in Nat \ {0}
    /\ MaxFileSize \in Nat
    /\ MaxFaults \in Nat

\* The statuses of the answers; 0 is a request that was given none.
OK == 200
BadRequest == 400
Unauthorized == 401
NotFound == 404
TooLarge == 413
InternalError == 500
NotImplemented == 501
Status == {0, OK, BadRequest, Unauthorized, NotFound, TooLarge, InternalError,
           NotImplemented}

\* What a mirror request comes with: where the source is, what its
\* Authorization header holds, whether the token has expired, and the digest
\* in its x tag.
MirrorRequest == [url     : {"public", "not https", "local"},
                  header  : {"event", "malformed"},
                  expired : BOOLEAN,
                  x       : Blob \cup {NoBlob}]

VARIABLES
    files,    \* the table: digest -> [bytes, size]
    op,       \* op[h]: the request h is handling, or its last answer
    given,    \* history: the descriptors given to clients
    faults    \* database failures so far

vars == <<files, op, given, faults>>

\* The first n bytes of b.
Bytes == {<<b, n>> : b \in Blob, n \in 0..MaxFileSize}

Idle(status) == [pc |-> "idle", want |-> NoBlob, src |-> NoBlob,
                 known |-> FALSE, got |-> 0, status |-> status]

\* An operation wants a digest, reads from a source that sends src, has
\* announced its length or not, and has sent got bytes.
Operation ==
    [pc : {"idle", "lookup", "fetch", "stream", "store"},
     want : Blob \cup {NoBlob}, src : Blob \cup {NoBlob},
     known : BOOLEAN, got : Nat, status : Status]

TypeOK ==
    /\ DOMAIN files \subseteq Blob
    /\ \A d \in DOMAIN files : files[d] \in [bytes : Bytes, size : Nat]
    /\ op \in [Handler -> Operation]
    /\ given \in SUBSET [sha256 : Blob, size : Nat]
    /\ faults \in 0..MaxFaults

Init ==
    /\ files = <<>>
    /\ op = [h \in Handler |-> Idle(0)]
    /\ given = {}
    /\ faults = 0
-----------------------------------------------------------------------------
Digest(b, n) == IF n = Size[b] THEN b ELSE NoBlob

\* BlobDescriptor::new, of which url and time follow.
Descriptor(b, n) == [sha256 |-> Digest(b, n), size |-> n]

\* The check that a body begins with an ephemeral public key.
LooksEncrypted(b, n) == n >= PubKeyLen /\ b \in Encrypted

\* (mutant) The insert replaces the row, and trusts the length asked for.
InsertedOver(b, n) ==
    [d \in DOMAIN files \cup {Digest(b, n)} |->
        IF d \in DOMAIN files /\ d # Digest(b, n) THEN files[d]
        ELSE [bytes |-> <<b, n>>, size |-> n - PubKeyLen]]

\* The file store's insert: ON CONFLICT DO NOTHING.
Inserted(b, n) ==
    [d \in DOMAIN files \cup {Digest(b, n)} |->
        IF d \in DOMAIN files THEN files[d]
        ELSE [bytes |-> <<b, n>>, size |-> n]]

\* The file store's get, as GET and HEAD of a blob answer it.
GetFile(d) == IF d \in DOMAIN files
              THEN [status |-> OK, bytes |-> files[d].bytes]
              ELSE [status |-> NotFound, bytes |-> <<>>]
GetFileHead(d) == IF d \in DOMAIN files
                  THEN [status |-> OK, length |-> files[d].size]
                  ELSE [status |-> NotFound, length |-> 0]

\* HEAD of /upload: only the announced size is looked at.
UploadHead(size) == IF size > MaxFileSize THEN TooLarge ELSE OK

Answer(h, status) == op' = [op EXCEPT ![h] = Idle(status)]
Continue(h, pc) == op' = [op EXCEPT ![h].pc = pc]
Fault == faults < MaxFaults /\ faults' = faults + 1
-----------------------------------------------------------------------------
\* A request that is answered at once and changes nothing.
Reply(h, status) ==
    /\ op[h].pc = "idle"
    /\ Answer(h, status)
    /\ UNCHANGED <<files, given, faults>>

\* handle_get_file and handle_get_file_head.
GetBlob(h, d) == Reply(h, GetFile(d).status)
HeadBlob(h, d) == Reply(h, GetFileHead(d).status)

GetBlobFails(h) ==
    /\ op[h].pc = "idle"
    /\ Fault
    /\ Answer(h, InternalError)
    /\ UNCHANGED <<files, given>>

\* handle_upload_head: X-Content-Length is missing or not a number, or judged.
PreflightMalformed(h) == Reply(h, BadRequest)
Preflight(h, size) == Reply(h, UploadHead(size))

\* handle_list, handle_media, handle_report and handle_delete.
Unimplemented(h) == Reply(h, NotImplemented)
-----------------------------------------------------------------------------
\* (mutant) An upload may hold plain text.
UploadVerdictPlain(b) == IF Size[b] > MaxFileSize THEN TooLarge ELSE OK

UploadVerdict(b) ==
    IF Size[b] > MaxFileSize THEN TooLarge
    ELSE IF ~LooksEncrypted(b, Size[b]) THEN BadRequest
    ELSE OK

\* handle_upload up to its insert; the body is in memory.
Upload(h, b) ==
    /\ op[h].pc = "idle"
    /\ IF UploadVerdict(b) = OK
       THEN op' = [op EXCEPT ![h] = [pc |-> "store", want |-> b, src |-> b,
                                     known |-> TRUE, got |-> Size[b],
                                     status |-> 0]]
       ELSE Answer(h, UploadVerdict(b))
    /\ UNCHANGED <<files, given, faults>>

\* validate_source_url, extract_auth_token and require_x_tag, in this order.
\* A host that cannot be resolved passes, and fails in the download.
MirrorVerdict(r) ==
    IF r.url # "public" THEN BadRequest
    ELSE IF r.header # "event" THEN BadRequest
    ELSE IF r.expired THEN Unauthorized
    ELSE IF r.x = NoBlob THEN BadRequest
    ELSE OK

\* handle_mirror up to its lookup.
Mirror(h, r) ==
    /\ op[h].pc = "idle"
    /\ IF MirrorVerdict(r) = OK
       THEN op' = [op EXCEPT ![h] = [Idle(0) EXCEPT !.pc = "lookup",
                                                    !.want = r.x]]
       ELSE Answer(h, MirrorVerdict(r))
    /\ UNCHANGED <<files, given, faults>>

\* The blob is there: its descriptor has the size of the row.
Found(h) ==
    /\ op[h].pc = "lookup"
    /\ op[h].want \in DOMAIN files
    /\ given' = given \cup {[sha256 |-> op[h].want,
                             size |-> files[op[h].want].size]}
    /\ Answer(h, OK)
    /\ UNCHANGED <<files, faults>>

Missing(h) ==
    /\ op[h].pc = "lookup"
    /\ op[h].want \notin DOMAIN files
    /\ Continue(h, "fetch")
    /\ UNCHANGED <<files, given, faults>>

LookupFails(h) ==
    /\ op[h].pc = "lookup"
    /\ Fault
    /\ Answer(h, InternalError)
    /\ UNCHANGED <<files, given>>

\* The source answers with b, whose length it announces or not.
Fetch(h, b, known) ==
    /\ op[h].pc = "fetch"
    /\ IF known /\ Size[b] > MaxFileSize
       THEN Answer(h, TooLarge)
       ELSE op' = [op EXCEPT ![h] = [@ EXCEPT !.pc = "stream", !.src = b,
                                                !.known = known]]
    /\ UNCHANGED <<files, given, faults>>

\* The source cannot be reached or does not answer with success.
FetchFails(h) ==
    /\ op[h].pc = "fetch"
    /\ Answer(h, NotFound)
    /\ UNCHANGED <<files, given, faults>>

\* (mutant) Only the announced length is held against the limit.
ChunkUncounted(h, n) ==
    /\ op[h].pc = "stream"
    /\ n \in (op[h].got + 1)..Size[op[h].src]
    /\ op' = [op EXCEPT ![h].got = n]
    /\ UNCHANGED <<files, given, faults>>

\* The next chunk: counted before it is kept.
Chunk(h, n) ==
    /\ op[h].pc = "stream"
    /\ n \in (op[h].got + 1)..Size[op[h].src]
    /\ IF n > MaxFileSize
       THEN Answer(h, TooLarge)
       ELSE op' = [op EXCEPT ![h].got = n]
    /\ UNCHANGED <<files, given, faults>>

\* The stream fails before its end.
BreaksOff(h) ==
    /\ op[h].pc = "stream"
    /\ Answer(h, NotFound)
    /\ UNCHANGED <<files, given, faults>>

\* (mutant) The timeout covers only the connection.
ConnectTimesOut(h) ==
    /\ op[h].pc = "fetch"
    /\ Answer(h, NotFound)
    /\ UNCHANGED <<files, given, faults>>

\* The HTTP client's timeout spans the request from connecting to the last
\* byte of the body.
TimesOut(h) ==
    /\ op[h].pc \in {"fetch", "stream"}
    /\ Answer(h, NotFound)
    /\ UNCHANGED <<files, given, faults>>

\* A body is good when it has the digest asked for and looks encrypted.
BodyAccepted(h) ==
    /\ Digest(op[h].src, op[h].got) = op[h].want
    /\ LooksEncrypted(op[h].src, op[h].got)

\* The body ends: after its last byte or, when no length was announced,
\* where the source closes the connection.
BodyEnds(h) ==
    /\ op[h].pc = "stream"
    /\ op[h].known => op[h].got = Size[op[h].src]
    /\ IF BodyAccepted(h) THEN Continue(h, "store")
       ELSE Answer(h, BadRequest)
    /\ UNCHANGED <<files, given, faults>>

\* (mutant) An insert that meets a row is a violated key.
StoreOnce(h) ==
    /\ op[h].pc = "store"
    /\ IF Digest(op[h].src, op[h].got) \in DOMAIN files
       THEN Answer(h, InternalError) /\ UNCHANGED <<files, given>>
       ELSE /\ files' = Inserted(op[h].src, op[h].got)
            /\ given' = given \cup {Descriptor(op[h].src, op[h].got)}
            /\ Answer(h, OK)
    /\ UNCHANGED faults

\* (mutant) The descriptor is answered before the row is written.
StoreLater(h) ==
    /\ op[h].pc = "store"
    /\ files' \in {files, Inserted(op[h].src, op[h].got)}
    /\ given' = given \cup {Descriptor(op[h].src, op[h].got)}
    /\ Answer(h, OK)
    /\ UNCHANGED faults

\* The insert at the end of an upload or a mirror, and the descriptor.
Store(h) ==
    /\ op[h].pc = "store"
    /\ files' = Inserted(op[h].src, op[h].got)
    /\ given' = given \cup {Descriptor(op[h].src, op[h].got)}
    /\ Answer(h, OK)
    /\ UNCHANGED faults

\* The insert fails, before or after the database carried it out.
StoreFails(h) ==
    /\ op[h].pc = "store"
    /\ Fault
    /\ files' \in {files, Inserted(op[h].src, op[h].got)}
    /\ Answer(h, InternalError)
    /\ UNCHANGED given

\* The client goes away, and with it the future that handles its request.
\* An insert that was sent may still be carried out.
ClientGone(h) ==
    /\ op[h].pc # "idle"
    /\ files' \in {files} \cup
         (IF op[h].pc = "store" THEN {Inserted(op[h].src, op[h].got)} ELSE {})
    /\ Answer(h, 0)
    /\ UNCHANGED <<given, faults>>

\* The relay restarts: the table is created only if it does not exist.
Restart ==
    /\ op' = [h \in Handler |-> Idle(0)]
    /\ UNCHANGED <<files, given, faults>>

Database(h) ==
    \/ Found(h) \/ Missing(h) \/ LookupFails(h)
    \/ Store(h) \/ StoreFails(h)

Source(h) ==
    \/ \E b \in Blob, known \in BOOLEAN : Fetch(h, b, known)
    \/ FetchFails(h)
    \/ op[h].pc = "stream" /\ \E n \in 1..Size[op[h].src] : Chunk(h, n)
    \/ BreaksOff(h)
    \/ BodyEnds(h)

Client(h) ==
    \/ \E b \in Blob : Upload(h, b)
    \/ \E r \in MirrorRequest : Mirror(h, r)
    \/ \E b \in Blob : GetBlob(h, b) \/ HeadBlob(h, b) \/ Preflight(h, Size[b])
    \/ PreflightMalformed(h) \/ Unimplemented(h)
    \/ ClientGone(h)

Next ==
    \/ \E h \in Handler : \/ Client(h) \/ Source(h) \/ TimesOut(h)
                          \/ Database(h) \/ GetBlobFails(h)
    \/ Restart

\* The database answers or fails, and the timer of the HTTP client runs out;
\* nothing is assumed of sources and clients.
Fairness == \A h \in Handler : WF_vars(Database(h)) /\ WF_vars(TimesOut(h))

Spec == Init /\ [][Next]_vars /\ Fairness
-----------------------------------------------------------------------------
\* Whatever uploads, mirrors, sources and failures do to each other, a row is
\* the complete blob its key is the digest of, with its size, within the
\* limit, and encrypted as far as the relay can tell: half a download or the
\* wrong one is never stored (handle_upload, handle_mirror).
RowsAreWhole ==
    \A d \in DOMAIN files :
        /\ files[d].bytes = <<d, Size[d]>>
        /\ files[d].size = Size[d]
        /\ Size[d] <= MaxFileSize
        /\ LooksEncrypted(d, Size[d])

\* A descriptor is good for ever: whoever was given one, by whichever of two
\* requests that raced for the blob, gets all of it from GET, the length it
\* says from HEAD, and a preflight that would not have refused it.
DescriptorsHold ==
    \A desc \in given :
        /\ GetFile(desc.sha256) = [status |-> OK,
                                  bytes |-> <<desc.sha256, desc.size>>]
        /\ GetFileHead(desc.sha256) = [status |-> OK, length |-> desc.size]
        /\ desc.size = Size[desc.sha256]
        /\ UploadHead(desc.size) = OK

\* However much a source sends, and whatever length it announced, a mirror
\* request holds no more than the limit in memory (handle_mirror).
BufferBounded == \A h \in Handler : op[h].got <= MaxFileSize

\* A client is told of an internal error only when the database failed: two
\* requests that store the same blob at once both succeed (ON CONFLICT DO
\* NOTHING in PostgresStore::insert).
ErrorsOnlyFromDatabase ==
    [][\A h \in Handler :
          (op[h].status # InternalError /\ op'[h].status = InternalError)
             => faults' = faults + 1]_vars

\* Every request ends, though a source may stall for ever between any two
\* chunks (the client's timeout in AppState::new).
RequestsEnd == \A h \in Handler : (op[h].pc # "idle") ~> (op[h].pc = "idle")

\* The handlers implement a content-addressed store: blobs are kept for good
\* and never exchanged, and only kept blobs are promised.
Abstract == INSTANCE ContentStore WITH
    Content    <- Blob,
    Acceptable <- {b \in Blob : /\ Size[b] <= MaxFileSize
                                /\ LooksEncrypted(b, Size[b])},
    kept       <- {files[d].bytes[1] : d \in DOMAIN files},
    promised   <- {desc.sha256 : desc \in given}
ImplementsContentStore == Abstract!Spec
=============================================================================
