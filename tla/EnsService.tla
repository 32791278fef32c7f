----------------------------- MODULE EnsService -----------------------------
(***************************************************************************)
(* The e-mail notification service (bcr-wdc-ens-service).                  *)
(*                                                                         *)
(* It keeps one row of preferences per node or company: the address that   *)
(* the identity service confirmed, whether notifications are enabled and   *)
(* of which kinds, and the token of the link under which the owner changes *)
(* them.  The link is in every mail and can be asked for.                  *)
(*                                                                         *)
(* As in EicService every HTTP request is a process whose steps are the    *)
(* awaits of its handler.  Setting the address and changing preferences    *)
(* both read a row and write it in a later statement.                      *)
(***************************************************************************)
EXTENDS Integers, FiniteSets

CONSTANTS
    Key,        \* a node, on its own or for one of its companies
    Email,      \* e-mail addresses
    Kind,       \* kinds of notifications: the flags of PreferencesFlags
    Default,    \* the kinds that are enabled by default
    Req,        \* request slots: how many requests run at once
    None,       \* no flags in a form, no kind, no key
    MaxTokens   \* bound: rows created with a fresh token

ASSUME EnsAssumption ==
    /\ Default \subseteq Kind
    /\ \A flags \in SUBSET Kind : flags # None
    /\ IsFiniteSet(Req)
    /\ MaxTokens \in Nat

\* A row of email_notification_preferences.  Tokens are random UUIDs: the
\* model numbers them.
Row == [email: Email, enabled: BOOLEAN, flags: SUBSET Kind, token: Nat \ {0}]
NoRow == [token |-> 0]

\* The local variables of a request: the row it read or will write, whether
\* it found no row, the kind of the mail it will send, and whether the form
\* gave no flags.
Local == [key: Key, row: Row, first: BOOLEAN, kind: Kind \cup {None}, keep: BOOLEAN]
NoLocal == [key |-> None]

Pc == {"idle", "upsert", "update", "mail"}

VARIABLES
    prefs,      \* [Key -> row]: email_notification_preferences
    pc,         \* [Req -> Pc]: the await a request will do next
    local,      \* [Req -> Local]
    lastToken,  \* number of the last token drawn
    \* History variables, which the code does not have:
    chosen,     \* [Key -> settings]: what the owner's changes, one by one, give
    disturbed,  \* keys of which two changes overlapped since the last full one
    links,      \* every link given out: token and key
    raced,      \* keys whose row was created although there was one by then
    late        \* [Key \X Kind -> mails sent since the owner unsubscribed]

process == <<pc, local>>
vars == <<prefs, process, lastToken, chosen, disturbed, links, raced, late>>

Settings == [enabled: BOOLEAN, flags: SUBSET Kind]

ProcessTypeOK ==
    /\ pc \in [Req -> Pc]
    /\ local \in [Req -> Local \cup {NoLocal}]
    /\ \A r \in Req : pc[r] # "idle" =>
          local[r] \in Local /\ local[r].row.token <= lastToken

TypeOK ==
    /\ prefs \in [Key -> Row \cup {NoRow}]
    /\ ProcessTypeOK
    /\ lastToken \in 0..MaxTokens
    /\ chosen \in [Key -> Settings]
    /\ disturbed \in SUBSET Key
    /\ links \in SUBSET [token: 1..lastToken, key: Key]
    /\ raced \in SUBSET Key
    /\ late \in [Key \X Kind -> Nat]

Init ==
    /\ prefs = [k \in Key |-> NoRow]
    /\ pc = [r \in Req |-> "idle"]
    /\ local = [r \in Req |-> NoLocal]
    /\ lastToken = 0
    /\ chosen = [k \in Key |-> [enabled |-> TRUE, flags |-> Default]]
    /\ disturbed = {}
    /\ links = {}
    /\ raced = {}
    /\ late = [s \in Key \X Kind |-> 0]

Begin(r, label, values) ==
    /\ pc[r] = "idle"
    /\ pc' = [pc EXCEPT ![r] = label]
    /\ local' = [local EXCEPT ![r] = values]

Finish(r) ==
    /\ pc' = [pc EXCEPT ![r] = "idle"]
    /\ local' = [local EXCEPT ![r] = NoLocal]

\* The owner gets mails of this kind.
Wants(row, kind) == row # NoRow /\ row.enabled /\ kind \in row.flags

\* The mails counted as late start anew when the owner subscribes again.
LateAfter(after) ==
    [s \in Key \X Kind |-> IF Wants(after[s[1]], s[2]) THEN 0 ELSE late[s]]

\* Requests other than r that have read key k and will still write it.
Writing(k, r) == {s \in Req \ {r} : pc[s] \in {"upsert", "update"} /\ local[s].key = k}
-----------------------------------------------------------------------------
(* The address, set by the identity service *)

\* (mutant) Every confirmation draws a new token.
RowWithAddressFresh(k, e) ==
    IF prefs[k] = NoRow
    THEN [email |-> e, enabled |-> TRUE, flags |-> Default, token |-> lastToken + 1]
    ELSE [prefs[k] EXCEPT !.email = e, !.token = lastToken + 1]

\* (mutant) The row is built anew from the defaults, with its token.
RowWithAddressReset(k, e) ==
    [email |-> e, enabled |-> TRUE, flags |-> Default,
     token |-> IF prefs[k] = NoRow THEN lastToken + 1 ELSE prefs[k].token]

\* (mutant) No token is drawn for a first row.
RowWithAddressNil(k, e) ==
    IF prefs[k] = NoRow
    THEN [email |-> e, enabled |-> TRUE, flags |-> Default, token |-> 0]
    ELSE [prefs[k] EXCEPT !.email = e]

\* The row to write for a new address: the one there is with its address
\* replaced, or one with default settings and a fresh token.
RowWithAddress(k, e) ==
    IF prefs[k] = NoRow
    THEN [email |-> e, enabled |-> TRUE, flags |-> Default, token |-> lastToken + 1]
    ELSE [prefs[k] EXCEPT !.email = e]

\* POST /v1/email/preferences, up to the row that it will write.
SetEmail(r, k, e) ==
    LET row == RowWithAddress(k, e) IN
    /\ row.token <= MaxTokens
    /\ Begin(r, "upsert", [key |-> k, row |-> row, first |-> prefs[k] = NoRow,
                            kind |-> None, keep |-> FALSE])
    /\ lastToken' = IF row.token > lastToken THEN row.token ELSE lastToken
    /\ UNCHANGED <<prefs, chosen, disturbed, links, raced, late>>

\* The whole row is written, whatever happened to it since it was read.
Upsert(r) ==
    LET k == local[r].key IN
    /\ pc[r] = "upsert"
    /\ Finish(r)
    /\ prefs' = [prefs EXCEPT ![k] = local[r].row]
    /\ disturbed' = IF Writing(k, r) # {} THEN disturbed \cup {k} ELSE disturbed
    /\ raced' = IF local[r].first /\ prefs[k] # NoRow THEN raced \cup {k} ELSE raced
    /\ late' = LateAfter(prefs')
    /\ UNCHANGED <<lastToken, chosen, links>>
-----------------------------------------------------------------------------
(* Preferences, changed by whoever has the link *)

\* POST /email/preferences/update_preferences, up to the settings that it will
\* write.  A form without any flag keeps the flags that were read.
OpenPreferences(r, k, enabled, choice) ==
    /\ \E link \in links : prefs[k].token = link.token
    /\ Begin(r, "update",
             [key |-> k, first |-> FALSE, kind |-> None, keep |-> choice = None,
              row |-> [prefs[k] EXCEPT !.enabled = enabled,
                                       !.flags = IF choice = None THEN @ ELSE choice]])
    /\ UNCHANGED <<prefs, lastToken, chosen, disturbed, links, raced, late>>

\* UPDATE ... WHERE pref_token = token, which may match no row any more.
UpdatedRows(row) ==
    [k \in Key |-> IF prefs[k].token = row.token
                   THEN [prefs[k] EXCEPT !.enabled = row.enabled, !.flags = row.flags]
                   ELSE prefs[k]]

Update(r) ==
    LET k == local[r].key
        row == local[r].row
    IN
    /\ pc[r] = "update"
    /\ Finish(r)
    /\ prefs' = UpdatedRows(row)
    /\ IF prefs[k].token = row.token
       THEN /\ chosen' = [chosen EXCEPT ![k] =
                   [enabled |-> row.enabled,
                    flags |-> IF local[r].keep THEN @.flags ELSE row.flags]]
            /\ disturbed' = IF Writing(k, r) # {} THEN disturbed \cup {k}
                            ELSE IF local[r].keep THEN disturbed
                            ELSE disturbed \ {k}
       ELSE UNCHANGED <<chosen, disturbed>>
    /\ late' = LateAfter(prefs')
    /\ UNCHANGED <<lastToken, links, raced>>

\* POST /v1/email/preferences/link, once the challenge is checked (which is
\* the same code as in EicService).
GetLink(k) ==
    /\ prefs[k] # NoRow
    /\ links' = links \cup {[token |-> prefs[k].token, key |-> k]}
    /\ UNCHANGED <<prefs, process, lastToken, chosen, disturbed, raced, late>>
-----------------------------------------------------------------------------
(* Notifications *)

\* (mutant) Notifications that are switched off as a whole are still sent.
MaySendDisabled(row, kind) == row # NoRow /\ kind \in row.flags

\* The checks of send_email on the row it read.
MaySend(row, kind) == Wants(row, kind)

\* POST /v1/email/send: the preferences are read and let the mail
\* through.  (Otherwise nothing happens.)
CheckPreferences(r, k, kind) ==
    /\ MaySend(prefs[k], kind)
    /\ Begin(r, "mail", [key |-> k, row |-> prefs[k], first |-> FALSE,
                          kind |-> kind, keep |-> FALSE])
    /\ UNCHANGED <<prefs, lastToken, chosen, disturbed, links, raced, late>>

\* The mail goes to the address that was read, with the link that was read.
Mail(r) ==
    LET k == local[r].key
        kind == local[r].kind
    IN
    /\ pc[r] = "mail"
    /\ Finish(r)
    /\ links' = links \cup {[token |-> local[r].row.token, key |-> k]}
    /\ late' = IF Wants(prefs[k], kind) THEN late
               ELSE [late EXCEPT ![<<k, kind>>] = @ + 1]
    /\ UNCHANGED <<prefs, lastToken, chosen, disturbed, raced>>

\* A request ends before its next await takes effect: the store or the mail
\* provider fails, the caller hangs up, or the process is killed.
Fail(r) ==
    /\ pc[r] # "idle"
    /\ Finish(r)
    /\ UNCHANGED <<prefs, lastToken, chosen, disturbed, links, raced, late>>

Next ==
    \/ \E r \in Req, k \in Key, e \in Email : SetEmail(r, k, e)
    \/ \E r \in Req, k \in Key, enabled \in BOOLEAN, choice \in (SUBSET Kind) \cup {None} :
          OpenPreferences(r, k, enabled, choice)
    \/ \E r \in Req, k \in Key, kind \in Kind : CheckPreferences(r, k, kind)
    \/ \E k \in Key : GetLink(k)
    \/ \E r \in Req : Upsert(r) \/ Update(r) \/ Mail(r) \/ Fail(r)

Spec == Init /\ [][Next]_vars
-----------------------------------------------------------------------------
(* Properties *)

\* Unless changes of a key overlapped, its settings are what its owner chose
\* one change after the other: a confirmed address never touches them, and a
\* form without flags keeps the last choice
\* (Service::set_email_notification_preferences, update_preferences).
SettingsAsChosen ==
    \A k \in Key \ disturbed :
        prefs[k] # NoRow =>
            [enabled |-> prefs[k].enabled, flags |-> prefs[k].flags] = chosen[k]

\* A link that was given out, in a mail or on request, keeps leading to its
\* key's row, through changes of address and crashes, unless two first
\* confirmations of the key raced; and it never leads to another key's row.
LinksStayValid ==
    \A link \in links :
        /\ link.key \notin raced => prefs[link.key].token = link.token
        /\ \A k \in Key : prefs[k].token = link.token => k = link.key

\* Once the owner has unsubscribed, only mails that were already being sent
\* still go out, fewer than requests run at once (Service::send_email).
UnsubscribeStopsMail ==
    \A k \in Key, kind \in Kind :
        prefs[k] # NoRow /\ ~Wants(prefs[k], kind) => late[<<k, kind>>] < Cardinality(Req)

\* The comment in set_email_notification_preferences: when there is already an
\* entry, update the address and keep the rest of the settings as they are.
KeepsOtherSettings ==
    [][\A r \in Req, k \in Key :
          Upsert(r) /\ local[r].key = k /\ prefs[k].token = local[r].row.token
            => prefs'[k] = [prefs[k] EXCEPT !.email = local[r].row.email]]_vars
=============================================================================
