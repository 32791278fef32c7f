------------------------------ MODULE EnsProofs ------------------------------
(***************************************************************************)
(* Proofs about the e-mail notification service, for any number of owners, *)
(* addresses, kinds of notifications, concurrent requests and rows.        *)
(***************************************************************************)
EXTENDS EnsService, TLAPS, FiniteSetTheorems

\* What is known of a stored row, and how its absence shows.
LEMMA RowTypes ==
    ASSUME NEW row \in Row \cup {NoRow}
    PROVE  /\ row.token \in Nat
           /\ row = NoRow <=> row.token = 0
           /\ row # NoRow => row \in Row
<1>1. NoRow.token = 0
  BY DEF NoRow
<1>2. row \in Row => row.token \in Nat \ {0}
  BY DEF Row
<1> QED BY <1>1, <1>2

\* No request is idle while it does something.
LEMMA Labels == Pc = {"idle", "upsert", "update", "mail"}
BY DEF Pc

\* Starting a request keeps the types of the requests.
LEMMA BeginTypes ==
    ASSUME ProcessTypeOK, NEW r \in Req, NEW label \in Pc, NEW values \in Local,
           Begin(r, label, values), lastToken \in Nat, lastToken' \in Nat,
           lastToken <= lastToken', values.row.token <= lastToken'
    PROVE  ProcessTypeOK'
<1>1. pc' \in [Req -> Pc] /\ local' \in [Req -> Local \cup {NoLocal}]
  BY DEF Begin, ProcessTypeOK
<1>2. ASSUME NEW s \in Req, pc'[s] # "idle"
      PROVE  local'[s] \in Local /\ local'[s].row.token <= lastToken'
  <2>1. CASE s = r
    BY <2>1 DEF Begin, ProcessTypeOK
  <2>2. CASE s # r
    <3>1. local'[s] = local[s] /\ pc[s] # "idle"
      BY <1>2, <2>2 DEF Begin, ProcessTypeOK
    <3>2. local[s] \in Local /\ local[s].row.token <= lastToken
      BY <3>1 DEF ProcessTypeOK
    <3>3. local[s].row.token \in Nat
      BY <3>2 DEF Local, Row
    <3> QED BY <3>1, <3>2, <3>3
  <2> QED BY <2>1, <2>2
<1> QED BY <1>1, <1>2 DEF ProcessTypeOK

\* Returning keeps them.
LEMMA FinishTypes ==
    ASSUME ProcessTypeOK, NEW r \in Req, Finish(r), lastToken' = lastToken
    PROVE  ProcessTypeOK'
BY Labels DEF Finish, ProcessTypeOK

\* A request that runs has a complete row.
LEMMA LocalTypes ==
    ASSUME TypeOK, NEW r \in Req, pc[r] # "idle"
    PROVE  /\ local[r].key \in Key /\ local[r].row \in Row
           /\ local[r].row.token \in 1..lastToken
           /\ local[r].kind \in Kind \cup {None}
           /\ local[r].keep \in BOOLEAN /\ local[r].first \in BOOLEAN
<1>1. local[r] \in Local /\ local[r].row.token <= lastToken
  BY DEF TypeOK, ProcessTypeOK
<1>2. local[r].row.token \in Nat \ {0} /\ lastToken \in Nat
  BY <1>1, EnsAssumption DEF Local, Row, TypeOK
<1> QED BY <1>1, <1>2 DEF Local

\* The row for a new address is complete and its token is drawn.
LEMMA RowWithAddressTypes ==
    ASSUME TypeOK, NEW k \in Key, NEW e \in Email
    PROVE  /\ RowWithAddress(k, e) \in Row
           /\ prefs[k] = NoRow => RowWithAddress(k, e).token = lastToken + 1
           /\ prefs[k] # NoRow => RowWithAddress(k, e).token = prefs[k].token
<1>1. lastToken \in Nat /\ Default \in SUBSET Kind
  BY EnsAssumption DEF TypeOK
<1>2. CASE prefs[k] = NoRow
  BY <1>1, <1>2 DEF RowWithAddress, Row
<1>3. CASE prefs[k] # NoRow
  <2>1. prefs[k] \in Row
    BY <1>3 DEF TypeOK
  <2> QED BY <1>3, <2>1 DEF RowWithAddress, Row
<1> QED BY <1>2, <1>3

\* Tokens of stored rows were drawn.
TokensDrawn == \A k \in Key : prefs[k].token <= lastToken

\* The late mails of a state keep their type.
LEMMA LateTypes ==
    ASSUME TypeOK, NEW after
    PROVE  LateAfter(after) \in [Key \X Kind -> Nat]
BY DEF TypeOK, LateAfter

\* Every step keeps the types.
LEMMA TypeStep == TypeOK /\ TokensDrawn /\ [Next]_vars => (TypeOK /\ TokensDrawn)'
<1> SUFFICES ASSUME TypeOK, TokensDrawn, [Next]_vars PROVE (TypeOK /\ TokensDrawn)'
  OBVIOUS
<1>1. /\ lastToken \in Nat /\ MaxTokens \in Nat /\ ProcessTypeOK
      /\ \A k \in Key : prefs[k].token \in Nat
  BY RowTypes, EnsAssumption DEF TypeOK
<1>2. ASSUME NEW r \in Req, NEW k \in Key, NEW e \in Email, SetEmail(r, k, e)
      PROVE  (TypeOK /\ TokensDrawn)'
  <2> DEFINE row == RowWithAddress(k, e)
  <2>1. row \in Row /\ row.token \in Nat \ {0} /\ row.token <= MaxTokens
    BY <1>2, RowWithAddressTypes DEF SetEmail, Row
  <2>2. lastToken' \in 0..MaxTokens /\ lastToken <= lastToken' /\ row.token <= lastToken'
    <3> HIDE DEF row
    <3>1. lastToken' = IF row.token > lastToken THEN row.token ELSE lastToken
      BY <1>2 DEF SetEmail, row
    <3> QED BY <1>1, <2>1, <3>1 DEF TypeOK
  <2>3. ProcessTypeOK'
    <3>1. [key |-> k, row |-> row, first |-> prefs[k] = NoRow, kind |-> None, keep |-> FALSE] \in Local
      BY <2>1 DEF Local
    <3> QED BY <1>1, <1>2, <2>2, <3>1, BeginTypes, Labels DEF SetEmail
  <2>4. links' \in SUBSET [token: 1..lastToken', key: Key]
    BY <1>1, <1>2, <2>2 DEF SetEmail, TypeOK
  <2>5. TokensDrawn'
    BY <1>1, <1>2, <2>2 DEF SetEmail, TokensDrawn
  <2> QED BY <1>2, <2>2, <2>3, <2>4, <2>5 DEF SetEmail, TypeOK
<1>3. ASSUME NEW r \in Req, Upsert(r) PROVE (TypeOK /\ TokensDrawn)'
  <2>1. local[r].key \in Key /\ local[r].row \in Row /\ local[r].row.token <= lastToken
    BY <1>1, <1>3, LocalTypes DEF Upsert
  <2>2. ProcessTypeOK'
    BY <1>1, <1>3, FinishTypes DEF Upsert
  <2>3. late' \in [Key \X Kind -> Nat]
    BY <1>3, LateTypes DEF Upsert
  <2>4. prefs' \in [Key -> Row \cup {NoRow}] /\ TokensDrawn'
    BY <1>3, <2>1 DEF Upsert, TypeOK, TokensDrawn
  <2> QED BY <1>3, <2>1, <2>2, <2>3, <2>4 DEF Upsert, TypeOK
<1>4. ASSUME NEW r \in Req, NEW k \in Key, NEW enabled \in BOOLEAN,
             NEW choice \in (SUBSET Kind) \cup {None}, OpenPreferences(r, k, enabled, choice)
      PROVE  (TypeOK /\ TokensDrawn)'
  <2>1. prefs[k] \in Row /\ prefs[k].token <= lastToken
    <3>1. PICK link \in links : prefs[k].token = link.token
      BY <1>4 DEF OpenPreferences
    <3>2. link.token \in 1..lastToken
      BY DEF TypeOK
    <3> QED BY <1>1, <3>1, <3>2, RowTypes DEF TypeOK
  <2> DEFINE row == [prefs[k] EXCEPT !.enabled = enabled,
                                     !.flags = IF choice = None THEN @ ELSE choice]
  <2> DEFINE values == [key |-> k, first |-> FALSE, kind |-> None, keep |-> choice = None,
                        row |-> row]
  <2>2. row \in Row /\ row.token <= lastToken
    <3>1. CASE choice = None
      BY <2>1, <3>1 DEF Row
    <3>2. CASE choice # None
      <4>1. choice \in SUBSET Kind
        BY <3>2
      <4> QED BY <2>1, <3>2, <4>1 DEF Row
    <3> QED BY <3>1, <3>2
  <2>3. values \in Local /\ values.row.token <= lastToken
    BY <2>2 DEF Local
  <2>4. ProcessTypeOK'
    <3>1. Begin(r, "update", values) /\ lastToken' = lastToken
      BY <1>4 DEF OpenPreferences
    <3> HIDE DEF values
    <3> QED BY <1>1, <2>3, <3>1, BeginTypes, Labels
  <2> QED BY <1>4, <2>4 DEF OpenPreferences, TypeOK, TokensDrawn
<1>5. ASSUME NEW r \in Req, Update(r) PROVE (TypeOK /\ TokensDrawn)'
  <2>1. local[r].key \in Key /\ local[r].row \in Row
    BY <1>5, LocalTypes DEF Update
  <2>2. ProcessTypeOK'
    BY <1>1, <1>5, FinishTypes DEF Update
  <2>3. late' \in [Key \X Kind -> Nat]
    BY <1>5, LateTypes DEF Update
  <2>4. prefs' = UpdatedRows(local[r].row)
    BY <1>5 DEF Update
  <2>5. ASSUME NEW k \in Key
        PROVE  prefs'[k] \in Row \cup {NoRow} /\ prefs'[k].token = prefs[k].token
    <3>1. CASE prefs[k].token = local[r].row.token
      <4>1. prefs[k] \in Row
        BY <2>1, <3>1, RowTypes DEF TypeOK, Row
      <4> QED BY <2>1, <2>4, <3>1, <4>1 DEF UpdatedRows, Row
    <3>2. CASE prefs[k].token # local[r].row.token
      BY <2>4, <3>2 DEF UpdatedRows, TypeOK
    <3> QED BY <3>1, <3>2
  <2>6. prefs' \in [Key -> Row \cup {NoRow}]
    BY <2>4, <2>5 DEF UpdatedRows
  <2>7. chosen' \in [Key -> Settings] /\ disturbed' \in SUBSET Key
    BY <1>5, <2>1 DEF Update, TypeOK, Settings, Row
  <2>8. TokensDrawn'
    BY <1>5, <2>5 DEF Update, TokensDrawn
  <2> QED BY <1>5, <2>2, <2>3, <2>6, <2>7, <2>8 DEF Update, TypeOK
<1>6. ASSUME NEW k \in Key, GetLink(k) PROVE (TypeOK /\ TokensDrawn)'
  <2>1. prefs[k].token \in 1..lastToken
    BY <1>1, <1>6, RowTypes DEF GetLink, TypeOK, TokensDrawn
  <2>2. [token |-> prefs[k].token, key |-> k] \in [token: 1..lastToken, key: Key]
    BY <2>1
  <2> QED BY <1>6, <2>2 DEF GetLink, TypeOK, ProcessTypeOK, process, TokensDrawn
<1>7. ASSUME NEW r \in Req, NEW k \in Key, NEW kind \in Kind, CheckPreferences(r, k, kind)
      PROVE  (TypeOK /\ TokensDrawn)'
  <2>1. prefs[k] \in Row /\ prefs[k].token <= lastToken
    BY <1>7 DEF CheckPreferences, MaySend, Wants, TypeOK, TokensDrawn
  <2>2. [key |-> k, row |-> prefs[k], first |-> FALSE, kind |-> kind, keep |-> FALSE] \in Local
    BY <2>1 DEF Local
  <2>3. ProcessTypeOK'
    BY <1>1, <1>7, <2>1, <2>2, BeginTypes, Labels DEF CheckPreferences
  <2> QED BY <1>7, <2>3 DEF CheckPreferences, TypeOK, TokensDrawn
<1>8. ASSUME NEW r \in Req, Mail(r) PROVE (TypeOK /\ TokensDrawn)'
  <2>1. local[r].key \in Key /\ local[r].row.token \in 1..lastToken
    BY <1>8, LocalTypes DEF Mail
  <2>2. ProcessTypeOK'
    BY <1>1, <1>8, FinishTypes DEF Mail
  <2>3. late' \in [Key \X Kind -> Nat]
    <3> DEFINE slot == <<local[r].key, local[r].kind>>
    <3>1. late' = late \/ late' = [late EXCEPT ![slot] = @ + 1]
      BY <1>8 DEF Mail
    <3>2. late \in [Key \X Kind -> Nat]
      BY DEF TypeOK
    <3> HIDE DEF slot
    <3> QED BY <3>1, <3>2
  <2>4. [token |-> local[r].row.token, key |-> local[r].key] \in [token: 1..lastToken, key: Key]
    BY <2>1
  <2> QED BY <1>8, <2>2, <2>3, <2>4 DEF Mail, TypeOK, TokensDrawn
<1>9. ASSUME NEW r \in Req, Fail(r) PROVE (TypeOK /\ TokensDrawn)'
  BY <1>1, <1>9, FinishTypes DEF Fail, TypeOK, TokensDrawn
<1>10. CASE UNCHANGED vars
  BY <1>10 DEF vars, process, TypeOK, ProcessTypeOK, TokensDrawn
<1> QED BY <1>2, <1>3, <1>4, <1>5, <1>6, <1>7, <1>8, <1>9, <1>10 DEF Next

\* Every variable always has its type, and every stored or pending row a token
\* that was drawn (Service::set_email_notification_preferences).
THEOREM TypeCorrect == Spec => []TypeOK
<1>1. Init => TypeOK /\ TokensDrawn
  BY EnsAssumption DEF Init, TypeOK, ProcessTypeOK, TokensDrawn, Settings, Pc, NoRow
<1> QED BY <1>1, TypeStep, PTL DEF Spec
-----------------------------------------------------------------------------
(* Links *)

\* Every token that is stored, pending or given out belongs to one key.
OwnedBy(owner) ==
    /\ \A k \in Key : prefs[k] # NoRow => owner[prefs[k].token] = k
    /\ \A r \in Req : pc[r] # "idle" => owner[local[r].row.token] = local[r].key
    /\ \A link \in links : owner[link.token] = link.key

TokensOwned == \E owner \in [1..lastToken -> Key] : OwnedBy(owner)

\* Request r runs and found a row.
Found(r) == pc[r] # "idle" /\ ~(pc[r] = "upsert" /\ local[r].first)

\* Until first confirmations of a key race, its links have the token of its
\* row, and so do the requests that found it.
TokensKept ==
    \A k \in Key \ raced :
        /\ \A link \in links : link.key = k => link.token = prefs[k].token
        /\ \A r \in Req :
              Found(r) /\ local[r].key = k => local[r].row.token = prefs[k].token

LinkInv == TypeOK /\ TokensDrawn /\ TokensOwned /\ TokensKept

\* What starting a request changes, and what returning does.
LEMMA BeginEffect ==
    ASSUME ProcessTypeOK, NEW r \in Req, NEW label, NEW values, Begin(r, label, values)
    PROVE  /\ pc[r] = "idle" /\ pc'[r] = label /\ local'[r] = values
           /\ \A s \in Req \ {r} : pc'[s] = pc[s] /\ local'[s] = local[s]
BY DEF ProcessTypeOK, Begin

LEMMA FinishEffect ==
    ASSUME ProcessTypeOK, NEW r \in Req, Finish(r)
    PROVE  /\ pc'[r] = "idle"
           /\ \A s \in Req \ {r} : pc'[s] = pc[s] /\ local'[s] = local[s]
BY DEF ProcessTypeOK, Finish

\* Preferences are opened on a row that is there, and keep its token.
LEMMA OpenedRow ==
    ASSUME TypeOK, NEW r \in Req, NEW k \in Key, NEW enabled, NEW choice,
           OpenPreferences(r, k, enabled, choice)
    PROVE  prefs[k] \in Row /\ prefs[k] # NoRow
<1>1. PICK link \in links : prefs[k].token = link.token
  BY DEF OpenPreferences
<1>2. link.token # 0
  BY DEF TypeOK
<1> QED BY <1>1, <1>2, RowTypes DEF TypeOK

LEMMA OpenEffect ==
    ASSUME TypeOK, NEW r \in Req, NEW k \in Key, NEW enabled, NEW choice,
           OpenPreferences(r, k, enabled, choice)
    PROVE  /\ pc'[r] = "update" /\ local'[r].key = k
           /\ local'[r].row.token = prefs[k].token
           /\ ~local'[r].first /\ local'[r].keep = (choice = None)
           /\ choice = None => local'[r].row.flags = prefs[k].flags
           /\ \A s \in Req \ {r} : pc'[s] = pc[s] /\ local'[s] = local[s]
<1> DEFINE row == [prefs[k] EXCEPT !.enabled = enabled,
                                   !.flags = IF choice = None THEN @ ELSE choice]
           values == [key |-> k, first |-> FALSE, kind |-> None, keep |-> choice = None,
                      row |-> row]
<1>1. Begin(r, "update", values)
  BY DEF OpenPreferences
<1>2. row.token = prefs[k].token /\ (choice = None => row.flags = prefs[k].flags)
  BY OpenedRow DEF Row
<1>3. /\ values.key = k /\ values.row = row /\ ~values.first
      /\ values.keep = (choice = None)
  OBVIOUS
<1> HIDE DEF row, values
<1>4. /\ pc'[r] = "update" /\ local'[r] = values
      /\ \A s \in Req \ {r} : pc'[s] = pc[s] /\ local'[s] = local[s]
  BY <1>1, BeginEffect DEF TypeOK
<1> QED BY <1>2, <1>3, <1>4

\* A row keeps its token when settings are written.
LEMMA UpdatedTokens ==
    ASSUME TypeOK, NEW row \in Row, NEW k \in Key
    PROVE  /\ UpdatedRows(row)[k].token = prefs[k].token
           /\ UpdatedRows(row)[k] = NoRow <=> prefs[k] = NoRow
           /\ prefs[k].token # row.token => UpdatedRows(row)[k] = prefs[k]
<1>1. CASE prefs[k].token = row.token
  <2>1. prefs[k] \in Row
    BY <1>1, RowTypes DEF TypeOK, Row
  <2>2. UpdatedRows(row)[k] = [prefs[k] EXCEPT !.enabled = row.enabled, !.flags = row.flags]
    BY <1>1 DEF UpdatedRows
  <2>3. UpdatedRows(row)[k] \in Row /\ UpdatedRows(row)[k].token = prefs[k].token
    BY <2>1, <2>2 DEF Row
  <2>4. prefs[k].token # 0 /\ NoRow.token = 0
    BY <2>1 DEF Row, NoRow
  <2> QED BY <1>1, <2>3, <2>4
<1>2. CASE prefs[k].token # row.token
  BY <1>2 DEF UpdatedRows
<1> QED BY <1>1, <1>2

\* A step that neither draws a token nor brings one to another key keeps the
\* ownership of tokens.
LEMMA OwnedStep == LinkInv /\ [Next]_vars => TokensOwned'
<1> SUFFICES ASSUME LinkInv, [Next]_vars PROVE TokensOwned'
  OBVIOUS
<1>1. PICK owner \in [1..lastToken -> Key] : OwnedBy(owner)
  BY DEF LinkInv, TokensOwned
<1>2. TypeOK /\ ProcessTypeOK /\ lastToken \in Nat
  BY DEF LinkInv, TypeOK
<1>3. ASSUME OwnedBy(owner)', lastToken' = lastToken PROVE TokensOwned'
  BY <1>3 DEF TokensOwned
<1>4. ASSUME NEW r \in Req, NEW k \in Key, NEW e \in Email, SetEmail(r, k, e)
      PROVE  TokensOwned'
  <2> DEFINE row == RowWithAddress(k, e)
  <2>1. /\ pc[r] = "idle" /\ pc'[r] = "upsert"
        /\ local'[r].key = k /\ local'[r].row = row
        /\ \A s \in Req \ {r} : pc'[s] = pc[s] /\ local'[s] = local[s]
    BY <1>2, <1>4, BeginEffect DEF SetEmail
  <2>2. prefs' = prefs /\ links' = links
    BY <1>4 DEF SetEmail
  <2>3. lastToken' = IF row.token > lastToken THEN row.token ELSE lastToken
    BY <1>4 DEF SetEmail
  <2>4. CASE prefs[k] # NoRow
    <3>1. row.token = prefs[k].token /\ prefs[k].token <= lastToken /\ prefs[k].token \in Nat
      BY <1>2, <2>4, RowTypes, RowWithAddressTypes DEF LinkInv, TokensDrawn, TypeOK
    <3> HIDE DEF row
    <3>2. lastToken' = lastToken
      BY <1>2, <2>3, <3>1
    <3>3. OwnedBy(owner)'
      BY <1>1, <2>1, <2>2, <2>4, <3>1 DEF OwnedBy
    <3> QED BY <1>3, <3>2, <3>3
  <2>5. CASE prefs[k] = NoRow
    <3>1. row.token = lastToken + 1
      BY <1>2, <2>5, RowWithAddressTypes
    <3> HIDE DEF row
    <3>2. lastToken' = lastToken + 1
      BY <1>2, <2>3, <3>1
    <3>3. PICK grown \in [1..lastToken + 1 -> Key] :
             /\ grown[lastToken + 1] = k
             /\ \A t \in 1..lastToken : grown[t] = owner[t]
      <4> DEFINE g == [t \in 1..lastToken + 1 |-> IF t = lastToken + 1 THEN k ELSE owner[t]]
      <4>1. g \in [1..lastToken + 1 -> Key]
        BY <1>2
      <4>2. g[lastToken + 1] = k /\ \A t \in 1..lastToken : g[t] = owner[t]
        BY <1>2
      <4> HIDE DEF g
      <4> QED BY <4>1, <4>2
    <3>4. \A j \in Key : prefs[j] # NoRow => prefs[j].token \in 1..lastToken
      BY <1>2, RowTypes DEF LinkInv, TokensDrawn, TypeOK
    <3>5. \A s \in Req : pc[s] # "idle" => local[s].row.token \in 1..lastToken
      BY <1>2, LocalTypes
    <3>6. \A link \in links : link.token \in 1..lastToken
      BY <1>2 DEF TypeOK
    <3>7. OwnedBy(grown)'
      BY <1>1, <2>1, <2>2, <3>1, <3>3, <3>4, <3>5, <3>6 DEF OwnedBy
    <3> QED BY <3>2, <3>3, <3>7 DEF TokensOwned
  <2> QED BY <2>4, <2>5
<1>5. ASSUME NEW r \in Req, Upsert(r) PROVE TokensOwned'
  <2>1. /\ pc'[r] = "idle"
        /\ \A s \in Req \ {r} : pc'[s] = pc[s] /\ local'[s] = local[s]
    BY <1>2, <1>5, FinishEffect DEF Upsert
  <2>2. pc[r] # "idle" /\ links' = links /\ lastToken' = lastToken
    BY <1>5 DEF Upsert
  <2>3. \A j \in Key : prefs'[j] = IF j = local[r].key THEN local[r].row ELSE prefs[j]
    BY <1>2, <1>5 DEF Upsert, TypeOK
  <2>4. OwnedBy(owner)'
    BY <1>1, <2>1, <2>2, <2>3 DEF OwnedBy
  <2> QED BY <1>3, <2>2, <2>4
<1>6. ASSUME NEW r \in Req, NEW k \in Key, NEW enabled \in BOOLEAN,
             NEW choice \in (SUBSET Kind) \cup {None}, OpenPreferences(r, k, enabled, choice)
      PROVE  TokensOwned'
  <2>1. prefs[k] \in Row /\ prefs[k] # NoRow
    BY <1>2, <1>6, OpenedRow
  <2>2. /\ pc'[r] = "update" /\ local'[r].key = k /\ local'[r].row.token = prefs[k].token
        /\ \A s \in Req \ {r} : pc'[s] = pc[s] /\ local'[s] = local[s]
    BY <1>2, <1>6, <2>1, OpenEffect
  <2>3. prefs' = prefs /\ links' = links /\ lastToken' = lastToken
    BY <1>6 DEF OpenPreferences
  <2>4. OwnedBy(owner)'
    BY <1>1, <2>1, <2>2, <2>3 DEF OwnedBy
  <2> QED BY <1>3, <2>3, <2>4
<1>7. ASSUME NEW r \in Req, Update(r) PROVE TokensOwned'
  <2>1. /\ pc'[r] = "idle"
        /\ \A s \in Req \ {r} : pc'[s] = pc[s] /\ local'[s] = local[s]
    BY <1>2, <1>7, FinishEffect DEF Update
  <2>2. /\ pc[r] # "idle" /\ links' = links /\ lastToken' = lastToken
        /\ prefs' = UpdatedRows(local[r].row)
    BY <1>7 DEF Update
  <2>3. \A j \in Key : prefs'[j].token = prefs[j].token /\ (prefs'[j] = NoRow <=> prefs[j] = NoRow)
    BY <1>2, <2>2, LocalTypes, UpdatedTokens
  <2>4. OwnedBy(owner)'
    BY <1>1, <2>1, <2>2, <2>3 DEF OwnedBy
  <2> QED BY <1>3, <2>2, <2>4
<1>8. ASSUME NEW k \in Key, GetLink(k) PROVE TokensOwned'
  <2>1. /\ prefs[k] # NoRow /\ links' = links \cup {[token |-> prefs[k].token, key |-> k]}
        /\ prefs' = prefs /\ pc' = pc /\ local' = local /\ lastToken' = lastToken
    BY <1>8 DEF GetLink, process
  <2>2. OwnedBy(owner)'
    BY <1>1, <2>1 DEF OwnedBy
  <2> QED BY <1>3, <2>1, <2>2
<1>9. ASSUME NEW r \in Req, NEW k \in Key, NEW kind \in Kind, CheckPreferences(r, k, kind)
      PROVE  TokensOwned'
  <2>1. /\ pc'[r] = "mail" /\ local'[r].key = k /\ local'[r].row = prefs[k]
        /\ \A s \in Req \ {r} : pc'[s] = pc[s] /\ local'[s] = local[s]
    BY <1>2, <1>9, BeginEffect DEF CheckPreferences
  <2>2. prefs[k] # NoRow /\ prefs' = prefs /\ links' = links /\ lastToken' = lastToken
    BY <1>9 DEF CheckPreferences, MaySend, Wants
  <2>3. OwnedBy(owner)'
    BY <1>1, <2>1, <2>2 DEF OwnedBy
  <2> QED BY <1>3, <2>2, <2>3
<1>10. ASSUME NEW r \in Req, Mail(r) PROVE TokensOwned'
  <2>1. /\ pc'[r] = "idle"
        /\ \A s \in Req \ {r} : pc'[s] = pc[s] /\ local'[s] = local[s]
    BY <1>2, <1>10, FinishEffect DEF Mail
  <2>2. /\ pc[r] # "idle" /\ prefs' = prefs /\ lastToken' = lastToken
        /\ links' = links \cup {[token |-> local[r].row.token, key |-> local[r].key]}
    BY <1>10 DEF Mail
  <2>3. OwnedBy(owner)'
    BY <1>1, <2>1, <2>2 DEF OwnedBy
  <2> QED BY <1>3, <2>2, <2>3
<1>11. ASSUME NEW r \in Req, Fail(r) PROVE TokensOwned'
  <2>1. /\ pc'[r] = "idle"
        /\ \A s \in Req \ {r} : pc'[s] = pc[s] /\ local'[s] = local[s]
    BY <1>2, <1>11, FinishEffect DEF Fail
  <2>2. prefs' = prefs /\ links' = links /\ lastToken' = lastToken
    BY <1>11 DEF Fail
  <2>3. OwnedBy(owner)'
    BY <1>1, <2>1, <2>2 DEF OwnedBy
  <2> QED BY <1>3, <2>2, <2>3
<1>12. CASE UNCHANGED vars
  <2>1. OwnedBy(owner)'
    BY <1>1, <1>12 DEF vars, process, OwnedBy
  <2> QED BY <1>3, <1>12, <2>1 DEF vars
<1> QED BY <1>4, <1>5, <1>6, <1>7, <1>8, <1>9, <1>10, <1>11, <1>12 DEF Next
\* Only a first confirmation that finds a row changes the token of a row, and
\* then the key is one of the raced.
LEMMA KeptStep == LinkInv /\ [Next]_vars => TokensKept'
<1> SUFFICES ASSUME LinkInv, [Next]_vars PROVE TokensKept'
  OBVIOUS
<1>1. TypeOK /\ ProcessTypeOK /\ TokensKept /\ lastToken \in Nat
  BY DEF LinkInv, TypeOK
<1>2. PICK owner \in [1..lastToken -> Key] : OwnedBy(owner)
  BY DEF LinkInv, TokensOwned
<1>3. ASSUME NEW r \in Req, NEW k \in Key, NEW e \in Email, SetEmail(r, k, e)
      PROVE  TokensKept'
  <2>1. /\ pc'[r] = "upsert" /\ local'[r].key = k
        /\ local'[r].first = (prefs[k] = NoRow) /\ local'[r].row = RowWithAddress(k, e)
        /\ \A s \in Req \ {r} : pc'[s] = pc[s] /\ local'[s] = local[s]
    BY <1>1, <1>3, BeginEffect DEF SetEmail
  <2>2. prefs' = prefs /\ links' = links /\ raced' = raced
    BY <1>3 DEF SetEmail
  <2>3. ~local'[r].first => local'[r].row.token = prefs[k].token
    BY <1>1, <2>1, RowWithAddressTypes
  <2> QED BY <1>1, <2>1, <2>2, <2>3 DEF TokensKept, Found
<1>4. ASSUME NEW r \in Req, Upsert(r) PROVE TokensKept'
  <2> DEFINE k == local[r].key
  <2>1. /\ pc'[r] = "idle" /\ pc[r] = "upsert"
        /\ \A s \in Req \ {r} : pc'[s] = pc[s] /\ local'[s] = local[s]
    BY <1>1, <1>4, FinishEffect DEF Upsert
  <2>2. /\ links' = links /\ k \in Key
        /\ raced' = IF local[r].first /\ prefs[k] # NoRow THEN raced \cup {k} ELSE raced
        /\ \A j \in Key : prefs'[j] = IF j = k THEN local[r].row ELSE prefs[j]
    BY <1>1, <1>4, <2>1, LocalTypes DEF Upsert, TypeOK
  <2>3. CASE local[r].first /\ prefs[k] # NoRow
    BY <1>1, <2>1, <2>2, <2>3 DEF TokensKept, Found
  <2>4. CASE ~local[r].first
    <3>1. k \notin raced => \A j \in Key : prefs'[j].token = prefs[j].token
      BY <1>1, <2>1, <2>2, <2>4 DEF TokensKept, Found
    <3>2. \A j \in Key \ {k} : prefs'[j] = prefs[j]
      BY <2>2
    <3>3. raced' = raced
      BY <2>2, <2>4
    <3> QED BY <1>1, <2>1, <2>2, <3>1, <3>2, <3>3 DEF TokensKept, Found
  <2>5. CASE local[r].first /\ prefs[k] = NoRow
    <3>1. prefs[k].token = 0
      BY <2>5 DEF NoRow
    <3>2. k \notin raced => \A link \in links : link.key # k
      <4>1. \A link \in links : link.token # 0
        BY <1>1 DEF TypeOK
      <4> QED BY <1>1, <2>2, <3>1, <4>1 DEF TokensKept, Found
    <3>3. k \notin raced =>
             \A s \in Req : pc[s] # "idle" /\ local[s].key = k => ~Found(s)
      <4>1. \A s \in Req : pc[s] # "idle" => local[s].row.token # 0
        BY <1>1, LocalTypes
      <4> QED BY <1>1, <2>2, <3>1, <4>1 DEF TokensKept, Found
    <3> QED BY <1>1, <2>1, <2>2, <2>5, <3>2, <3>3 DEF TokensKept, Found
  <2> QED BY <2>3, <2>4, <2>5
<1>5. ASSUME NEW r \in Req, NEW k \in Key, NEW enabled \in BOOLEAN,
             NEW choice \in (SUBSET Kind) \cup {None}, OpenPreferences(r, k, enabled, choice)
      PROVE  TokensKept'
  <2>1. /\ pc'[r] = "update" /\ local'[r].key = k /\ local'[r].row.token = prefs[k].token
        /\ \A s \in Req \ {r} : pc'[s] = pc[s] /\ local'[s] = local[s]
    BY <1>1, <1>5, OpenEffect
  <2>2. prefs' = prefs /\ links' = links /\ raced' = raced
    BY <1>5 DEF OpenPreferences
  <2> QED BY <1>1, <2>1, <2>2 DEF TokensKept, Found
<1>6. ASSUME NEW r \in Req, Update(r) PROVE TokensKept'
  <2>1. /\ pc'[r] = "idle"
        /\ \A s \in Req \ {r} : pc'[s] = pc[s] /\ local'[s] = local[s]
    BY <1>1, <1>6, FinishEffect DEF Update
  <2>2. /\ pc[r] # "idle" /\ links' = links /\ raced' = raced
        /\ prefs' = UpdatedRows(local[r].row)
    BY <1>6 DEF Update
  <2>3. \A j \in Key : prefs'[j].token = prefs[j].token
    BY <1>1, <2>2, LocalTypes, UpdatedTokens
  <2> QED BY <1>1, <2>1, <2>2, <2>3 DEF TokensKept, Found
<1>7. ASSUME NEW k \in Key, GetLink(k) PROVE TokensKept'
  <2>1. /\ links' = links \cup {[token |-> prefs[k].token, key |-> k]} /\ raced' = raced
        /\ prefs' = prefs /\ pc' = pc /\ local' = local
    BY <1>7 DEF GetLink, process
  <2> QED BY <1>1, <2>1 DEF TokensKept, Found
<1>8. ASSUME NEW r \in Req, NEW k \in Key, NEW kind \in Kind, CheckPreferences(r, k, kind)
      PROVE  TokensKept'
  <2>1. /\ pc'[r] = "mail" /\ local'[r].key = k /\ local'[r].row = prefs[k]
        /\ \A s \in Req \ {r} : pc'[s] = pc[s] /\ local'[s] = local[s]
    BY <1>1, <1>8, BeginEffect DEF CheckPreferences
  <2>2. prefs' = prefs /\ links' = links /\ raced' = raced
    BY <1>8 DEF CheckPreferences
  <2> QED BY <1>1, <2>1, <2>2 DEF TokensKept, Found
<1>9. ASSUME NEW r \in Req, Mail(r) PROVE TokensKept'
  <2>1. /\ pc'[r] = "idle"
        /\ \A s \in Req \ {r} : pc'[s] = pc[s] /\ local'[s] = local[s]
    BY <1>1, <1>9, FinishEffect DEF Mail
  <2>2. /\ pc[r] = "mail" /\ prefs' = prefs /\ raced' = raced
        /\ links' = links \cup {[token |-> local[r].row.token, key |-> local[r].key]}
    BY <1>9 DEF Mail
  <2> QED BY <1>1, <2>1, <2>2 DEF TokensKept, Found
<1>10. ASSUME NEW r \in Req, Fail(r) PROVE TokensKept'
  <2>1. /\ pc'[r] = "idle"
        /\ \A s \in Req \ {r} : pc'[s] = pc[s] /\ local'[s] = local[s]
    BY <1>1, <1>10, FinishEffect DEF Fail
  <2>2. prefs' = prefs /\ links' = links /\ raced' = raced
    BY <1>10 DEF Fail
  <2> QED BY <1>1, <2>1, <2>2 DEF TokensKept, Found
<1>11. CASE UNCHANGED vars
  BY <1>1, <1>11 DEF vars, process, TokensKept, Found
<1> QED BY <1>3, <1>4, <1>5, <1>6, <1>7, <1>8, <1>9, <1>10, <1>11 DEF Next

\* The invariant says what the property says.
LEMMA LinkInvImplies == LinkInv => LinksStayValid
<1> SUFFICES ASSUME LinkInv, NEW link \in links PROVE
       /\ link.key \notin raced => prefs[link.key].token = link.token
       /\ \A k \in Key : prefs[k].token = link.token => k = link.key
  BY DEF LinksStayValid
<1>1. PICK owner \in [1..lastToken -> Key] : OwnedBy(owner)
  BY DEF LinkInv, TokensOwned
<1>2. link.key \in Key /\ link.token # 0
  BY DEF LinkInv, TypeOK
<1>3. link.key \notin raced => prefs[link.key].token = link.token
  BY <1>2 DEF LinkInv, TokensKept
<1>4. ASSUME NEW k \in Key, prefs[k].token = link.token PROVE k = link.key
  <2>1. prefs[k] # NoRow
    BY <1>2, <1>4 DEF NoRow
  <2> QED BY <1>1, <1>4, <2>1 DEF OwnedBy
<1> QED BY <1>3, <1>4

\* The invariant holds initially and is kept.
LEMMA LinkInvInit == Init => LinkInv
<1> SUFFICES ASSUME Init PROVE LinkInv
  OBVIOUS
<1>1. TypeOK /\ TokensDrawn
  BY EnsAssumption DEF Init, TypeOK, ProcessTypeOK, TokensDrawn, Settings, Pc, NoRow
<1>2. TokensOwned
  <2> DEFINE none == [t \in 1..0 |-> CHOOSE k \in Key : TRUE]
  <2>1. none \in [1..lastToken -> Key]
    BY DEF Init
  <2>2. OwnedBy(none)
    BY DEF Init, OwnedBy
  <2> QED BY <2>1, <2>2 DEF TokensOwned
<1>3. TokensKept
  BY DEF Init, TokensKept, Found
<1> QED BY <1>1, <1>2, <1>3 DEF LinkInv

LEMMA LinkInvStep == LinkInv /\ [Next]_vars => LinkInv'
BY TypeStep, OwnedStep, KeptStep DEF LinkInv

\* A link that was given out keeps leading to the row of its key, unless first
\* confirmations of the key raced, and never leads to another's
\* (Service::set_email_notification_preferences, update_preferences).
THEOREM LinksLeadToTheirKey == Spec => []LinksStayValid
<1>1. Spec => []LinkInv
  BY LinkInvInit, LinkInvStep, PTL DEF Spec
<1> QED BY <1>1, LinkInvImplies, PTL
-----------------------------------------------------------------------------
(* Settings *)

SettingsOf(row) == [enabled |-> row.enabled, flags |-> row.flags]

\* A key without a row has the default settings; while changes of a key do not
\* overlap, its row and the rows to be written have the settings chosen last,
\* or the flags chosen last when only these are kept.
SettingsKept ==
    /\ \A k \in Key : prefs[k] = NoRow => chosen[k] = [enabled |-> TRUE, flags |-> Default]
    /\ SettingsAsChosen
    /\ \A r \in Req :
          pc[r] = "upsert" /\ local[r].key \notin disturbed
            => SettingsOf(local[r].row) = chosen[local[r].key]
    /\ \A r \in Req :
          pc[r] = "update" /\ local[r].keep /\ local[r].key \notin disturbed
            => local[r].row.flags = chosen[local[r].key].flags
\* Writing settings changes the row of one key at most.
LEMMA UpdateEffect ==
    ASSUME LinkInv, NEW r \in Req, Update(r)
    PROVE  /\ \A j \in Key \ {local[r].key} : prefs'[j] = prefs[j]
           /\ IF prefs[local[r].key].token = local[r].row.token
              THEN /\ prefs[local[r].key] \in Row /\ prefs[local[r].key] # NoRow
                   /\ prefs'[local[r].key] =
                         [prefs[local[r].key] EXCEPT !.enabled = local[r].row.enabled,
                                                     !.flags = local[r].row.flags]
              ELSE prefs'[local[r].key] = prefs[local[r].key]
<1>1. PICK owner \in [1..lastToken -> Key] : OwnedBy(owner)
  BY DEF LinkInv, TokensOwned
<1>2. /\ pc[r] # "idle" /\ prefs' = UpdatedRows(local[r].row)
      /\ local[r].key \in Key /\ local[r].row \in Row /\ local[r].row.token # 0
  BY LocalTypes DEF Update, LinkInv
<1>3. ASSUME NEW j \in Key, prefs[j].token = local[r].row.token
      PROVE  prefs[j] # NoRow /\ prefs[j] \in Row /\ j = local[r].key
  <2>1. prefs[j] # NoRow
    BY <1>2, <1>3 DEF NoRow
  <2>2. prefs[j] \in Row
    BY <2>1 DEF LinkInv, TypeOK
  <2> QED BY <1>1, <1>2, <1>3, <2>1, <2>2 DEF OwnedBy
<1>4. ASSUME NEW j \in Key \ {local[r].key} PROVE prefs'[j] = prefs[j]
  BY <1>2, <1>3, UpdatedTokens DEF LinkInv
<1>5. CASE prefs[local[r].key].token = local[r].row.token
  BY <1>2, <1>3, <1>4, <1>5 DEF UpdatedRows
<1>6. CASE prefs[local[r].key].token # local[r].row.token
  BY <1>2, <1>4, <1>6, UpdatedTokens DEF LinkInv
<1> QED BY <1>4, <1>5, <1>6

\* The parts of SettingsKept.
RowSettingsKept == \A k \in Key \ disturbed : prefs[k] # NoRow => SettingsOf(prefs[k]) = chosen[k]

UpsertKept(r) ==
    pc[r] = "upsert" /\ local[r].key \notin disturbed
      => SettingsOf(local[r].row) = chosen[local[r].key]

UpdateKept(r) ==
    pc[r] = "update" /\ local[r].keep /\ local[r].key \notin disturbed
      => local[r].row.flags = chosen[local[r].key].flags

DefaultKept == \A k \in Key : prefs[k] = NoRow => chosen[k] = [enabled |-> TRUE, flags |-> Default]

LEMMA SettingsParts ==
    SettingsKept <=> /\ DefaultKept /\ RowSettingsKept
                     /\ \A r \in Req : UpsertKept(r) /\ UpdateKept(r)
BY DEF SettingsKept, SettingsAsChosen, DefaultKept, RowSettingsKept, UpsertKept, UpdateKept, SettingsOf

\* A confirmation keeps the settings it read, and a change of preferences that
\* no other write overlaps makes them the ones chosen last.
LEMMA SettingsStep == LinkInv /\ SettingsKept /\ [Next]_vars => SettingsKept'
<1> SUFFICES ASSUME LinkInv, SettingsKept, [Next]_vars PROVE SettingsKept'
  OBVIOUS
<1>1. TypeOK /\ ProcessTypeOK
  BY DEF LinkInv, TypeOK
<1>2. DefaultKept /\ RowSettingsKept /\ \A r \in Req : UpsertKept(r) /\ UpdateKept(r)
  BY SettingsParts
<1>3. ASSUME DefaultKept', RowSettingsKept', \A r \in Req : UpsertKept(r)' /\ UpdateKept(r)'
      PROVE  SettingsKept'
  BY <1>3 DEF SettingsKept, SettingsAsChosen, DefaultKept, RowSettingsKept, UpsertKept,
              UpdateKept, SettingsOf
<1>4. ASSUME NEW r \in Req, prefs' = prefs, chosen' = chosen, disturbed' = disturbed,
             pc'[r] # "idle" => UpsertKept(r)' /\ UpdateKept(r)',
             \A s \in Req \ {r} : pc'[s] = pc[s] /\ local'[s] = local[s]
      PROVE  SettingsKept'
  <2>1. DefaultKept' /\ RowSettingsKept'
    BY <1>2, <1>4 DEF DefaultKept, RowSettingsKept, SettingsOf
  <2>2. UpsertKept(r)' /\ UpdateKept(r)'
    BY <1>4 DEF UpsertKept, UpdateKept
  <2>3. ASSUME NEW s \in Req \ {r} PROVE UpsertKept(s)' /\ UpdateKept(s)'
    BY <1>2, <1>4 DEF UpsertKept, UpdateKept, SettingsOf
  <2> QED BY <1>3, <2>1, <2>2, <2>3
<1>5. ASSUME NEW r \in Req, NEW k \in Key, NEW e \in Email, SetEmail(r, k, e)
      PROVE  SettingsKept'
  <2>1. /\ pc'[r] = "upsert" /\ local'[r].key = k /\ local'[r].row = RowWithAddress(k, e)
        /\ \A s \in Req \ {r} : pc'[s] = pc[s] /\ local'[s] = local[s]
    BY <1>1, <1>5, BeginEffect DEF SetEmail
  <2>2. prefs' = prefs /\ chosen' = chosen /\ disturbed' = disturbed
    BY <1>5 DEF SetEmail
  <2>3. k \notin disturbed => SettingsOf(RowWithAddress(k, e)) = chosen[k]
    <3>1. CASE prefs[k] = NoRow
      BY <1>2, <3>1 DEF DefaultKept, RowWithAddress, SettingsOf
    <3>2. CASE prefs[k] # NoRow
      <4>1. prefs[k] \in Row
        BY <1>1, <3>2 DEF TypeOK
      <4>2. SettingsOf(RowWithAddress(k, e)) = SettingsOf(prefs[k])
        BY <3>2, <4>1 DEF RowWithAddress, SettingsOf, Row
      <4> QED BY <1>2, <3>2, <4>2 DEF RowSettingsKept
    <3> QED BY <3>1, <3>2
  <2>4. UpsertKept(r)' /\ UpdateKept(r)'
    BY <2>1, <2>2, <2>3 DEF UpsertKept, UpdateKept, SettingsOf
  <2> QED BY <1>4, <2>1, <2>2, <2>4
<1>6. ASSUME NEW r \in Req, Upsert(r) PROVE SettingsKept'
  <2> DEFINE k == local[r].key
  <2>1. /\ pc'[r] = "idle" /\ pc[r] = "upsert"
        /\ \A s \in Req \ {r} : pc'[s] = pc[s] /\ local'[s] = local[s]
    BY <1>1, <1>6, FinishEffect DEF Upsert
  <2>2. /\ k \in Key /\ local[r].row # NoRow /\ chosen' = chosen
        /\ disturbed' = IF Writing(k, r) # {} THEN disturbed \cup {k} ELSE disturbed
        /\ \A j \in Key : prefs'[j] = IF j = k THEN local[r].row ELSE prefs[j]
    BY <1>1, <1>6, <2>1, LocalTypes DEF Upsert, TypeOK, NoRow
  <2>3. disturbed \subseteq disturbed'
    BY <2>2
  <2>4. DefaultKept'
    BY <1>2, <2>2 DEF DefaultKept
  <2>5. RowSettingsKept'
    BY <1>2, <2>1, <2>2, <2>3 DEF RowSettingsKept, UpsertKept, SettingsOf
  <2>6. ASSUME NEW s \in Req PROVE UpsertKept(s)' /\ UpdateKept(s)'
    <3>1. CASE s = r
      BY <2>1, <3>1 DEF UpsertKept, UpdateKept
    <3>2. CASE s # r
      BY <1>2, <2>1, <2>2, <2>3, <3>2 DEF UpsertKept, UpdateKept, SettingsOf
    <3> QED BY <3>1, <3>2
  <2> QED BY <1>3, <2>4, <2>5, <2>6
<1>7. ASSUME NEW r \in Req, NEW k \in Key, NEW enabled \in BOOLEAN,
             NEW choice \in (SUBSET Kind) \cup {None}, OpenPreferences(r, k, enabled, choice)
      PROVE  SettingsKept'
  <2>1. /\ pc'[r] = "update" /\ local'[r].key = k /\ local'[r].keep = (choice = None)
        /\ choice = None => local'[r].row.flags = prefs[k].flags
        /\ \A s \in Req \ {r} : pc'[s] = pc[s] /\ local'[s] = local[s]
    BY <1>1, <1>7, OpenEffect
  <2>2. prefs' = prefs /\ chosen' = chosen /\ disturbed' = disturbed
    BY <1>7 DEF OpenPreferences
  <2>3. k \notin disturbed => prefs[k].flags = chosen[k].flags
    <3>1. prefs[k] # NoRow
      BY <1>1, <1>7, OpenedRow
    <3>2. k \notin disturbed => SettingsOf(prefs[k]) = chosen[k]
      BY <1>2, <3>1 DEF RowSettingsKept
    <3> QED BY <3>2 DEF SettingsOf
  <2>4. UpsertKept(r)' /\ UpdateKept(r)'
    BY <2>1, <2>2, <2>3 DEF UpsertKept, UpdateKept
  <2> QED BY <1>4, <2>1, <2>2, <2>4
<1>8. ASSUME NEW r \in Req, Update(r) PROVE SettingsKept'
  <2> DEFINE k == local[r].key
             row == local[r].row
  <2>1. /\ pc'[r] = "idle" /\ pc[r] = "update"
        /\ \A s \in Req \ {r} : pc'[s] = pc[s] /\ local'[s] = local[s]
    BY <1>1, <1>8, FinishEffect DEF Update
  <2>2. k \in Key
    BY <1>1, <2>1, LocalTypes
  <2>3. CASE prefs[k].token # row.token
    <3>1. \A j \in Key : prefs'[j] = prefs[j]
      BY <1>8, <2>2, <2>3, UpdateEffect
    <3>2. chosen' = chosen /\ disturbed' = disturbed
      BY <1>8, <2>3 DEF Update
    <3>3. DefaultKept' /\ RowSettingsKept'
      BY <1>2, <3>1, <3>2 DEF DefaultKept, RowSettingsKept, SettingsOf
    <3>4. ASSUME NEW s \in Req PROVE UpsertKept(s)' /\ UpdateKept(s)'
      <4>1. CASE s = r
        BY <2>1, <4>1 DEF UpsertKept, UpdateKept
      <4>2. CASE s # r
        BY <1>2, <2>1, <3>2, <4>2 DEF UpsertKept, UpdateKept, SettingsOf
      <4> QED BY <4>1, <4>2
    <3> QED BY <1>3, <3>3, <3>4
  <2>4. CASE prefs[k].token = row.token
    <3>1. /\ \A j \in Key \ {k} : prefs'[j] = prefs[j]
          /\ prefs[k] \in Row /\ prefs[k] # NoRow
          /\ prefs'[k] = [prefs[k] EXCEPT !.enabled = row.enabled, !.flags = row.flags]
      BY <1>8, <2>4, UpdateEffect
    <3>2. SettingsOf(prefs'[k]) = [enabled |-> row.enabled, flags |-> row.flags]
      BY <3>1 DEF SettingsOf, Row
    <3>3. prefs'[k].token = prefs[k].token /\ prefs[k].token # 0
      BY <3>1 DEF Row
    <3>4. prefs'[k] # NoRow
      BY <3>3 DEF NoRow
    <3>5. /\ \A j \in Key \ {k} : chosen'[j] = chosen[j]
          /\ chosen'[k] = [enabled |-> row.enabled,
                           flags |-> IF local[r].keep THEN chosen[k].flags ELSE row.flags]
          /\ disturbed' = IF Writing(k, r) # {} THEN disturbed \cup {k}
                          ELSE IF local[r].keep THEN disturbed
                          ELSE disturbed \ {k}
      BY <1>1, <1>8, <2>2, <2>4 DEF Update, TypeOK
    <3>6. \A j \in Key \ {k} : j \in disturbed' <=> j \in disturbed
      BY <3>5
    <3>7. k \notin disturbed' => Writing(k, r) = {}
      BY <3>5
    <3>8. k \notin disturbed' /\ local[r].keep => chosen[k].flags = row.flags
      BY <1>2, <2>1, <3>5 DEF UpdateKept
    <3> HIDE DEF k, row
    <3>9. DefaultKept'
      BY <1>2, <3>1, <3>4, <3>5 DEF DefaultKept
    <3>10. RowSettingsKept'
      <4>1. ASSUME NEW j \in Key \ disturbed', prefs'[j] # NoRow
            PROVE  SettingsOf(prefs'[j]) = chosen'[j]
        <5>1. CASE j = k
          BY <3>2, <3>5, <3>8, <4>1, <5>1
        <5>2. CASE j # k
          BY <1>2, <3>1, <3>5, <3>6, <4>1, <5>2 DEF RowSettingsKept
        <5> QED BY <5>1, <5>2
      <4> QED BY <4>1 DEF RowSettingsKept, SettingsOf
    <3>11. ASSUME NEW s \in Req PROVE UpsertKept(s)' /\ UpdateKept(s)'
      <4>1. CASE s = r
        BY <2>1, <4>1 DEF UpsertKept, UpdateKept
      <4>2. CASE s # r /\ local[s].key = k
        <5>1. k \notin disturbed' => pc[s] \notin {"upsert", "update"}
          BY <3>7, <4>2 DEF Writing
        <5> QED BY <2>1, <4>2, <5>1 DEF UpsertKept, UpdateKept
      <4>3. CASE s # r /\ local[s].key # k
        <5>1. pc[s] # "idle" => local[s].key \in Key \ {k}
          BY <1>1, <4>3, LocalTypes
        <5>2. pc[s] # "idle" => /\ chosen'[local[s].key] = chosen[local[s].key]
                                /\ local[s].key \in disturbed' <=> local[s].key \in disturbed
          BY <3>5, <3>6, <5>1
        <5>3. UpsertKept(s) /\ UpdateKept(s)
          BY <1>2
        <5>4. pc'[s] = pc[s] /\ local'[s] = local[s]
          BY <2>1, <4>3
        <5> QED BY <5>2, <5>3, <5>4 DEF UpsertKept, UpdateKept, SettingsOf
      <4> QED BY <4>1, <4>2, <4>3
    <3> QED BY <1>3, <3>9, <3>10, <3>11
  <2> QED BY <2>3, <2>4
<1>9. ASSUME NEW k \in Key, GetLink(k) PROVE SettingsKept'
  <2>1. prefs' = prefs /\ chosen' = chosen /\ disturbed' = disturbed /\ pc' = pc /\ local' = local
    BY <1>9 DEF GetLink, process
  <2>2. DefaultKept' /\ RowSettingsKept'
    BY <1>2, <2>1 DEF DefaultKept, RowSettingsKept, SettingsOf
  <2>3. ASSUME NEW s \in Req PROVE UpsertKept(s)' /\ UpdateKept(s)'
    BY <1>2, <2>1 DEF UpsertKept, UpdateKept, SettingsOf
  <2> QED BY <1>3, <2>2, <2>3
<1>10. ASSUME NEW r \in Req, NEW k \in Key, NEW kind \in Kind, CheckPreferences(r, k, kind)
      PROVE  SettingsKept'
  <2>1. /\ pc'[r] = "mail"
        /\ \A s \in Req \ {r} : pc'[s] = pc[s] /\ local'[s] = local[s]
    BY <1>1, <1>10, BeginEffect DEF CheckPreferences
  <2>2. prefs' = prefs /\ chosen' = chosen /\ disturbed' = disturbed
    BY <1>10 DEF CheckPreferences
  <2>3. UpsertKept(r)' /\ UpdateKept(r)'
    BY <2>1 DEF UpsertKept, UpdateKept
  <2> QED BY <1>4, <2>1, <2>2, <2>3
<1>11. ASSUME NEW r \in Req, Mail(r) \/ Fail(r) PROVE SettingsKept'
  <2>1. /\ pc'[r] = "idle"
        /\ \A s \in Req \ {r} : pc'[s] = pc[s] /\ local'[s] = local[s]
    BY <1>1, <1>11, FinishEffect DEF Mail, Fail
  <2>2. prefs' = prefs /\ chosen' = chosen /\ disturbed' = disturbed
    BY <1>11 DEF Mail, Fail
  <2>3. UpsertKept(r)' /\ UpdateKept(r)'
    BY <2>1 DEF UpsertKept, UpdateKept
  <2> QED BY <1>4, <2>1, <2>2, <2>3
<1>12. CASE UNCHANGED vars
  <2>1. prefs' = prefs /\ chosen' = chosen /\ disturbed' = disturbed /\ pc' = pc /\ local' = local
    BY <1>12 DEF vars, process
  <2>2. DefaultKept' /\ RowSettingsKept'
    BY <1>2, <2>1 DEF DefaultKept, RowSettingsKept, SettingsOf
  <2>3. ASSUME NEW s \in Req PROVE UpsertKept(s)' /\ UpdateKept(s)'
    BY <1>2, <2>1 DEF UpsertKept, UpdateKept, SettingsOf
  <2> QED BY <1>3, <2>2, <2>3
<1> QED BY <1>5, <1>6, <1>7, <1>8, <1>9, <1>10, <1>11, <1>12 DEF Next

\* Unless changes of a key overlapped, its settings are the ones its owner
\* chose (Service::set_email_notification_preferences, update_preferences).
THEOREM SettingsFollowOwner == Spec => []SettingsAsChosen
<1>1. Init => LinkInv /\ SettingsKept
  BY LinkInvInit DEF Init, SettingsKept, SettingsAsChosen
<1>2. LinkInv /\ SettingsKept /\ [Next]_vars => (LinkInv /\ SettingsKept)'
  BY LinkInvStep, SettingsStep
<1>3. SettingsKept => SettingsAsChosen
  BY DEF SettingsKept
<1> QED BY <1>1, <1>2, <1>3, PTL DEF Spec
-----------------------------------------------------------------------------
(* Mails after the owner unsubscribed *)

Mailing(k, kind) == {r \in Req : pc[r] = "mail" /\ local[r].key = k /\ local[r].kind = kind}

Unsubscribed(k, kind) == prefs[k] # NoRow /\ ~Wants(prefs[k], kind)

\* The late mails, and those that may still become late, are fewer than the
\* requests: one of them is the change that unsubscribed.
CountBounded(k, kind) ==
    IF Unsubscribed(k, kind)
    THEN late[<<k, kind>>] + Cardinality(Mailing(k, kind)) < Cardinality(Req)
    ELSE late[<<k, kind>>] = 0

MailsHaveRow == \A r \in Req : pc[r] = "mail" => local[r].kind \in Kind /\ prefs[local[r].key] # NoRow

LateBounded == MailsHaveRow /\ \A k \in Key, kind \in Kind : CountBounded(k, kind)

\* Sets of requests are finite, and those that leave one out are fewer.
LEMMA RequestSets ==
    ASSUME NEW S \in SUBSET Req, NEW T \in SUBSET S
    PROVE  /\ Cardinality(S) \in Nat /\ Cardinality(T) \in Nat /\ Cardinality(Req) \in Nat
           /\ Cardinality(T) <= Cardinality(S)
           /\ \A r \in S : r \notin T => Cardinality(T) < Cardinality(S)
<1>1. IsFiniteSet(Req) /\ IsFiniteSet(S) /\ IsFiniteSet(T)
  BY EnsAssumption, FS_Subset
<1>2. /\ Cardinality(S) \in Nat /\ Cardinality(T) \in Nat /\ Cardinality(Req) \in Nat
      /\ Cardinality(T) <= Cardinality(S)
  BY <1>1, FS_CardinalityType, FS_Subset
<1>3. ASSUME NEW r \in S, r \notin T PROVE Cardinality(T) < Cardinality(S)
  <2>1. Cardinality(S \ {r}) = Cardinality(S) - 1
    BY <1>1, FS_RemoveElement
  <2>2. T \subseteq S \ {r} /\ IsFiniteSet(S \ {r})
    BY <1>1, <1>3, FS_Subset
  <2>3. Cardinality(T) <= Cardinality(S \ {r})
    BY <2>2, FS_Subset
  <2> QED BY <1>2, <2>1, <2>3
<1> QED BY <1>2, <1>3

\* A count that no step raises stays bounded.
LEMMA CountKept ==
    ASSUME TypeOK, NEW k \in Key, NEW kind \in Kind, CountBounded(k, kind),
           prefs'[k] = prefs[k], late'[<<k, kind>>] = late[<<k, kind>>],
           Mailing(k, kind)' \subseteq Mailing(k, kind)
    PROVE  CountBounded(k, kind)'
<1>1. Mailing(k, kind) \subseteq Req /\ late[<<k, kind>>] \in Nat
  BY DEF Mailing, TypeOK
<1>2. /\ Cardinality(Mailing(k, kind)) \in Nat /\ Cardinality(Mailing(k, kind)') \in Nat
      /\ Cardinality(Req) \in Nat
      /\ Cardinality(Mailing(k, kind)') <= Cardinality(Mailing(k, kind))
  BY <1>1, RequestSets
<1>3. Unsubscribed(k, kind)' <=> Unsubscribed(k, kind)
  BY DEF Unsubscribed, Wants
<1>4. CASE Unsubscribed(k, kind)
  BY <1>1, <1>2, <1>3, <1>4 DEF CountBounded
<1>5. CASE ~Unsubscribed(k, kind)
  BY <1>3, <1>5 DEF CountBounded
<1> QED BY <1>4, <1>5

\* Writing a row bounds the count: the request that writes is not mailing.
LEMMA CountWritten ==
    ASSUME TypeOK, NEW k \in Key, NEW kind \in Kind, CountBounded(k, kind),
           NEW r \in Req, pc[r] \in {"upsert", "update"},
           prefs'[k] = NoRow => prefs[k] = NoRow,
           late' = LateAfter(prefs'),
           Mailing(k, kind)' \subseteq Mailing(k, kind)
    PROVE  CountBounded(k, kind)'
<1>1. Mailing(k, kind) \subseteq Req /\ late[<<k, kind>>] \in Nat
  BY DEF Mailing, TypeOK
<1>2. r \notin Mailing(k, kind)' /\ r \notin Mailing(k, kind)
  BY DEF Mailing
<1>3. /\ Cardinality(Mailing(k, kind)) \in Nat /\ Cardinality(Mailing(k, kind)') \in Nat
      /\ Cardinality(Req) \in Nat
      /\ Cardinality(Mailing(k, kind)') <= Cardinality(Mailing(k, kind))
  BY <1>1, RequestSets
<1>4. Cardinality(Mailing(k, kind)') < Cardinality(Req)
  BY <1>1, <1>2, RequestSets
<1>5. late'[<<k, kind>>] = IF Wants(prefs'[k], kind) THEN 0 ELSE late[<<k, kind>>]
  BY DEF LateAfter
<1>6. Unsubscribed(k, kind)' <=> prefs'[k] # NoRow /\ ~Wants(prefs'[k], kind)
  BY DEF Unsubscribed, Wants
<1>7. CASE Unsubscribed(k, kind)' /\ Unsubscribed(k, kind)
  BY <1>1, <1>3, <1>5, <1>6, <1>7 DEF CountBounded
<1>8. CASE Unsubscribed(k, kind)' /\ ~Unsubscribed(k, kind)
  BY <1>3, <1>4, <1>5, <1>6, <1>8 DEF CountBounded
<1>9. CASE ~Unsubscribed(k, kind)'
  <2>1. CASE Wants(prefs'[k], kind)
    BY <1>5, <1>9, <2>1 DEF CountBounded
  <2>2. CASE ~Wants(prefs'[k], kind)
    <3>1. prefs[k] = NoRow
      BY <1>6, <1>9, <2>2
    <3>2. late[<<k, kind>>] = 0
      BY <3>1 DEF CountBounded, Unsubscribed
    <3> QED BY <1>5, <1>9, <2>2, <3>2 DEF CountBounded
  <2> QED BY <2>1, <2>2
<1> QED BY <1>7, <1>8, <1>9

\* No step counts a mail for which no request was under way.
LEMMA LateStep == LinkInv /\ LateBounded /\ [Next]_vars => LateBounded'
<1> SUFFICES ASSUME LinkInv, LateBounded, [Next]_vars PROVE LateBounded'
  OBVIOUS
<1>1. TypeOK /\ ProcessTypeOK
  BY DEF LinkInv, TypeOK
<1>2. MailsHaveRow /\ \A k \in Key, kind \in Kind : CountBounded(k, kind)
  BY DEF LateBounded
<1>3. ASSUME MailsHaveRow', \A k \in Key, kind \in Kind : CountBounded(k, kind)'
      PROVE  LateBounded'
  BY <1>3 DEF LateBounded
<1>4. ASSUME NEW r \in Req, prefs' = prefs, late' = late, pc'[r] # "mail",
             \A s \in Req \ {r} : pc'[s] = pc[s] /\ local'[s] = local[s]
      PROVE  LateBounded'
  <2>1. MailsHaveRow'
    BY <1>2, <1>4 DEF MailsHaveRow
  <2>2. ASSUME NEW k \in Key, NEW kind \in Kind PROVE CountBounded(k, kind)'
    <3>1. Mailing(k, kind)' \subseteq Mailing(k, kind)
      BY <1>4 DEF Mailing
    <3> QED BY <1>1, <1>2, <1>4, <3>1, CountKept
  <2> QED BY <1>3, <2>1, <2>2
<1>5. ASSUME NEW r \in Req, pc[r] \in {"upsert", "update"}, pc'[r] = "idle",
             \A s \in Req \ {r} : pc'[s] = pc[s] /\ local'[s] = local[s],
             \A k \in Key : prefs'[k] = NoRow => prefs[k] = NoRow,
             late' = LateAfter(prefs')
      PROVE  LateBounded'
  <2>1. MailsHaveRow'
    <3>1. \A s \in Req : pc[s] # "idle" => local[s].key \in Key
      BY <1>1, LocalTypes
    <3> QED BY <1>2, <1>5, <3>1 DEF MailsHaveRow
  <2>2. ASSUME NEW k \in Key, NEW kind \in Kind PROVE CountBounded(k, kind)'
    <3>1. Mailing(k, kind)' \subseteq Mailing(k, kind)
      BY <1>5 DEF Mailing
    <3> QED BY <1>1, <1>2, <1>5, <3>1, CountWritten
  <2> QED BY <1>3, <2>1, <2>2
<1>6. ASSUME NEW r \in Req, NEW k \in Key, NEW e \in Email, SetEmail(r, k, e)
      PROVE  LateBounded'
  <2>1. /\ pc'[r] = "upsert"
        /\ \A s \in Req \ {r} : pc'[s] = pc[s] /\ local'[s] = local[s]
    BY <1>1, <1>6, BeginEffect DEF SetEmail
  <2>2. prefs' = prefs /\ late' = late
    BY <1>6 DEF SetEmail
  <2> QED BY <1>4, <2>1, <2>2
<1>7. ASSUME NEW r \in Req, Upsert(r) PROVE LateBounded'
  <2>1. /\ pc'[r] = "idle" /\ pc[r] = "upsert" /\ late' = LateAfter(prefs')
        /\ \A s \in Req \ {r} : pc'[s] = pc[s] /\ local'[s] = local[s]
    BY <1>1, <1>7, FinishEffect DEF Upsert
  <2>2. local[r].row # NoRow
    BY <1>1, <2>1, LocalTypes DEF NoRow
  <2>3. \A k \in Key : prefs'[k] = NoRow => prefs[k] = NoRow
    BY <1>1, <1>7, <2>2 DEF Upsert, TypeOK
  <2> QED BY <1>5, <2>1, <2>3
<1>8. ASSUME NEW r \in Req, NEW k \in Key, NEW enabled \in BOOLEAN,
             NEW choice \in (SUBSET Kind) \cup {None}, OpenPreferences(r, k, enabled, choice)
      PROVE  LateBounded'
  <2>1. /\ pc'[r] = "update"
        /\ \A s \in Req \ {r} : pc'[s] = pc[s] /\ local'[s] = local[s]
    BY <1>1, <1>8, OpenEffect
  <2>2. prefs' = prefs /\ late' = late
    BY <1>8 DEF OpenPreferences
  <2> QED BY <1>4, <2>1, <2>2
<1>9. ASSUME NEW r \in Req, Update(r) PROVE LateBounded'
  <2>1. /\ pc'[r] = "idle" /\ pc[r] = "update" /\ late' = LateAfter(prefs')
        /\ prefs' = UpdatedRows(local[r].row)
        /\ \A s \in Req \ {r} : pc'[s] = pc[s] /\ local'[s] = local[s]
    BY <1>1, <1>9, FinishEffect DEF Update
  <2>2. \A k \in Key : prefs'[k] = NoRow => prefs[k] = NoRow
    BY <1>1, <2>1, LocalTypes, UpdatedTokens
  <2> QED BY <1>5, <2>1, <2>2
<1>10. ASSUME NEW k \in Key, GetLink(k) PROVE LateBounded'
  <2>1. prefs' = prefs /\ late' = late /\ pc' = pc /\ local' = local
    BY <1>10 DEF GetLink, process
  <2> QED BY <1>2, <2>1 DEF LateBounded, MailsHaveRow, CountBounded, Unsubscribed, Wants, Mailing
<1>11. ASSUME NEW r \in Req, NEW k \in Key, NEW kind \in Kind, CheckPreferences(r, k, kind)
      PROVE  LateBounded'
  <2>1. /\ pc'[r] = "mail" /\ local'[r].key = k /\ local'[r].kind = kind
        /\ \A s \in Req \ {r} : pc'[s] = pc[s] /\ local'[s] = local[s]
    BY <1>1, <1>11, BeginEffect DEF CheckPreferences
  <2>2. prefs' = prefs /\ late' = late /\ Wants(prefs[k], kind)
    BY <1>11 DEF CheckPreferences, MaySend
  <2>3. MailsHaveRow'
    BY <1>2, <2>1, <2>2 DEF MailsHaveRow, Wants
  <2>4. ASSUME NEW j \in Key, NEW sort \in Kind PROVE CountBounded(j, sort)'
    <3>1. CASE j = k /\ sort = kind
      <4>1. ~Unsubscribed(j, sort) /\ ~Unsubscribed(j, sort)'
        BY <2>2, <3>1 DEF Unsubscribed, Wants
      <4>2. late[<<j, sort>>] = 0
        BY <1>2, <4>1 DEF CountBounded
      <4> QED BY <2>2, <4>1, <4>2 DEF CountBounded
    <3>2. CASE ~(j = k /\ sort = kind)
      <4>1. Mailing(j, sort)' \subseteq Mailing(j, sort)
        BY <2>1, <3>2 DEF Mailing
      <4> QED BY <1>1, <1>2, <2>2, <4>1, CountKept
    <3> QED BY <3>1, <3>2
  <2> QED BY <1>3, <2>3, <2>4
<1>12. ASSUME NEW r \in Req, Mail(r) PROVE LateBounded'
  <2>1. /\ pc'[r] = "idle" /\ pc[r] = "mail" /\ prefs' = prefs
        /\ \A s \in Req \ {r} : pc'[s] = pc[s] /\ local'[s] = local[s]
    BY <1>1, <1>12, FinishEffect DEF Mail
  <2>2. PICK k \in Key, kind \in Kind :
           local[r].key = k /\ local[r].kind = kind /\ prefs[k] # NoRow
    BY <1>1, <1>2, <2>1, LocalTypes DEF MailsHaveRow
  <2>3. late' = IF Wants(prefs[k], kind) THEN late ELSE [late EXCEPT ![<<k, kind>>] = @ + 1]
    BY <1>12, <2>2 DEF Mail
  <2>4. MailsHaveRow'
    BY <1>2, <2>1 DEF MailsHaveRow
  <2>5. ASSUME NEW j \in Key, NEW sort \in Kind PROVE CountBounded(j, sort)'
    <3>1. Mailing(j, sort)' \subseteq Mailing(j, sort)
      BY <2>1 DEF Mailing
    <3>2. CASE Wants(prefs[k], kind) \/ <<j, sort>> # <<k, kind>>
      <4>1. late'[<<j, sort>>] = late[<<j, sort>>]
        BY <1>1, <2>3, <3>2 DEF TypeOK
      <4> QED BY <1>1, <1>2, <2>1, <3>1, <4>1, CountKept
    <3>3. CASE ~Wants(prefs[k], kind) /\ <<j, sort>> = <<k, kind>>
      <4>1. j = k /\ sort = kind
        BY <3>3
      <4>2. late'[<<j, sort>>] = late[<<j, sort>>] + 1 /\ late[<<j, sort>>] \in Nat
        BY <1>1, <2>3, <3>3, <4>1 DEF TypeOK
      <4>3. Unsubscribed(j, sort)
        BY <2>2, <3>3, <4>1 DEF Unsubscribed
      <4>4. Mailing(j, sort) \subseteq Req /\ r \in Mailing(j, sort) /\ r \notin Mailing(j, sort)'
        BY <2>1, <2>2, <4>1 DEF Mailing
      <4>5. /\ Cardinality(Mailing(j, sort)) \in Nat /\ Cardinality(Mailing(j, sort)') \in Nat
            /\ Cardinality(Req) \in Nat
            /\ Cardinality(Mailing(j, sort)') < Cardinality(Mailing(j, sort))
        BY <3>1, <4>4, RequestSets
      <4>6. late[<<j, sort>>] + Cardinality(Mailing(j, sort)) < Cardinality(Req)
        BY <1>2, <4>3 DEF CountBounded
      <4>7. late'[<<j, sort>>] + Cardinality(Mailing(j, sort)') < Cardinality(Req)
        BY <4>2, <4>5, <4>6
      <4>8. Unsubscribed(j, sort)'
        BY <2>1, <4>3 DEF Unsubscribed, Wants
      <4> QED BY <4>7, <4>8 DEF CountBounded
    <3> QED BY <3>2, <3>3
  <2> QED BY <1>3, <2>4, <2>5
<1>13. ASSUME NEW r \in Req, Fail(r) PROVE LateBounded'
  <2>1. /\ pc'[r] = "idle"
        /\ \A s \in Req \ {r} : pc'[s] = pc[s] /\ local'[s] = local[s]
    BY <1>1, <1>13, FinishEffect DEF Fail
  <2>2. prefs' = prefs /\ late' = late
    BY <1>13 DEF Fail
  <2> QED BY <1>4, <2>1, <2>2
<1>14. CASE UNCHANGED vars
  <2>1. prefs' = prefs /\ late' = late /\ pc' = pc /\ local' = local
    BY <1>14 DEF vars, process
  <2> QED BY <1>2, <2>1 DEF LateBounded, MailsHaveRow, CountBounded, Unsubscribed, Wants, Mailing
<1> QED BY <1>6, <1>7, <1>8, <1>9, <1>10, <1>11, <1>12, <1>13, <1>14 DEF Next

\* The bound on late mails is the property's.
LEMMA LateImplies == TypeOK /\ LateBounded => UnsubscribeStopsMail
<1> SUFFICES ASSUME TypeOK, LateBounded, NEW k \in Key, NEW kind \in Kind,
                    prefs[k] # NoRow, ~Wants(prefs[k], kind)
             PROVE  late[<<k, kind>>] < Cardinality(Req)
  BY DEF UnsubscribeStopsMail
<1>1. late[<<k, kind>>] + Cardinality(Mailing(k, kind)) < Cardinality(Req)
  BY DEF LateBounded, CountBounded, Unsubscribed
<1>2. late[<<k, kind>>] \in Nat /\ Mailing(k, kind) \subseteq Req
  BY DEF TypeOK, Mailing
<1>3. Cardinality(Mailing(k, kind)) \in Nat /\ Cardinality(Req) \in Nat
  BY <1>2, RequestSets
<1> QED BY <1>1, <1>2, <1>3

\* After the owner unsubscribed, fewer mails still go out than requests run at
\* once (Service::send_email).
THEOREM UnsubscribingStopsMail == Spec => []UnsubscribeStopsMail
<1>1. Init => LinkInv /\ LateBounded
  BY LinkInvInit DEF Init, LateBounded, MailsHaveRow, CountBounded, Unsubscribed
<1>2. LinkInv /\ LateBounded /\ [Next]_vars => (LinkInv /\ LateBounded)'
  BY LinkInvStep, LateStep
<1>3. LinkInv /\ LateBounded => UnsubscribeStopsMail
  BY LateImplies DEF LinkInv
<1> QED BY <1>1, <1>2, <1>3, PTL DEF Spec
=============================================================================
