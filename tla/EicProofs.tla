------------------------------ MODULE EicProofs ------------------------------
(***************************************************************************)
(* Proofs about the e-mail identity confirmation service, for any number   *)
(* of nodes, companies, addresses, codes, concurrent requests, and any     *)
(* expiry times and maximum of wrong tries that EicAssumption allows.      *)
(*                                                                         *)
(* Types come first.  Each safety property then has a strengthening of its *)
(* own that says what a request in flight still knows or still owes:       *)
(* ProofInv, KeepInv, EnsInv, UseInv.  WrongEntriesBounded is inductive as *)
(* it stands, because it counts the entries that are on their way.         *)
(*                                                                         *)
(* The last part is about the copying of the registrations to PostgreSQL,  *)
(* next to the service: while the program is at work its dump differs from *)
(* the registrations only in keys that were written after it was taken,    *)
(* and once the marker is set the program never runs again (CopyInv).      *)
(* What was proved of the service holds next to the program, too.          *)
(***************************************************************************)
EXTENDS EicMigration, TLAPS, FiniteSetTheorems

\* The groups of labels, spelled out for the provers.
LEMMA Labels ==
    /\ RegisterPc = {"challenge_remove", "rate_limit", "insert_writable", "insert", "mail"}
    /\ WrongPc = {"wrong_writable", "wrong"}
    /\ BindPc = {"bind_writable", "bind", "ens"}
    /\ ConfirmPc = BindPc \cup {"remove_writable", "remove"}
    /\ Pc = {"idle"} \cup RegisterPc \cup WrongPc \cup ConfirmPc
BY DEF RegisterPc, WrongPc, BindPc, ConfirmPc, Pc

\* A request that has ended has locals of the right type.
LEMMA NoLocalIsLocal == NoLocal \in Local
BY DEF NoLocal, Local

\* Going on to the next await keeps the types of the requests.
LEMMA GotoTypes ==
    ASSUME ProcessTypeOK, NEW r \in Req, NEW label \in Pc, Goto(r, label),
           pc[r] # "idle",
           label \in RegisterPc \cup ConfirmPc => pc[r] \in RegisterPc \cup ConfirmPc
    PROVE  ProcessTypeOK'
BY DEF Goto, ProcessTypeOK

\* Returning keeps them.
LEMMA FinishTypes ==
    ASSUME ProcessTypeOK, NEW r \in Req, Finish(r)
    PROVE  ProcessTypeOK'
BY NoLocalIsLocal, Labels DEF Finish, ProcessTypeOK

\* Starting a request with well-typed locals keeps them.
LEMMA BeginTypes ==
    ASSUME ProcessTypeOK, NEW r \in Req, NEW label \in Pc, NEW values \in Local,
           Begin(r, label, values), values.key \in Key,
           label \in RegisterPc \cup ConfirmPc => values.email \in Email
    PROVE  ProcessTypeOK'
BY DEF Begin, ProcessTypeOK

\* A confirmation that is there is a complete row.
LEMMA RowTypes ==
    ASSUME StoreTypeOK, NEW k \in Key
    PROVE  confirmations[k].issue # 0 => confirmations[k] \in ConfirmationRow
<1>1. NoConfirmation.issue = 0
  BY DEF NoConfirmation
<1>2. confirmations[k] \in ConfirmationRow \cup {NoConfirmation}
  BY DEF StoreTypeOK
<1> QED BY <1>1, <1>2

\* The empty tables and idle requests of the start have the right types.
LEMMA TypeInit == Init => TypeOK
BY EicAssumption
   DEF Init, TypeOK, StoreTypeOK, ProcessTypeOK, HistoryTypeOK, Key, ChallengeRow,
       NoChallenge, Pc, Local, NoLocal, RegisterPc, ConfirmPc, BindPc

\* Every step of every handler keeps the types.
LEMMA TypeStep == TypeOK /\ [Next]_vars => TypeOK'
<1> SUFFICES ASSUME TypeOK, [Next]_vars PROVE TypeOK'
  OBVIOUS
<1> USE EicAssumption, Labels DEF TypeOK
<1>1. CASE Tick
  BY <1>1 DEF Tick, StoreTypeOK, ProcessTypeOK, HistoryTypeOK, store, process, history
<1>2. ASSUME NEW n \in Node, CreateChallenge(n) PROVE TypeOK'
  BY <1>2 DEF CreateChallenge, StoreTypeOK, ProcessTypeOK, HistoryTypeOK, process, history,
              ChallengeRow
<1>3. ASSUME NEW r \in Req, NEW k \in Key, NEW e \in Email, CheckChallenge(r, k, e)
      PROVE  TypeOK'
  <2> DEFINE row == challenges[NodeOf(k)]
             values == [NoLocal EXCEPT !.key = k, !.email = e, !.challenge = row.id]
  <2>1. row \in ChallengeRow
    BY DEF StoreTypeOK, NodeOf, Key
  <2>2. values \in Local /\ values.key \in Key /\ values.email \in Email
    BY <2>1 DEF Local, NoLocal, ChallengeRow
  <2>3. ProcessTypeOK'
    <3>1. Begin(r, "challenge_remove", values)
      BY <1>3 DEF CheckChallenge
    <3> HIDE DEF values
    <3> QED BY <3>1, <2>2, BeginTypes
  <2>4. StoreTypeOK'
    BY <1>3 DEF CheckChallenge, StoreTypeOK, store
  <2>5. HistoryTypeOK'
    <3>1. [uses EXCEPT ![row.id] = @ + 1] \in [1..MaxChallenges -> Nat]
      <4> DEFINE i == row.id
      <4> HIDE DEF i
      <4>1. \A c \in 1..MaxChallenges : [uses EXCEPT ![i] = @ + 1][c] \in Nat
        BY DEF HistoryTypeOK
      <4>2. [uses EXCEPT ![i] = @ + 1] \in [1..MaxChallenges -> Nat]
        BY <4>1 DEF HistoryTypeOK
      <4> QED BY <4>2 DEF i
    <3>2. uses' \in [1..MaxChallenges -> Nat]
      BY <1>3, <3>1 DEF CheckChallenge, HistoryTypeOK
    <3> QED BY <1>3, <3>2 DEF CheckChallenge, HistoryTypeOK
  <2> QED BY <1>3, <2>3, <2>4, <2>5 DEF CheckChallenge
<1>4. ASSUME NEW r \in Req, NEW k \in Key, NEW c \in Code, PresentCode(r, k, c)
      PROVE  TypeOK'
  <2> DEFINE row == confirmations[k]
             values == [NoLocal EXCEPT !.key = k, !.email = row.email, !.issue = row.issue,
                                       !.alone = Binding(k) = {}]
  <2>0. row.issue # 0 /\ c = row.code
    BY <1>4 DEF PresentCode, Open
  <2>1. row \in ConfirmationRow
    BY <2>0, RowTypes
  <2>2. ProcessTypeOK'
    <3>1. values \in Local /\ values.key = k /\ values.email \in Email
      BY <2>1 DEF Local, NoLocal, ConfirmationRow
    <3>2. \A s \in Req : [local[s] EXCEPT !.alone = @ /\ s \notin Binding(k)] \in Local
      BY DEF ProcessTypeOK, Local
    <3>3. /\ pc' = [pc EXCEPT ![r] = "bind_writable"]
          /\ local' = [s \in Req |-> IF s = r THEN values
                            ELSE [local[s] EXCEPT !.alone = @ /\ s \notin Binding(k)]]
      BY <1>4 DEF PresentCode
    <3>4. \A s \in Req : [local[s] EXCEPT !.alone = @ /\ s \notin Binding(k)].key = local[s].key
                      /\ [local[s] EXCEPT !.alone = @ /\ s \notin Binding(k)].email
                           = local[s].email
      BY DEF ProcessTypeOK, Local
    <3> HIDE DEF values
    <3> QED BY <3>1, <3>2, <3>3, <3>4 DEF ProcessTypeOK
  <2>3. StoreTypeOK'
    BY <1>4 DEF PresentCode, StoreTypeOK, store
  <2>4. HistoryTypeOK'
    <3>1. [key |-> k, email |-> row.email, code |-> c, issue |-> row.issue] \in Issue
      BY <2>1 DEF Issue, ConfirmationRow
    <3> QED BY <1>4, <3>1 DEF PresentCode, HistoryTypeOK
  <2> QED BY <1>4, <2>2, <2>3, <2>4 DEF PresentCode
<1>5. ASSUME NEW r \in Req, NEW k \in Key, NEW c \in Code, PresentWrongCode(r, k, c)
      PROVE  TypeOK'
  <2>1. [NoLocal EXCEPT !.key = k] \in Local /\ [NoLocal EXCEPT !.key = k].key = k
    BY DEF NoLocal, Local
  <2>2. ProcessTypeOK'
    <3>1. Begin(r, "wrong_writable", [NoLocal EXCEPT !.key = k])
      BY <1>5 DEF PresentWrongCode
    <3> QED BY <2>1, <3>1, BeginTypes
  <2> QED BY <1>5, <2>2 DEF PresentWrongCode, StoreTypeOK, HistoryTypeOK, store, history
<1>6. ASSUME NEW r \in Req, RemoveChallenge(r) PROVE TypeOK'
  <2>1. ProcessTypeOK'
    BY <1>6, GotoTypes DEF RemoveChallenge
  <2>2. StoreTypeOK'
    BY <1>6 DEF RemoveChallenge, StoreTypeOK, ChallengeRow, NoChallenge
  <2>3. HistoryTypeOK'
    BY <1>6 DEF RemoveChallenge, HistoryTypeOK, ProcessTypeOK, Local
  <2> QED BY <1>6, <2>1, <2>2, <2>3 DEF RemoveChallenge
<1>7. ASSUME NEW r \in Req, PassRateLimit(r) PROVE TypeOK'
  <2>1. ProcessTypeOK'
    BY <1>7, GotoTypes, FinishTypes DEF PassRateLimit
  <2> QED BY <1>7, <2>1 DEF PassRateLimit, StoreTypeOK, HistoryTypeOK, store, history
<1>8. ASSUME NEW r \in Req, EnsureWritable(r) PROVE TypeOK'
  <2>1. ProcessTypeOK'
    BY <1>8, GotoTypes, FinishTypes DEF EnsureWritable, Guarded
  <2> QED BY <1>8, <2>1 DEF EnsureWritable, StoreTypeOK, HistoryTypeOK, store, history
<1>9. ASSUME NEW r \in Req, InsertConfirmation(r) PROVE TypeOK'
  <2>1. ProcessTypeOK'
    BY <1>9, GotoTypes DEF InsertConfirmation
  <2>2. local[r].key \in Key /\ local[r].email \in Email
    BY <1>9 DEF InsertConfirmation, ProcessTypeOK
  <2>3. StoreTypeOK'
    BY <1>9, <2>2 DEF InsertConfirmation, StoreTypeOK, ConfirmationRow
  <2>4. HistoryTypeOK'
    BY <1>9, <2>2 DEF InsertConfirmation, HistoryTypeOK, Issue
  <2> QED BY <1>9, <2>1, <2>3, <2>4 DEF InsertConfirmation
<1>10. ASSUME NEW r \in Req, SendMail(r) PROVE TypeOK'
  <2>1. ProcessTypeOK'
    BY <1>10, FinishTypes DEF SendMail
  <2> QED BY <1>10, <2>1 DEF SendMail, StoreTypeOK, HistoryTypeOK, store, history
<1>11. ASSUME NEW r \in Req, RecordWrongEntry(r) PROVE TypeOK'
  <2>1. ProcessTypeOK'
    BY <1>11, FinishTypes DEF RecordWrongEntry
  <2>2. StoreTypeOK'
    <3>1. PICK k \in Key : k = local[r].key
      BY <1>11 DEF RecordWrongEntry, ProcessTypeOK
    <3>2. CASE confirmations[k].issue = 0
      BY <1>11, <3>1, <3>2 DEF RecordWrongEntry, StoreTypeOK
    <3>3. CASE confirmations[k].issue # 0
      <4>1. [confirmations[k] EXCEPT !.wrong = @ + 1] \in ConfirmationRow
        BY <3>3, RowTypes DEF ConfirmationRow
      <4>2. confirmations' = [confirmations EXCEPT ![k] = [confirmations[k] EXCEPT !.wrong = @ + 1]]
        BY <1>11, <3>1, <3>3 DEF RecordWrongEntry, StoreTypeOK
      <4> QED BY <1>11, <4>1, <4>2 DEF RecordWrongEntry, StoreTypeOK
    <3> QED BY <3>2, <3>3
  <2> QED BY <1>11, <2>1, <2>2 DEF RecordWrongEntry, HistoryTypeOK, history
<1>12. ASSUME NEW r \in Req, BindAddress(r) PROVE TypeOK'
  <2>1. ProcessTypeOK'
    BY <1>12, GotoTypes DEF BindAddress
  <2> QED BY <1>12, <2>1 DEF BindAddress, StoreTypeOK, HistoryTypeOK, ProcessTypeOK
<1>13. ASSUME NEW r \in Req, TellEns(r) PROVE TypeOK'
  <2>1. ProcessTypeOK'
    BY <1>13, GotoTypes DEF TellEns
  <2> QED BY <1>13, <2>1 DEF TellEns, StoreTypeOK, HistoryTypeOK, ProcessTypeOK
<1>14. ASSUME NEW r \in Req, RemoveConfirmation(r) PROVE TypeOK'
  <2>1. ProcessTypeOK'
    BY <1>14, FinishTypes DEF RemoveConfirmation
  <2> QED BY <1>14, <2>1 DEF RemoveConfirmation, StoreTypeOK, HistoryTypeOK, history
<1>15. ASSUME NEW r \in Req, Fail(r) PROVE TypeOK'
  <2>1. ProcessTypeOK'
    BY <1>15, FinishTypes DEF Fail
  <2>2. HistoryTypeOK'
    BY <1>15 DEF Fail, HistoryTypeOK, ProcessTypeOK, Local
  <2> QED BY <1>15, <2>1, <2>2 DEF Fail, StoreTypeOK, store
<1>16. CASE UNCHANGED vars
  BY <1>16 DEF vars, store, process, history, StoreTypeOK, ProcessTypeOK, HistoryTypeOK
<1> QED BY <1>1, <1>2, <1>3, <1>4, <1>5, <1>6, <1>7, <1>8, <1>9, <1>10, <1>11, <1>12,
           <1>13, <1>14, <1>15, <1>16 DEF Next, Step

\* Tables, requests and history keep their types.  In particular no handler
\* ever leaves half a confirmation behind: a key has a complete row or none,
\* and a request that registers or binds carries a real address.
THEOREM TypeCorrect == Spec => []TypeOK
BY TypeInit, TypeStep, PTL DEF Spec
-----------------------------------------------------------------------------
\* A step that no confirmation or registration notices: at most one request
\* moves, by returning, by getting past the check of the marker, or without
\* having confirmed anything.
Quiet ==
    /\ UNCHANGED <<confirmations, registrations, ens, issued, presented, unsynced>>
    /\ \A s \in Req :
         \/ pc'[s] = pc[s] /\ local'[s] = local[s]
         \/ pc'[s] \notin ConfirmPc
         \/ /\ local'[s] = local[s]
            /\ \/ pc[s] = "bind_writable" /\ pc'[s] = "bind"
               \/ pc[s] = "remove_writable" /\ pc'[s] = "remove"

\* Every step is quiet or one of six that matter to confirmations.
LEMMA QuietOrNot ==
    ASSUME TypeOK, [Next]_vars
    PROVE  \/ Quiet
           \/ \E r \in Req, k \in Key, c \in Code : PresentCode(r, k, c)
           \/ \E r \in Req : \/ InsertConfirmation(r)
                             \/ RecordWrongEntry(r)
                             \/ BindAddress(r)
                             \/ TellEns(r)
                             \/ RemoveConfirmation(r)
<1> USE Labels DEF TypeOK, ProcessTypeOK, Quiet
<1>1. CASE Tick
  BY <1>1 DEF Tick, store, process, history
<1>2. ASSUME NEW n \in Node, CreateChallenge(n) PROVE Quiet
  BY <1>2 DEF CreateChallenge, process, history
<1>3. ASSUME NEW r \in Req, NEW k \in Key, NEW e \in Email, CheckChallenge(r, k, e)
      PROVE  Quiet
  <2>1. /\ pc' = [pc EXCEPT ![r] = "challenge_remove"]
        /\ \A s \in Req \ {r} : local'[s] = local[s]
    BY <1>3 DEF CheckChallenge, Begin
  <2> QED BY <1>3, <2>1 DEF CheckChallenge, store
<1>4. ASSUME NEW r \in Req, NEW k \in Key, NEW c \in Code, PresentWrongCode(r, k, c)
      PROVE  Quiet
  <2>1. /\ pc' = [pc EXCEPT ![r] = "wrong_writable"]
        /\ \A s \in Req \ {r} : local'[s] = local[s]
    BY <1>4 DEF PresentWrongCode, Begin
  <2> QED BY <1>4, <2>1 DEF PresentWrongCode, store, history
<1>5. ASSUME NEW r \in Req, RemoveChallenge(r) PROVE Quiet
  BY <1>5 DEF RemoveChallenge, Goto
<1>6. ASSUME NEW r \in Req, PassRateLimit(r) PROVE Quiet
  BY <1>6 DEF PassRateLimit, Goto, Finish, store, history
<1>7. ASSUME NEW r \in Req, EnsureWritable(r) PROVE Quiet
  BY <1>7 DEF EnsureWritable, Guarded, Goto, Finish, store, history
<1>8. ASSUME NEW r \in Req, SendMail(r) PROVE Quiet
  BY <1>8 DEF SendMail, Finish, store, history
<1>9. ASSUME NEW r \in Req, Fail(r) PROVE Quiet
  BY <1>9 DEF Fail, Finish, store
<1>10. CASE UNCHANGED vars
  BY <1>10 DEF vars, store, process, history
<1> QED BY <1>1, <1>2, <1>3, <1>4, <1>5, <1>6, <1>7, <1>8, <1>9, <1>10 DEF Next, Step
-----------------------------------------------------------------------------
\* A stored confirmation was issued as it stands, and a request that binds an
\* address was shown a code that was issued for it.
RowsIssued ==
    \A k \in Key : confirmations[k].issue # 0 =>
        [key |-> k, email |-> confirmations[k].email, code |-> confirmations[k].code,
         issue |-> confirmations[k].issue] \in issued

BindersProved ==
    \A r \in Req : pc[r] \in BindPc =>
        \E i \in presented : i.key = local[r].key /\ i.email = local[r].email

ProofInv == RowsIssued /\ BindersProved /\ OnlyProvedAddresses

\* Every step keeps what a bound address rests on.
LEMMA ProofStep == TypeOK /\ ProofInv /\ [Next]_vars => ProofInv'
<1> SUFFICES ASSUME TypeOK, ProofInv, [Next]_vars PROVE ProofInv'
  OBVIOUS
<1> USE Labels DEF TypeOK, ProofInv
<1>1. CASE Quiet
  BY <1>1 DEF Quiet, RowsIssued, BindersProved, OnlyProvedAddresses
<1>2. ASSUME NEW r \in Req, NEW k \in Key, NEW c \in Code, PresentCode(r, k, c)
      PROVE  ProofInv'
  <2> DEFINE row == confirmations[k]
             i == [key |-> k, email |-> row.email, code |-> c, issue |-> row.issue]
  <2>1. /\ row.issue # 0 /\ c = row.code
        /\ presented' = presented \cup {i}
        /\ UNCHANGED <<confirmations, registrations, ens, issued>>
        /\ pc' = [pc EXCEPT ![r] = "bind_writable"]
    BY <1>2 DEF PresentCode, Open, store
  <2>2. i \in issued
    BY <2>1 DEF RowsIssued
  <2>3. /\ local'[r].key = k /\ local'[r].email = row.email
        /\ \A s \in Req \ {r} : /\ local'[s].key = local[s].key
                                /\ local'[s].email = local[s].email
    BY <1>2 DEF PresentCode, NoLocal, ProcessTypeOK, Local
  <2>4. BindersProved'
    <3>1. ASSUME NEW s \in Req, pc'[s] \in BindPc
          PROVE  \E j \in presented' : j.key = local'[s].key /\ j.email = local'[s].email
      <4>1. CASE s = r
        <5>1. i \in presented' /\ i.key = k /\ i.email = row.email
          BY <2>1
        <5> HIDE DEF i, row
        <5> QED BY <2>3, <4>1, <5>1
      <4>2. CASE s # r
        <5>1. pc[s] \in BindPc
          BY <2>1, <3>1, <4>2 DEF ProcessTypeOK
        <5>2. PICK j \in presented : j.key = local[s].key /\ j.email = local[s].email
          BY <5>1 DEF BindersProved
        <5>3. j \in presented'
          BY <2>1, <5>2
        <5>4. local'[s].key = local[s].key /\ local'[s].email = local[s].email
          BY <2>3, <4>2
        <5> QED BY <5>2, <5>3, <5>4, Zenon
      <4> QED BY <4>1, <4>2
    <3> QED BY <3>1 DEF BindersProved
  <2>5. OnlyProvedAddresses'
    BY <2>1, <2>2 DEF OnlyProvedAddresses
  <2>6. RowsIssued'
    BY <2>1 DEF RowsIssued
  <2> QED BY <2>4, <2>5, <2>6
<1>3. ASSUME NEW r \in Req, InsertConfirmation(r) PROVE ProofInv'
  <2>1. /\ UNCHANGED <<registrations, ens, presented, local>>
        /\ pc' = [pc EXCEPT ![r] = "mail"] /\ issued \subseteq issued'
    BY <1>3 DEF InsertConfirmation, Goto
  <2>2. RowsIssued'
    BY <1>3 DEF InsertConfirmation, RowsIssued, StoreTypeOK
  <2>3. BindersProved' /\ OnlyProvedAddresses'
    BY <2>1 DEF BindersProved, OnlyProvedAddresses, ProcessTypeOK
  <2> QED BY <2>2, <2>3
<1>4. ASSUME NEW r \in Req, RecordWrongEntry(r) PROVE ProofInv'
  <2>1. /\ UNCHANGED <<registrations, ens, presented, issued>>
        /\ pc' = [pc EXCEPT ![r] = "idle"] /\ \A s \in Req \ {r} : local'[s] = local[s]
    BY <1>4 DEF RecordWrongEntry, Finish, history
  <2>2. \A k \in Key : /\ confirmations'[k].issue = confirmations[k].issue
                       /\ confirmations'[k].email = confirmations[k].email
                       /\ confirmations'[k].code = confirmations[k].code
    <3>1. \A k \in Key : confirmations[k] \in ConfirmationRow \cup {NoConfirmation}
      BY DEF StoreTypeOK
    <3> QED BY <1>4, <3>1 DEF RecordWrongEntry, ConfirmationRow, NoConfirmation, StoreTypeOK
  <2>3. BindersProved' /\ OnlyProvedAddresses'
    BY <2>1 DEF BindersProved, OnlyProvedAddresses, ProcessTypeOK
  <2>4. RowsIssued'
    BY <2>1, <2>2, Zenon DEF RowsIssued
  <2> QED BY <2>3, <2>4
<1>5. ASSUME NEW r \in Req, BindAddress(r) PROVE ProofInv'
  <2>1. /\ UNCHANGED <<confirmations, ens, presented, issued, local>>
        /\ pc[r] = "bind" /\ pc' = [pc EXCEPT ![r] = "ens"]
        /\ registrations' = [registrations EXCEPT ![local[r].key] = local[r].email]
    BY <1>5 DEF BindAddress, Goto
  <2>2. PICK i \in presented : i.key = local[r].key /\ i.email = local[r].email
    BY <2>1 DEF BindersProved
  <2>3. \A k \in Key : \/ registrations'[k] = registrations[k]
                       \/ k = i.key /\ registrations'[k] = i.email
    BY <2>1, <2>2 DEF StoreTypeOK
  <2>4. OnlyProvedAddresses'
    BY <2>1, <2>2, <2>3 DEF OnlyProvedAddresses
  <2>5. RowsIssued' /\ BindersProved'
    BY <2>1 DEF RowsIssued, BindersProved, ProcessTypeOK
  <2> QED BY <2>4, <2>5
<1>6. ASSUME NEW r \in Req, TellEns(r) PROVE ProofInv'
  <2>1. /\ UNCHANGED <<confirmations, registrations, presented, issued, local>>
        /\ pc[r] = "ens" /\ pc' = [pc EXCEPT ![r] = "remove_writable"]
        /\ ens' = ens \/ ens' = [ens EXCEPT ![local[r].key] = local[r].email]
    BY <1>6 DEF TellEns, Goto
  <2>2. PICK i \in presented : i.key = local[r].key /\ i.email = local[r].email
    BY <2>1 DEF BindersProved
  <2>3. \A k \in Key : \/ ens'[k] = ens[k]
                       \/ k = i.key /\ ens'[k] = i.email
    BY <2>1, <2>2 DEF StoreTypeOK
  <2>4. OnlyProvedAddresses'
    BY <2>1, <2>2, <2>3 DEF OnlyProvedAddresses
  <2>5. RowsIssued' /\ BindersProved'
    BY <2>1 DEF RowsIssued, BindersProved, ProcessTypeOK
  <2> QED BY <2>4, <2>5
<1>7. ASSUME NEW r \in Req, RemoveConfirmation(r) PROVE ProofInv'
  <2>1. /\ UNCHANGED <<registrations, ens, presented, issued>>
        /\ pc' = [pc EXCEPT ![r] = "idle"] /\ \A s \in Req \ {r} : local'[s] = local[s]
    BY <1>7 DEF RemoveConfirmation, Finish, history
  <2>2. BindersProved' /\ OnlyProvedAddresses'
    BY <2>1 DEF BindersProved, OnlyProvedAddresses, ProcessTypeOK
  <2>3. RowsIssued'
    BY <1>7, <2>1 DEF RemoveConfirmation, RowsIssued, StoreTypeOK, NoConfirmation
  <2> QED BY <2>2, <2>3
<1> QED BY <1>1, <1>2, <1>3, <1>4, <1>5, <1>6, <1>7, QuietOrNot

\* Nothing is proved, stored or told in the beginning.
LEMMA ProofInit == Init => ProofInv
BY Labels DEF Init, ProofInv, RowsIssued, BindersProved, OnlyProvedAddresses, NoConfirmation

\* No address is ever bound to a key, or told to ENS, without a code issued for
\* that key and address having been presented, however requests interleave and
\* wherever they fail (Service::confirm_email_for_node_id).
THEOREM OnlyProvedAddressesHolds == Spec => []OnlyProvedAddresses
<1>1. ProofInv => OnlyProvedAddresses
  BY DEF ProofInv
<1> QED BY TypeCorrect, <1>1, ProofInit, ProofStep, PTL DEF Spec
-----------------------------------------------------------------------------
\* A request that is past storing the registration left one behind.
Bound ==
    \A r \in Req : pc[r] \in {"ens", "remove_writable", "remove"} =>
        registrations[local[r].key] # NoEmail

KeepInv == Bound /\ NoLostConfirmation

\* Every step keeps a confirmation or a registration of each key.
LEMMA KeepStep == TypeOK /\ KeepInv /\ [Next]_vars => KeepInv'
<1> SUFFICES ASSUME TypeOK, KeepInv, [Next]_vars PROVE KeepInv'
  OBVIOUS
<1> USE Labels, EicAssumption DEF TypeOK, KeepInv
<1>1. CASE Quiet
  BY <1>1 DEF Quiet, Bound, NoLostConfirmation
<1>2. ASSUME NEW r \in Req, NEW k \in Key, NEW c \in Code, PresentCode(r, k, c)
      PROVE  KeepInv'
  <2>1. /\ UNCHANGED <<confirmations, registrations, issued>>
        /\ pc' = [pc EXCEPT ![r] = "bind_writable"]
    BY <1>2 DEF PresentCode, store
  <2>2. \A s \in Req \ {r} : local'[s].key = local[s].key
    BY <1>2 DEF PresentCode, ProcessTypeOK, Local
  <2> QED BY <2>1, <2>2 DEF Bound, NoLostConfirmation, ProcessTypeOK
<1>3. ASSUME NEW r \in Req, InsertConfirmation(r) PROVE KeepInv'
  <2>1. /\ UNCHANGED <<registrations, local>>
        /\ pc' = [pc EXCEPT ![r] = "mail"]
        /\ local[r].key \in Key
        /\ lastIssue + 1 # 0
    BY <1>3 DEF InsertConfirmation, Goto, ProcessTypeOK
  <2>2. PICK c \in Code :
          /\ confirmations' = [confirmations EXCEPT ![local[r].key] =
                [issue |-> lastIssue + 1, email |-> local[r].email, code |-> c,
                 wrong |-> 0, created |-> now]]
          /\ issued' = issued \cup {[key |-> local[r].key, email |-> local[r].email,
                                     code |-> c, issue |-> lastIssue + 1]}
    BY <1>3 DEF InsertConfirmation
  <2>3. \A k \in Key : \/ confirmations'[k].issue # 0
                       \/ k # local[r].key /\ confirmations'[k] = confirmations[k]
    BY <2>1, <2>2 DEF StoreTypeOK
  <2>4. \A i \in issued' : i \in issued \/ i.key = local[r].key
    BY <2>2
  <2>5. NoLostConfirmation'
    BY <2>1, <2>3, <2>4 DEF NoLostConfirmation, HistoryTypeOK, Issue
  <2> QED BY <2>1, <2>5 DEF Bound, ProcessTypeOK
<1>4. ASSUME NEW r \in Req, RecordWrongEntry(r) PROVE KeepInv'
  <2>1. /\ UNCHANGED <<registrations, issued>>
        /\ pc' = [pc EXCEPT ![r] = "idle"] /\ \A s \in Req \ {r} : local'[s] = local[s]
    BY <1>4 DEF RecordWrongEntry, Finish, history
  <2>2. \A k \in Key : confirmations'[k].issue = confirmations[k].issue
    <3>1. \A k \in Key : confirmations[k] \in ConfirmationRow \cup {NoConfirmation}
      BY DEF StoreTypeOK
    <3> QED BY <1>4, <3>1 DEF RecordWrongEntry, ConfirmationRow, NoConfirmation, StoreTypeOK
  <2> QED BY <2>1, <2>2 DEF Bound, NoLostConfirmation, ProcessTypeOK, HistoryTypeOK, Issue
<1>5. ASSUME NEW r \in Req, BindAddress(r) PROVE KeepInv'
  <2>1. /\ UNCHANGED <<confirmations, issued, local>>
        /\ pc' = [pc EXCEPT ![r] = "ens"]
        /\ registrations' = [registrations EXCEPT ![local[r].key] = local[r].email]
        /\ local[r].key \in Key /\ local[r].email # NoEmail
    BY <1>5 DEF BindAddress, Goto, ProcessTypeOK
  <2>2. \A k \in Key : registrations[k] # NoEmail => registrations'[k] # NoEmail
    BY <2>1 DEF StoreTypeOK
  <2>3. NoLostConfirmation'
    BY <2>1, <2>2 DEF NoLostConfirmation, HistoryTypeOK, Issue
  <2>4. Bound'
    BY <2>1, <2>2 DEF Bound, ProcessTypeOK, StoreTypeOK
  <2> QED BY <2>3, <2>4
<1>6. ASSUME NEW r \in Req, TellEns(r) PROVE KeepInv'
  BY <1>6 DEF TellEns, Goto, Bound, NoLostConfirmation, ProcessTypeOK
<1>7. ASSUME NEW r \in Req, RemoveConfirmation(r) PROVE KeepInv'
  <2>1. /\ UNCHANGED <<registrations, issued>>
        /\ pc' = [pc EXCEPT ![r] = "idle"] /\ \A s \in Req \ {r} : local'[s] = local[s]
        /\ confirmations' = [confirmations EXCEPT ![local[r].key] = NoConfirmation]
        /\ registrations[local[r].key] # NoEmail
    BY <1>7 DEF RemoveConfirmation, Finish, history, Bound
  <2> QED BY <2>1 DEF Bound, NoLostConfirmation, ProcessTypeOK, StoreTypeOK
<1> QED BY <1>1, <1>2, <1>3, <1>4, <1>5, <1>6, <1>7, QuietOrNot

\* No code was issued in the beginning.
LEMMA KeepInit == Init => KeepInv
BY DEF Init, KeepInv, Bound, NoLostConfirmation

\* Once a code was issued for a key, a crash or an error at any await leaves the
\* key with a confirmation or with a registration: the row is removed only after
\* the registration is stored (Service::confirm_email_for_node_id).
THEOREM NoLostConfirmationHolds == Spec => []NoLostConfirmation
<1>1. KeepInv => NoLostConfirmation
  BY DEF KeepInv
<1> QED BY TypeCorrect, <1>1, KeepInit, KeepStep, PTL DEF Spec
-----------------------------------------------------------------------------
(* The abstract address book *)

\* Every step proves an address, binds one that was proved, tells ENS of a
\* proved one of a key that is registered, or does nothing to the book.
LEMMA BookStep ==
    ASSUME TypeOK, ProofInv, KeepInv, [Next]_vars
    PROVE  [Book!Next]_Book!bookVars
<1> DEFINE Proved == {<<i.key, i.email>> : i \in presented}
<1> USE DEF TypeOK
<1>1. CASE UNCHANGED <<presented, registrations, ens>>
  BY <1>1 DEF Book!bookVars
<1>2. ASSUME NEW r \in Req, NEW k \in Key, NEW c \in Code, PresentCode(r, k, c)
      PROVE  \E e \in Email : Book!Prove(k, e)
  <2> DEFINE row == confirmations[k]
             i == [key |-> k, email |-> row.email, code |-> c, issue |-> row.issue]
  <2>1. row.issue # 0 /\ presented' = presented \cup {i} /\ UNCHANGED <<registrations, ens>>
    BY <1>2 DEF PresentCode, Open, store
  <2>2. row.email \in Email
    BY <2>1, RowTypes DEF ConfirmationRow
  <2>3. Proved' = Proved \cup {<<k, row.email>>}
    <3>1. i.key = k /\ i.email = row.email
      OBVIOUS
    <3> HIDE DEF i
    <3> QED BY <2>1, <3>1
  <2> QED BY <2>1, <2>2, <2>3 DEF Book!Prove
<1>3. ASSUME NEW r \in Req, pc[r] \in BindPc
      PROVE  /\ local[r].key \in Key /\ local[r].email \in Email
             /\ <<local[r].key, local[r].email>> \in Proved
  <2>1. local[r].key \in Key /\ local[r].email \in Email
    BY <1>3, Labels DEF ProcessTypeOK
  <2>2. PICK i \in presented : i.key = local[r].key /\ i.email = local[r].email
    BY <1>3 DEF ProofInv, BindersProved
  <2> QED BY <2>1, <2>2
<1>4. ASSUME NEW r \in Req, BindAddress(r)
      PROVE  \E k \in Key, e \in Email : Book!Bind(k, e)
  <2>1. /\ pc[r] = "bind"
        /\ registrations' = [registrations EXCEPT ![local[r].key] = local[r].email]
        /\ UNCHANGED <<presented, ens>>
    BY <1>4 DEF BindAddress
  <2>2. Proved' = Proved
    BY <2>1
  <2> HIDE DEF Proved
  <2>3. Book!Bind(local[r].key, local[r].email)
    BY <1>3, <2>1, <2>2, Labels DEF Book!Bind, Proved
  <2> QED BY <1>3, <2>1, <2>3, Labels
<1>5. ASSUME NEW r \in Req, TellEns(r), ens' # ens
      PROVE  \E k \in Key, e \in Email : Book!Tell(k, e)
  <2>1. /\ pc[r] = "ens" /\ ens' = [ens EXCEPT ![local[r].key] = local[r].email]
        /\ UNCHANGED <<presented, registrations>>
    BY <1>5 DEF TellEns
  <2>2. registrations[local[r].key] # NoEmail
    BY <2>1 DEF KeepInv, Bound
  <2>3. Proved' = Proved
    BY <2>1
  <2> HIDE DEF Proved
  <2>4. Book!Tell(local[r].key, local[r].email)
    BY <1>3, <2>1, <2>2, <2>3, Labels DEF Book!Tell, Proved
  <2> QED BY <1>3, <2>1, <2>4, Labels
<1>6. CASE Quiet \/ \E r \in Req : \/ InsertConfirmation(r) \/ RecordWrongEntry(r)
                                   \/ RemoveConfirmation(r)
  <2>1. UNCHANGED <<presented, registrations, ens>>
    BY <1>6 DEF Quiet, InsertConfirmation, RecordWrongEntry, RemoveConfirmation, history
  <2> QED BY <1>1, <2>1
<1>7. ASSUME NEW r \in Req, TellEns(r), ens' = ens
      PROVE  UNCHANGED <<presented, registrations, ens>>
  BY <1>7 DEF TellEns
<1>8. Book!Next => [Book!Next]_Book!bookVars
  OBVIOUS
<1> QED BY <1>1, <1>2, <1>4, <1>5, <1>6, <1>7, <1>8, QuietOrNot DEF Book!Next
-----------------------------------------------------------------------------
\* An undisturbed confirmation is the only one of its key between signing and
\* ENS, ENS is due as long as one is about to tell it, and an undisturbed one
\* tells it what it has stored.
Undisturbed ==
    \A r, s \in Req :
        /\ pc[r] \in BindPc /\ pc[s] \in BindPc
        /\ local[r].alone /\ local[s].key = local[r].key
        => s = r

EnsDue == \A r \in Req : pc[r] = "ens" => local[r].key \in unsynced

TellsWhatIsStored ==
    \A r \in Req : pc[r] = "ens" /\ local[r].alone =>
        registrations[local[r].key] = local[r].email

EnsInv == Undisturbed /\ EnsDue /\ TellsWhatIsStored /\ EnsAgreesWithRegistration

\* Every step keeps the agreement with ENS and what it rests on.
LEMMA EnsStep == TypeOK /\ EnsInv /\ [Next]_vars => EnsInv'
<1> SUFFICES ASSUME TypeOK, EnsInv, [Next]_vars PROVE EnsInv'
  OBVIOUS
<1> USE Labels DEF TypeOK, EnsInv
<1>1. CASE Quiet
  <2>1. \A s \in Req : pc'[s] \in BindPc =>
          /\ pc[s] \in BindPc /\ local'[s] = local[s] /\ (pc'[s] = "ens" => pc[s] = "ens")
    BY <1>1 DEF Quiet
  <2> QED BY <1>1, <2>1
          DEF Quiet, Undisturbed, EnsDue, TellsWhatIsStored, EnsAgreesWithRegistration
<1>2. ASSUME NEW r \in Req, NEW k \in Key, NEW c \in Code, PresentCode(r, k, c)
      PROVE  EnsInv'
  <2>1. /\ UNCHANGED <<registrations, ens, unsynced>>
        /\ pc' = [pc EXCEPT ![r] = "bind_writable"]
    BY <1>2 DEF PresentCode, store
  <2>2. local'[r].key = k /\ local'[r].alone = (Binding(k) = {})
    BY <1>2 DEF PresentCode, NoLocal
  <2>3. \A s \in Req \ {r} : /\ local'[s].key = local[s].key
                             /\ local'[s].email = local[s].email
                             /\ local'[s].alone = (local[s].alone /\ s \notin Binding(k))
    BY <1>2 DEF PresentCode, ProcessTypeOK, Local
  <2>4. Undisturbed'
    <3>1. ASSUME NEW x \in Req, NEW y \in Req, pc'[x] \in BindPc, pc'[y] \in BindPc,
                 local'[x].alone, local'[y].key = local'[x].key
          PROVE  y = x
      <4>1. CASE x = r /\ y # r
        <5>1. y \in Binding(k)
          BY <2>1, <2>2, <2>3, <3>1, <4>1 DEF Binding, ProcessTypeOK
        <5>2. Binding(k) = {}
          BY <2>2, <3>1, <4>1
        <5> QED BY <5>1, <5>2
      <4>2. CASE x # r /\ y = r
        <5>1. x \in Binding(k)
          BY <2>1, <2>2, <2>3, <3>1, <4>2 DEF Binding, ProcessTypeOK
        <5>2. x \notin Binding(k)
          BY <2>3, <3>1, <4>2
        <5> QED BY <5>1, <5>2
      <4>3. CASE x # r /\ y # r
        <5>1. /\ pc[x] \in BindPc /\ pc[y] \in BindPc /\ local[x].alone
              /\ local[y].key = local[x].key
          BY <2>1, <2>3, <3>1, <4>3 DEF ProcessTypeOK
        <5> QED BY <5>1 DEF Undisturbed
      <4> QED BY <4>1, <4>2, <4>3
    <3> QED BY <3>1 DEF Undisturbed
  <2>5. \A s \in Req : pc'[s] = "ens" => s # r /\ pc[s] = "ens"
    BY <2>1 DEF ProcessTypeOK
  <2>6. EnsDue' /\ TellsWhatIsStored'
    BY <2>1, <2>3, <2>5 DEF EnsDue, TellsWhatIsStored
  <2>7. EnsAgreesWithRegistration'
    BY <2>1 DEF EnsAgreesWithRegistration
  <2> QED BY <2>4, <2>6, <2>7
<1>3. ASSUME NEW r \in Req, InsertConfirmation(r) PROVE EnsInv'
  BY <1>3 DEF InsertConfirmation, Goto, Undisturbed, EnsDue, TellsWhatIsStored,
              EnsAgreesWithRegistration, ProcessTypeOK
<1>4. ASSUME NEW r \in Req, RecordWrongEntry(r) PROVE EnsInv'
  <2>1. /\ UNCHANGED <<registrations, ens, unsynced>>
        /\ pc' = [pc EXCEPT ![r] = "idle"] /\ \A s \in Req \ {r} : local'[s] = local[s]
    BY <1>4 DEF RecordWrongEntry, Finish, history
  <2>2. \A s \in Req : pc'[s] \in BindPc => s # r /\ pc'[s] = pc[s] /\ local'[s] = local[s]
    BY <2>1 DEF ProcessTypeOK
  <2> QED BY <2>1, <2>2
          DEF Undisturbed, EnsDue, TellsWhatIsStored, EnsAgreesWithRegistration
<1>5. ASSUME NEW r \in Req, BindAddress(r) PROVE EnsInv'
  <2> DEFINE k == local[r].key
  <2>1. /\ UNCHANGED <<ens, local>>
        /\ pc[r] = "bind" /\ pc' = [pc EXCEPT ![r] = "ens"]
        /\ registrations' = [registrations EXCEPT ![k] = local[r].email]
        /\ unsynced' = unsynced \cup {k}
    BY <1>5 DEF BindAddress, Goto
  <2>2. Undisturbed'
    BY <2>1 DEF Undisturbed, ProcessTypeOK
  <2>3. EnsDue'
    BY <2>1 DEF EnsDue, ProcessTypeOK
  <2>4. TellsWhatIsStored'
    <3>1. ASSUME NEW s \in Req, pc'[s] = "ens", local'[s].alone
          PROVE  registrations'[local'[s].key] = local'[s].email
      <4>1. CASE s = r
        BY <2>1, <4>1 DEF ProcessTypeOK, StoreTypeOK
      <4>2. CASE s # r
        <5>1. pc[s] = "ens" /\ local[s].alone /\ local'[s] = local[s]
          BY <2>1, <3>1, <4>2 DEF ProcessTypeOK
        <5>2. k # local[s].key
          BY <2>1, <4>2, <5>1 DEF Undisturbed
        <5> QED BY <2>1, <5>1, <5>2 DEF TellsWhatIsStored, StoreTypeOK, ProcessTypeOK
      <4> QED BY <4>1, <4>2
    <3> QED BY <3>1 DEF TellsWhatIsStored
  <2>5. EnsAgreesWithRegistration'
    BY <2>1 DEF EnsAgreesWithRegistration, StoreTypeOK
  <2> QED BY <2>2, <2>3, <2>4, <2>5
<1>6. ASSUME NEW r \in Req, TellEns(r) PROVE EnsInv'
  <2> DEFINE k == local[r].key
  <2>1. /\ UNCHANGED <<registrations, local>>
        /\ pc[r] = "ens" /\ pc' = [pc EXCEPT ![r] = "remove_writable"]
        /\ \/ ens' = ens /\ unsynced' = unsynced
           \/ /\ ens' = [ens EXCEPT ![k] = local[r].email]
              /\ \/ unsynced' = unsynced
                 \/ local[r].alone /\ unsynced' = unsynced \ {k}
    BY <1>6 DEF TellEns, Goto
  <2>2. \A s \in Req : pc'[s] \in BindPc => s # r /\ pc'[s] = pc[s]
    BY <2>1 DEF ProcessTypeOK
  <2>3. Undisturbed' /\ TellsWhatIsStored'
    BY <2>1, <2>2 DEF Undisturbed, TellsWhatIsStored
  <2>4. EnsDue'
    <3>1. ASSUME NEW s \in Req, pc'[s] = "ens" PROVE local[s].key \in unsynced'
      <4>1. s # r /\ pc[s] = "ens"
        BY <2>2, <3>1
      <4>2. local[r].alone => local[s].key # k
        BY <2>1, <4>1 DEF Undisturbed
      <4> QED BY <2>1, <4>1, <4>2 DEF EnsDue
    <3> QED BY <2>1, <3>1 DEF EnsDue
  <2>5. EnsAgreesWithRegistration'
    <3>1. CASE ens' = ens /\ unsynced' = unsynced
      BY <2>1, <3>1 DEF EnsAgreesWithRegistration
    <3>2. CASE ens' = [ens EXCEPT ![k] = local[r].email] /\ local[r].alone
                 /\ unsynced' = unsynced \ {k}
      <4>1. registrations[k] = local[r].email
        BY <2>1, <3>2 DEF TellsWhatIsStored
      <4> QED BY <2>1, <3>2, <4>1 DEF EnsAgreesWithRegistration, StoreTypeOK
    <3>3. CASE ens' = [ens EXCEPT ![k] = local[r].email] /\ unsynced' = unsynced
      <4>1. k \in unsynced
        BY <2>1 DEF EnsDue
      <4> QED BY <2>1, <3>3, <4>1 DEF EnsAgreesWithRegistration, StoreTypeOK
    <3> QED BY <2>1, <3>1, <3>2, <3>3
  <2> QED BY <2>3, <2>4, <2>5
<1>7. ASSUME NEW r \in Req, RemoveConfirmation(r) PROVE EnsInv'
  <2>1. /\ UNCHANGED <<registrations, ens, unsynced>>
        /\ pc' = [pc EXCEPT ![r] = "idle"] /\ \A s \in Req \ {r} : local'[s] = local[s]
    BY <1>7 DEF RemoveConfirmation, Finish, history
  <2>2. \A s \in Req : pc'[s] \in BindPc => s # r /\ pc'[s] = pc[s] /\ local'[s] = local[s]
    BY <2>1 DEF ProcessTypeOK
  <2> QED BY <2>1, <2>2
          DEF Undisturbed, EnsDue, TellsWhatIsStored, EnsAgreesWithRegistration
<1> QED BY <1>1, <1>2, <1>3, <1>4, <1>5, <1>6, <1>7, QuietOrNot

\* Both services start without addresses.
LEMMA EnsInit == Init => EnsInv
BY Labels DEF Init, EnsInv, Undisturbed, EnsDue, TellsWhatIsStored,
              EnsAgreesWithRegistration

\* ENS and the registrations agree on every key whose last undisturbed
\* confirmation reached ENS (the call of set_email_notification_preferences).
THEOREM EnsAgreesHolds == Spec => []EnsAgreesWithRegistration
<1>1. EnsInv => EnsAgreesWithRegistration
  BY DEF EnsInv
<1> QED BY TypeCorrect, <1>1, EnsInit, EnsStep, PTL DEF Spec
-----------------------------------------------------------------------------
\* Only PresentWrongCode gives a key one more request that will count against
\* it.
LEMMA NoNewMistake ==
    ASSUME TypeOK, [Next]_vars
    PROVE  \/ \E r \in Req, k \in Key, c \in Code : PresentWrongCode(r, k, c)
           \/ \A k \in Key : Mistaken(k)' \subseteq Mistaken(k)
<1> DEFINE Fewer == \A s \in Req : pc'[s] \in WrongPc =>
                        pc[s] \in WrongPc /\ local'[s].key = local[s].key
<1> USE Labels DEF TypeOK, ProcessTypeOK
<1>1. ASSUME Tick \/ UNCHANGED vars PROVE Fewer
  <2>1. pc' = pc /\ local' = local
    BY <1>1 DEF Tick, vars, process
  <2> QED BY <2>1
<1>2. ASSUME NEW n \in Node, CreateChallenge(n) PROVE Fewer
  BY <1>2 DEF CreateChallenge, process
<1>3. ASSUME NEW r \in Req, NEW k \in Key, NEW e \in Email, CheckChallenge(r, k, e)
      PROVE  Fewer
  <2>1. /\ pc' = [pc EXCEPT ![r] = "challenge_remove"]
        /\ \A s \in Req \ {r} : local'[s] = local[s]
    BY <1>3 DEF CheckChallenge, Begin
  <2> QED BY <2>1
<1>4. ASSUME NEW r \in Req, NEW k \in Key, NEW c \in Code, PresentCode(r, k, c)
      PROVE  Fewer
  <2>1. /\ pc' = [pc EXCEPT ![r] = "bind_writable"]
        /\ \A s \in Req \ {r} : local'[s].key = local[s].key
    BY <1>4 DEF PresentCode, Local
  <2> QED BY <2>1
<1>5. ASSUME NEW r \in Req, RemoveChallenge(r) \/ PassRateLimit(r) PROVE Fewer
  BY <1>5 DEF RemoveChallenge, PassRateLimit, Goto, Finish
<1>6. ASSUME NEW r \in Req, EnsureWritable(r) PROVE Fewer
  BY <1>6 DEF EnsureWritable, Guarded, Goto, Finish
<1>7. ASSUME NEW r \in Req, InsertConfirmation(r) \/ BindAddress(r) \/ TellEns(r) PROVE Fewer
  BY <1>7 DEF InsertConfirmation, BindAddress, TellEns, Goto
<1>8. ASSUME NEW r \in Req, SendMail(r) \/ RecordWrongEntry(r) \/ RemoveConfirmation(r) \/ Fail(r)
      PROVE  Fewer
  BY <1>8 DEF SendMail, RecordWrongEntry, RemoveConfirmation, Fail, Finish
<1>9. Fewer => \A k \in Key : Mistaken(k)' \subseteq Mistaken(k)
  BY DEF Mistaken
<1>10. \/ \E r \in Req, k \in Key, c \in Code : PresentWrongCode(r, k, c)
       \/ Fewer
  <2> HIDE DEF Fewer
  <2> QED BY <1>1, <1>2, <1>3, <1>4, <1>5, <1>6, <1>7, <1>8 DEF Next, Step
<1> QED BY <1>9, <1>10

\* No more requests are about to count than there are requests.
LEMMA MistakenFinite ==
    ASSUME NEW k \in Key
    PROVE  /\ IsFiniteSet(Mistaken(k)) /\ IsFiniteSet(Mistaken(k)')
           /\ Cardinality(Mistaken(k)) \in Nat /\ Cardinality(Mistaken(k)') \in Nat
           /\ Cardinality(Mistaken(k)) <= Cardinality(Req)
           /\ Cardinality(Mistaken(k)') <= Cardinality(Req)
           /\ Cardinality(Req) \in Nat /\ Cardinality(Req) >= 1
<1>1. IsFiniteSet(Req) /\ Req # {}
  BY EicAssumption
<1>2. Mistaken(k) \subseteq Req /\ Mistaken(k)' \subseteq Req
  BY DEF Mistaken
<1>3. Cardinality(Req) # 0 /\ Cardinality(Req) \in Nat
  BY <1>1, FS_EmptySet, FS_CardinalityType
<1> QED BY <1>1, <1>2, <1>3, FS_Subset, FS_CardinalityType

\* Every step keeps the count of wrong entries, stored and on their way.
LEMMA WrongStep == TypeOK /\ WrongEntriesBounded /\ [Next]_vars => WrongEntriesBounded'
<1> SUFFICES ASSUME TypeOK, WrongEntriesBounded, [Next]_vars, NEW k \in Key
             PROVE  (confirmations[k].wrong + Cardinality(Mistaken(k))
                        <= MaxWrongTries - 1 + Cardinality(Req))'
  BY DEF WrongEntriesBounded
<1> DEFINE m == Cardinality(Mistaken(k))
           before == confirmations[k].wrong
           after == confirmations'[k].wrong
<1>1. /\ m \in Nat /\ m' \in Nat /\ m <= Cardinality(Req) /\ m' <= Cardinality(Req)
      /\ Cardinality(Req) \in Nat /\ Cardinality(Req) >= 1
      /\ IsFiniteSet(Mistaken(k)) /\ MaxWrongTries \in Nat \ {0}
  BY MistakenFinite, EicAssumption
<1>2. before + m <= MaxWrongTries - 1 + Cardinality(Req)
  BY DEF WrongEntriesBounded
<1>3. before \in Nat
  <2>1. confirmations[k] \in ConfirmationRow \cup {NoConfirmation}
    BY DEF TypeOK, StoreTypeOK
  <2> QED BY <2>1 DEF ConfirmationRow, NoConfirmation
<1> SUFFICES after + m' <= MaxWrongTries - 1 + Cardinality(Req)
  OBVIOUS
<1>4. CASE Mistaken(k)' \subseteq Mistaken(k) /\ after = before
  <2>1. m' <= m
    BY <1>1, <1>4, FS_Subset
  <2> HIDE DEF m, before, after
  <2> QED BY <1>1, <1>2, <1>3, <1>4, <2>1
<1>5. CASE after = 0
  <2> HIDE DEF m, before, after
  <2> QED BY <1>1, <1>5
<1>6. ASSUME NEW r \in Req, NEW l \in Key, NEW c \in Code, PresentWrongCode(r, l, c)
      PROVE  after + m' <= MaxWrongTries - 1 + Cardinality(Req)
  <2>1. after = before
    BY <1>6 DEF PresentWrongCode, store
  <2>2. CASE l = k
    <3>1. before < MaxWrongTries
      BY <1>1, <1>3, <1>6, <2>2 DEF PresentWrongCode, Open, TooManyRetries
    <3> HIDE DEF m, before, after
    <3> QED BY <1>1, <1>3, <2>1, <3>1
  <2>3. CASE l # k
    <3>1. local'[r].key = l
      BY <1>6 DEF PresentWrongCode, Begin, NoLocal, TypeOK, ProcessTypeOK
    <3>2. \A s \in Req \ {r} : pc'[s] = pc[s] /\ local'[s] = local[s]
      BY <1>6 DEF PresentWrongCode, Begin, TypeOK, ProcessTypeOK
    <3>3. Mistaken(k)' \subseteq Mistaken(k)
      BY <2>3, <3>1, <3>2 DEF Mistaken
    <3> QED BY <1>4, <2>1, <3>3
  <2> QED BY <2>2, <2>3
<1>7. ASSUME NEW r \in Req, RecordWrongEntry(r)
      PROVE  after + m' <= MaxWrongTries - 1 + Cardinality(Req)
  <2>1. /\ pc[r] = "wrong" /\ pc' = [pc EXCEPT ![r] = "idle"]
        /\ \A s \in Req \ {r} : local'[s] = local[s]
    BY <1>7 DEF RecordWrongEntry, Finish
  <2>2. \A s \in Req : pc'[s] \in WrongPc =>
            s # r /\ pc[s] \in WrongPc /\ local'[s].key = local[s].key
    BY <2>1, Labels DEF TypeOK, ProcessTypeOK
  <2>3. CASE local[r].key = k
    <3>1. r \in Mistaken(k) /\ Mistaken(k)' \subseteq Mistaken(k) \ {r}
      BY <2>1, <2>2, <2>3, Labels DEF Mistaken
    <3>2. /\ Cardinality(Mistaken(k) \ {r}) = m - 1
          /\ IsFiniteSet(Mistaken(k) \ {r})
      BY <1>1, <3>1, FS_RemoveElement
    <3>3. m' <= m - 1
      BY <3>1, <3>2, FS_Subset
    <3>4. after = before \/ after = before + 1
      BY <1>7, <2>3 DEF RecordWrongEntry, TypeOK, StoreTypeOK, ConfirmationRow, NoConfirmation
    <3> HIDE DEF m, before, after
    <3> QED BY <1>1, <1>2, <1>3, <3>3, <3>4
  <2>4. CASE local[r].key # k
    <3>1. after = before
      BY <1>7, <2>4 DEF RecordWrongEntry, TypeOK, StoreTypeOK
    <3>2. Mistaken(k)' \subseteq Mistaken(k)
      BY <2>2 DEF Mistaken
    <3> QED BY <1>4, <3>1, <3>2
  <2> QED BY <2>3, <2>4
<1>8. ASSUME NEW r \in Req,
             \/ InsertConfirmation(r) \/ RemoveConfirmation(r)
      PROVE  after = 0 \/ after = before
  <2>1. /\ \A c \in Code : [issue |-> lastIssue + 1, email |-> local[r].email, code |-> c,
                            wrong |-> 0, created |-> now].wrong = 0
        /\ NoConfirmation.wrong = 0
    BY DEF NoConfirmation
  <2> QED BY <1>8, <2>1 DEF InsertConfirmation, RemoveConfirmation, TypeOK, StoreTypeOK
<1>9. ASSUME NEW r \in Req, BindAddress(r) \/ TellEns(r) PROVE after = before
  BY <1>9 DEF BindAddress, TellEns
<1>10. ASSUME NEW r \in Req, NEW l \in Key, NEW c \in Code, PresentCode(r, l, c)
       PROVE  after = before
  BY <1>10 DEF PresentCode, store
<1>11. CASE Quiet
  BY <1>11, NoNewMistake, <1>4, <1>6 DEF Quiet
<1> QED BY <1>4, <1>5, <1>6, <1>7, <1>8, <1>9, <1>10, <1>11, QuietOrNot, NoNewMistake

\* No confirmation has wrong entries in the beginning, and no request one.
LEMMA WrongInit == Init => WrongEntriesBounded
<1> SUFFICES ASSUME Init, NEW k \in Key
             PROVE  confirmations[k].wrong + Cardinality(Mistaken(k))
                       <= MaxWrongTries - 1 + Cardinality(Req)
  BY DEF WrongEntriesBounded
<1>1. confirmations[k].wrong = 0
  BY DEF Init, NoConfirmation
<1>2. /\ Cardinality(Mistaken(k)) \in Nat /\ Cardinality(Req) \in Nat
      /\ Cardinality(Mistaken(k)) <= Cardinality(Req) /\ MaxWrongTries \in Nat \ {0}
  BY MistakenFinite, EicAssumption
<1> QED BY <1>1, <1>2

\* The wrong entries of a confirmation never exceed the maximum by more than the
\* other requests that run at once: counting is not atomic, but each request
\* carries at most one entry past the check (has_too_many_retries).
THEOREM WrongEntriesBoundedHolds == Spec => []WrongEntriesBounded
BY TypeCorrect, WrongInit, WrongStep, PTL DEF Spec
-----------------------------------------------------------------------------
\* Requests that have used challenge c and will now remove it.
Pending(c) == {r \in Req : pc[r] = "challenge_remove" /\ local[r].challenge = c}

\* Challenges belong to the node they were created for, and are new.
Owned ==
    /\ \A n \in Node : challenges[n].id <= lastChallenge
    /\ \A n, m \in Node : challenges[n].id = challenges[m].id /\ challenges[n].id # 0 => n = m
    /\ \A r \in Req : pc[r] = "challenge_remove" =>
          /\ local[r].challenge \in 1..lastChallenge
          /\ \A n \in Node : challenges[n].id = local[r].challenge => n = NodeOf(local[r].key)

\* A challenge is only used once it was created; and while it can still be
\* used, the uses it had are those of the requests that will remove it.
UsesPending ==
    \A c \in 1..MaxChallenges :
        /\ c > lastChallenge => uses[c] = 0
        /\ c \notin unspent /\ (\E n \in Node : challenges[n].id = c)
              => uses[c] <= Cardinality(Pending(c))

UseInv == Owned /\ UsesPending /\ ChallengeReplayBounded

\* No more requests are about to remove a challenge than there are requests.
LEMMA PendingFinite ==
    ASSUME NEW c
    PROVE  /\ IsFiniteSet(Pending(c)) /\ IsFiniteSet(Pending(c)')
           /\ Cardinality(Pending(c)) \in Nat /\ Cardinality(Pending(c)') \in Nat
           /\ Cardinality(Pending(c)) <= Cardinality(Req)
           /\ Cardinality(Pending(c)') <= Cardinality(Req)
           /\ Cardinality(Req) \in Nat
<1>1. IsFiniteSet(Req)
  BY EicAssumption
<1>2. Pending(c) \subseteq Req /\ Pending(c)' \subseteq Req
  BY DEF Pending
<1> QED BY <1>1, <1>2, FS_Subset, FS_CardinalityType

\* A step that no challenge notices.
Unchallenged ==
    /\ UNCHANGED <<challenges, lastChallenge, uses, unspent>>
    /\ \A s \in Req :
         /\ pc'[s] = "challenge_remove" <=> pc[s] = "challenge_remove"
         /\ pc[s] = "challenge_remove" => /\ local'[s].challenge = local[s].challenge
                                          /\ local'[s].key = local[s].key

\* Every step leaves the challenges alone or is one of four that do not.
LEMMA UnchallengedOrNot ==
    ASSUME TypeOK, [Next]_vars
    PROVE  \/ Unchallenged
           \/ \E n \in Node : CreateChallenge(n)
           \/ \E r \in Req, k \in Key, e \in Email : CheckChallenge(r, k, e)
           \/ \E r \in Req : RemoveChallenge(r)
           \/ \E r \in Req : Fail(r) /\ pc[r] = "challenge_remove"
<1> USE Labels DEF TypeOK, ProcessTypeOK, Unchallenged
<1>1. ASSUME Tick \/ UNCHANGED vars PROVE Unchallenged
  <2>1. UNCHANGED <<challenges, lastChallenge, uses, unspent, pc, local>>
    BY <1>1 DEF Tick, vars, store, process, history
  <2> QED BY <2>1
<1>2. ASSUME NEW r \in Req, NEW k \in Key, NEW c \in Code, PresentCode(r, k, c)
      PROVE  Unchallenged
  <2>1. /\ pc[r] = "idle" /\ pc' = [pc EXCEPT ![r] = "bind_writable"]
        /\ \A s \in Req \ {r} : /\ local'[s].key = local[s].key
                                /\ local'[s].challenge = local[s].challenge
    BY <1>2 DEF PresentCode, Local
  <2> QED BY <1>2, <2>1 DEF PresentCode, store
<1>3. ASSUME NEW r \in Req, NEW k \in Key, NEW c \in Code, PresentWrongCode(r, k, c)
      PROVE  Unchallenged
  <2>1. /\ pc[r] = "idle" /\ pc' = [pc EXCEPT ![r] = "wrong_writable"]
        /\ \A s \in Req \ {r} : local'[s] = local[s]
    BY <1>3 DEF PresentWrongCode, Begin
  <2> QED BY <1>3, <2>1 DEF PresentWrongCode, store, history
<1>4. ASSUME NEW r \in Req, PassRateLimit(r) PROVE Unchallenged
  BY <1>4 DEF PassRateLimit, Goto, Finish, store, history
<1>5. ASSUME NEW r \in Req, EnsureWritable(r) PROVE Unchallenged
  BY <1>5 DEF EnsureWritable, Guarded, Goto, Finish, store, history
<1>6. ASSUME NEW r \in Req, InsertConfirmation(r) \/ BindAddress(r) \/ TellEns(r)
      PROVE  Unchallenged
  BY <1>6 DEF InsertConfirmation, BindAddress, TellEns, Goto
<1>7. ASSUME NEW r \in Req, SendMail(r) \/ RecordWrongEntry(r) \/ RemoveConfirmation(r)
      PROVE  Unchallenged
  BY <1>7 DEF SendMail, RecordWrongEntry, RemoveConfirmation, Finish, store, history
<1>8. ASSUME NEW r \in Req, Fail(r), pc[r] # "challenge_remove" PROVE Unchallenged
  BY <1>8 DEF Fail, Finish, store
<1> HIDE DEF Unchallenged
<1> QED BY <1>1, <1>2, <1>3, <1>4, <1>5, <1>6, <1>7, <1>8 DEF Next, Step

\* Every step keeps the count of uses of a challenge.
LEMMA UseStep == TypeOK /\ UseInv /\ [Next]_vars => UseInv'
<1> SUFFICES ASSUME TypeOK, UseInv, [Next]_vars PROVE UseInv'
  OBVIOUS
<1> USE DEF UseInv
<1>0. /\ lastChallenge \in Nat /\ MaxChallenges \in Nat
      /\ \A n \in Node : challenges[n] \in ChallengeRow /\ challenges[n].id \in Nat
      /\ \A c \in 1..MaxChallenges : uses[c] \in Nat
      /\ \A s \in Req : local[s].challenge \in Nat
  BY EicAssumption DEF TypeOK, StoreTypeOK, ChallengeRow, HistoryTypeOK, ProcessTypeOK, Local
<1>1. CASE Unchallenged
  <2>1. \A c : Pending(c)' = Pending(c)
    BY <1>1 DEF Unchallenged, Pending
  <2>2. Owned'
    BY <1>1 DEF Unchallenged, Owned
  <2>3. UsesPending'
    BY <1>1, <2>1 DEF Unchallenged, UsesPending
  <2>4. ChallengeReplayBounded'
    BY <1>1 DEF Unchallenged, ChallengeReplayBounded
  <2> QED BY <2>2, <2>3, <2>4
<1>2. ASSUME NEW n \in Node, CreateChallenge(n) PROVE UseInv'
  <2>1. /\ lastChallenge' = lastChallenge + 1
        /\ challenges' = [challenges EXCEPT ![n] = [id |-> lastChallenge + 1, created |-> now]]
        /\ UNCHANGED <<pc, local, uses, unspent>>
    BY <1>2 DEF CreateChallenge, process, history
  <2>2. /\ challenges'[n].id = lastChallenge + 1
        /\ \A m \in Node \ {n} : challenges'[m] = challenges[m]
    BY <2>1 DEF TypeOK, StoreTypeOK
  <2>3. Owned'
    BY <1>0, <2>1, <2>2 DEF Owned
  <2>4. \A c : Pending(c)' = Pending(c)
    BY <2>1 DEF Pending
  <2>5. UsesPending'
    <3> SUFFICES ASSUME NEW c \in 1..MaxChallenges
                 PROVE  /\ c > lastChallenge' => uses'[c] = 0
                        /\ c \notin unspent' /\ (\E m \in Node : challenges'[m].id = c)
                              => uses'[c] <= Cardinality(Pending(c)')
      BY DEF UsesPending
    <3>1. c > lastChallenge' => uses'[c] = 0
      BY <1>0, <2>1 DEF UsesPending
    <3>2. CASE c = lastChallenge + 1
      <4>1. uses'[c] = 0
        BY <1>0, <2>1, <3>2 DEF UsesPending
      <4> QED BY <3>1, <4>1, PendingFinite
    <3>3. CASE c # lastChallenge + 1
      <4>1. (\E m \in Node : challenges'[m].id = c) => \E m \in Node : challenges[m].id = c
        BY <2>2, <3>3
      <4> QED BY <2>1, <2>4, <3>1, <4>1 DEF UsesPending
    <3> QED BY <3>2, <3>3
  <2>6. ChallengeReplayBounded'
    BY <2>1 DEF ChallengeReplayBounded
  <2> QED BY <2>3, <2>5, <2>6
<1>3. ASSUME NEW r \in Req, NEW k \in Key, NEW e \in Email, CheckChallenge(r, k, e)
      PROVE  UseInv'
  <2>0. PICK node \in Node, id \in Nat : node = NodeOf(k) /\ id = challenges[node].id
    BY <1>0 DEF NodeOf, Key
  <2>1. /\ UNCHANGED <<challenges, lastChallenge, unspent>>
        /\ pc[r] = "idle" /\ pc' = [pc EXCEPT ![r] = "challenge_remove"]
        /\ \A s \in Req \ {r} : local'[s] = local[s]
        /\ id # 0
        /\ uses' = IF id \in unspent THEN uses ELSE [uses EXCEPT ![id] = @ + 1]
    BY <1>3, <2>0 DEF CheckChallenge, Begin, store
  <2>2. local'[r].key = k /\ local'[r].challenge = id
    BY <1>3, <2>0 DEF CheckChallenge, Begin, NoLocal, TypeOK, ProcessTypeOK
  <2>3. node \in Node /\ id \in 1..MaxChallenges /\ id <= lastChallenge
    BY <1>0, <2>0, <2>1 DEF Owned, TypeOK
  <2>4. Owned'
    <3>1. \A s \in Req : pc'[s] = "challenge_remove" => s = r \/ pc[s] = "challenge_remove"
      BY <2>1 DEF TypeOK, ProcessTypeOK
    <3>2. \A n \in Node : challenges[n].id = id => n = node
      BY <2>0, <2>1 DEF Owned
    <3>3. id \in 1..lastChallenge /\ node = NodeOf(local'[r].key)
      BY <1>0, <2>0, <2>1, <2>2, <2>3
    <3> QED BY <2>1, <2>2, <3>1, <3>2, <3>3 DEF Owned
  <2>5. /\ Pending(id)' = Pending(id) \cup {r} /\ r \notin Pending(id)
        /\ \A c : c # id => Pending(c)' = Pending(c)
    <3>1. pc'[r] = "challenge_remove" /\ \A s \in Req \ {r} : pc'[s] = pc[s]
      BY <2>1 DEF TypeOK, ProcessTypeOK
    <3>2. Pending(id)' = Pending(id) \cup {r} /\ r \notin Pending(id)
      BY <2>1, <2>2, <3>1 DEF Pending
    <3>3. ASSUME NEW c, c # id PROVE Pending(c)' = Pending(c)
      BY <2>1, <2>2, <3>1, <3>3 DEF Pending
    <3> QED BY <3>2, <3>3
  <2>6. Cardinality(Pending(id)') = Cardinality(Pending(id)) + 1
    BY <2>5, PendingFinite, FS_AddElement
  <2>7. ASSUME NEW c \in 1..MaxChallenges, c # id \/ id \in unspent
        PROVE  uses'[c] = uses[c]
    BY <2>1, <2>7 DEF TypeOK, HistoryTypeOK
  <2>8. id \notin unspent =>
          /\ uses'[id] = uses[id] + 1
          /\ uses[id] <= Cardinality(Pending(id))
          /\ uses'[id] <= Cardinality(Pending(id)')
    <3> SUFFICES ASSUME id \notin unspent
                 PROVE  /\ uses'[id] = uses[id] + 1
                        /\ uses[id] <= Cardinality(Pending(id))
                        /\ uses'[id] <= Cardinality(Pending(id)')
      OBVIOUS
    <3>1. uses'[id] = uses[id] + 1
      BY <2>1, <2>3 DEF TypeOK, HistoryTypeOK
    <3>2. uses[id] <= Cardinality(Pending(id))
      BY <2>0, <2>3 DEF UsesPending
    <3> QED BY <1>0, <2>3, <2>6, <3>1, <3>2, PendingFinite
  <2>9. UsesPending'
    <3> SUFFICES ASSUME NEW c \in 1..MaxChallenges
                 PROVE  /\ c > lastChallenge' => uses'[c] = 0
                        /\ c \notin unspent' /\ (\E m \in Node : challenges'[m].id = c)
                              => uses'[c] <= Cardinality(Pending(c)')
      BY DEF UsesPending
    <3>1. CASE c = id
      <4>1. ~(c > lastChallenge')
        BY <1>0, <2>1, <2>3, <3>1
      <4>2. c \notin unspent' => uses'[c] <= Cardinality(Pending(c)')
        <5>1. c \notin unspent' => id \notin unspent
          BY <2>1, <3>1
        <5>2. Pending(c)' = Pending(id)'
          BY <3>1
        <5> QED BY <2>8, <3>1, <5>1, <5>2
      <4> QED BY <4>1, <4>2
    <3>2. CASE c # id
      BY <2>1, <2>5, <2>7, <3>2 DEF UsesPending
    <3> QED BY <3>1, <3>2
  <2>10. ChallengeReplayBounded'
    <3>1. id \notin unspent => uses'[id] <= Cardinality(Req)
      BY <1>0, <2>3, <2>8, PendingFinite
    <3> QED BY <2>7, <3>1 DEF ChallengeReplayBounded
  <2> QED BY <2>4, <2>9, <2>10
\* The challenge of the request is gone, or its removal has failed.
<1>4. ASSUME NEW r \in Req, pc[r] = "challenge_remove",
             pc'[r] # "challenge_remove",
             \A s \in Req \ {r} : pc'[s] = pc[s] /\ local'[s] = local[s],
             UNCHANGED <<uses, lastChallenge>>,
             \/ /\ challenges' = [challenges EXCEPT ![NodeOf(local[r].key)] = NoChallenge]
                /\ unspent' = unspent
             \/ /\ challenges' = challenges
                /\ unspent' = unspent \cup {local[r].challenge}
      PROVE  UseInv'
  <2>1. local[r].key \in Key /\ NodeOf(local[r].key) \in Node
    BY <1>4 DEF TypeOK, ProcessTypeOK, NodeOf, Key
  <2>2. \A n \in Node : \/ challenges'[n] = challenges[n]
                        \/ n = NodeOf(local[r].key) /\ challenges'[n].id = 0
    BY <1>4, <2>1 DEF TypeOK, StoreTypeOK, NoChallenge
  <2>3. unspent \subseteq unspent'
    BY <1>4
  <2>4. Owned'
    BY <1>0, <1>4, <2>2 DEF Owned
  <2>5. UsesPending'
    <3> SUFFICES ASSUME NEW c \in 1..MaxChallenges, c \notin unspent',
                        NEW n \in Node, challenges'[n].id = c
                 PROVE  uses'[c] <= Cardinality(Pending(c)')
      BY <1>4 DEF UsesPending
    <3>1. challenges[n].id = c /\ c \notin unspent
      BY <2>2, <2>3
    <3>2. c # local[r].challenge
      <4>1. CASE challenges' = challenges /\ unspent' = unspent \cup {local[r].challenge}
        BY <4>1
      <4>2. CASE challenges' = [challenges EXCEPT ![NodeOf(local[r].key)] = NoChallenge]
        <5>1. n # NodeOf(local[r].key)
          BY <2>1, <4>2 DEF TypeOK, StoreTypeOK, NoChallenge
        <5> QED BY <1>4, <3>1, <5>1 DEF Owned
      <4> QED BY <1>4, <4>1, <4>2
    <3>3. Pending(c)' = Pending(c)
      BY <1>4, <3>2 DEF Pending
    <3> QED BY <1>4, <3>1, <3>3 DEF UsesPending
  <2>6. ChallengeReplayBounded'
    BY <1>4 DEF ChallengeReplayBounded
  <2> QED BY <2>4, <2>5, <2>6
<1>5. ASSUME NEW r \in Req, RemoveChallenge(r) PROVE UseInv'
  <2>1. /\ pc[r] = "challenge_remove" /\ pc'[r] # "challenge_remove"
        /\ \A s \in Req \ {r} : pc'[s] = pc[s] /\ local'[s] = local[s]
    BY <1>5 DEF RemoveChallenge, Goto, TypeOK, ProcessTypeOK
  <2>2. /\ UNCHANGED <<uses, lastChallenge>>
        /\ \/ /\ challenges' = [challenges EXCEPT ![NodeOf(local[r].key)] = NoChallenge]
              /\ unspent' = unspent
           \/ /\ challenges' = challenges
              /\ unspent' = unspent \cup {local[r].challenge}
    BY <1>5 DEF RemoveChallenge
  <2> QED BY <1>4, <2>1, <2>2
<1>6. ASSUME NEW r \in Req, Fail(r), pc[r] = "challenge_remove" PROVE UseInv'
  <2>1. /\ pc'[r] # "challenge_remove"
        /\ \A s \in Req \ {r} : pc'[s] = pc[s] /\ local'[s] = local[s]
    BY <1>6 DEF Fail, Finish, TypeOK, ProcessTypeOK
  <2>2. /\ UNCHANGED <<uses, lastChallenge, challenges>>
        /\ unspent' = unspent \cup {local[r].challenge}
    BY <1>6 DEF Fail, store
  <2> QED BY <1>4, <1>6, <2>1, <2>2
<1> QED BY <1>1, <1>2, <1>3, <1>5, <1>6, UnchallengedOrNot

\* No challenge was created or used in the beginning.
LEMMA UseInit == Init => UseInv
<1>1. Init => Owned
  BY EicAssumption DEF Init, Owned, NoChallenge
<1>2. Init => UsesPending
  BY EicAssumption DEF Init, UsesPending, NoChallenge
<1>3. Init => ChallengeReplayBounded
  BY PendingFinite DEF Init, ChallengeReplayBounded
<1> QED BY <1>1, <1>2, <1>3 DEF UseInv

\* A challenge whose removal did not fail lets in at most the registrations that
\* read it before the first of them removed it, at most one per request that
\* runs (Service::check_challenge).
THEOREM ChallengeReplayBoundedHolds == Spec => []ChallengeReplayBounded
<1>1. UseInv => ChallengeReplayBounded
  BY DEF UseInv
<1> QED BY TypeCorrect, <1>1, UseInit, UseStep, PTL DEF Spec
-----------------------------------------------------------------------------
(* The service as a whole *)

\* All of it together.
ServiceInv ==
    TypeOK /\ ProofInv /\ KeepInv /\ EnsInv /\ WrongEntriesBounded /\ UseInv

\* The service starts with it,
LEMMA ServiceInit == Init => ServiceInv
BY TypeInit, ProofInit, KeepInit, EnsInit, WrongInit, UseInit DEF ServiceInv

\* and every step of a handler keeps it.
LEMMA ServiceStep == ServiceInv /\ [Next]_vars => ServiceInv'
BY TypeStep, ProofStep, KeepStep, EnsStep, WrongStep, UseStep DEF ServiceInv

\* The address book starts empty.
LEMMA BookInit == Init => Book!Init
<1> SUFFICES ASSUME Init PROVE Book!Init
  OBVIOUS
<1>1. {<<i.key, i.email>> : i \in presented} = {}
  BY DEF Init
<1> QED BY <1>1 DEF Init, Book!Init

\* Interleaved and failing requests implement the address book: addresses are
\* stored and told only after they were proved, told only of registered keys,
\* and never taken back (Service::confirm_email_for_node_id).
THEOREM AddressBookImplemented == Spec => ImplementsAddressBook
<1>1. ServiceInv /\ [Next]_vars => [Book!Next]_Book!bookVars
  BY BookStep DEF ServiceInv
<1> QED BY <1>1, ServiceInit, ServiceStep, BookInit, PTL
        DEF Spec, ImplementsAddressBook, Book!Spec
-----------------------------------------------------------------------------
(* The migration *)

\* What a run of the program has copied, or is about to copy, is what the
\* service has stored, but for the keys that were written late.
CopyInv ==
    /\ migrated => migrator = "idle"
    /\ migrator # "idle" => \A k \in Key \ late : dump[k] = registrations[k]

MigrationInv == TypeOK /\ MigrationTypeOK /\ CopyInv /\ OnlyLateRegistrationsMissing

\* A step of the service writes neither the marker nor what the program has.
LEMMA ServeKeepsMarker ==
    ASSUME Next
    PROVE  /\ migrated' = migrated
           /\ registrations' # registrations =>
                \E r \in Req : pc[r] = "bind"
BY DEF Next, Step, Tick, CreateChallenge, CheckChallenge, PresentCode, PresentWrongCode,
       RemoveChallenge, PassRateLimit, EnsureWritable, InsertConfirmation, SendMail,
       RecordWrongEntry, BindAddress, TellEns, RemoveConfirmation, Fail, store

\* The service starts unmigrated, on any contents of PostgreSQL.
LEMMA MigrationInitInv == MigrationInit => MigrationInv
<1> SUFFICES ASSUME MigrationInit PROVE MigrationInv
  OBVIOUS
<1>1. TypeOK
  BY TypeInit DEF MigrationInit
<1>2. MigrationTypeOK /\ CopyInv /\ OnlyLateRegistrationsMissing
  BY DEF MigrationInit, MigrationTypeOK, CopyInv, OnlyLateRegistrationsMissing, Addresses
<1> QED BY <1>1, <1>2 DEF MigrationInv

\* The service keeps its types next to the program.
LEMMA ServiceTypes == TypeOK /\ [MigrationNext]_allVars => TypeOK'
<1> SUFFICES ASSUME TypeOK, [MigrationNext]_allVars PROVE TypeOK'
  OBVIOUS
<1>1. CASE [Next]_vars
  BY <1>1, TypeStep
<1>2. CASE MarkMigrated
  BY <1>2 DEF MarkMigrated, TypeOK, StoreTypeOK, ProcessTypeOK, HistoryTypeOK, process, history
<1> QED BY <1>1, <1>2
        DEF MigrationNext, Serve, Dump, Import, MigratorFail, allVars

\* Every step of the service or of the program keeps the invariant.
LEMMA MigrationStep ==
    MigrationInv /\ [MigrationNext]_allVars => MigrationInv'
<1> SUFFICES ASSUME MigrationInv, [MigrationNext]_allVars
             PROVE  MigrationTypeOK' /\ CopyInv' /\ OnlyLateRegistrationsMissing'
  BY ServiceTypes DEF MigrationInv
<1> USE DEF MigrationInv
<1>1. CASE Serve
  <2>1. /\ late' = late \cup {k \in Key : registrations'[k] # registrations[k]}
        /\ migrated' = migrated
        /\ UNCHANGED <<migrator, dump, pg>>
    BY <1>1, ServeKeepsMarker DEF Serve, migratorVars
  <2>2. \A k \in Key \ late' : k \notin late /\ registrations'[k] = registrations[k]
    BY <2>1
  <2>3. MigrationTypeOK'
    BY <2>1 DEF MigrationTypeOK, Rows
  <2>4. CopyInv'
    BY <2>1, <2>2 DEF CopyInv
  <2>5. OnlyLateRegistrationsMissing'
    BY <2>1, <2>2 DEF OnlyLateRegistrationsMissing, Rows
  <2> QED BY <2>3, <2>4, <2>5
<1>2. CASE Dump
  <2>1. ~migrated' /\ migrator' = "import" /\ dump' = registrations /\ late' = {}
        /\ UNCHANGED <<registrations, pg>>
    BY <1>2 DEF Dump, vars, store
  <2>2. registrations \in Addresses
    BY DEF TypeOK, StoreTypeOK, Addresses
  <2> QED BY <2>1, <2>2 DEF MigrationTypeOK, CopyInv, OnlyLateRegistrationsMissing
<1>3. CASE Import
  <2>1. migrator = "import" /\ UNCHANGED <<registrations, migrated, dump, late>>
    BY <1>3 DEF Import, vars, store
  <2>2. CASE Rows(dump) \cap Rows(pg) = {}
    <3>1. /\ pg' = [k \in Key |-> IF k \in Rows(dump) THEN dump[k] ELSE pg[k]]
          /\ migrator' = "mark"
      BY <1>3, <2>2 DEF Import
    <3>2. pg' \in Addresses /\ \A k \in Rows(dump) : pg'[k] = dump[k]
      BY <3>1 DEF MigrationTypeOK, Addresses, Rows
    <3> QED BY <2>1, <3>1, <3>2 DEF MigrationTypeOK, CopyInv, OnlyLateRegistrationsMissing,
                                    Rows
  <2>3. CASE Rows(dump) \cap Rows(pg) # {}
    <3>1. pg' = pg /\ migrator' = "idle"
      BY <1>3, <2>3 DEF Import
    <3> QED BY <2>1, <3>1 DEF MigrationTypeOK, CopyInv, OnlyLateRegistrationsMissing
  <2> QED BY <2>2, <2>3
<1>4. CASE MarkMigrated
  <2>1. /\ migrator = "mark" /\ migrator' = "idle" /\ migrated'
        /\ UNCHANGED <<registrations, dump, pg, late>>
    BY <1>4 DEF MarkMigrated
  <2>2. \A k \in Rows(registrations) \ late : pg[k] = registrations[k]
    BY <2>1 DEF CopyInv, MigrationTypeOK, Rows
  <2>3. OnlyLateRegistrationsMissing'
    BY <2>1, <2>2 DEF OnlyLateRegistrationsMissing, Rows
  <2> QED BY <2>1, <2>3 DEF MigrationTypeOK, CopyInv
<1>5. CASE MigratorFail
  <2>1. migrator' = "idle" /\ UNCHANGED <<registrations, migrated, dump, pg, late>>
    BY <1>5 DEF MigratorFail, vars, store
  <2> QED BY <2>1 DEF MigrationTypeOK, CopyInv, OnlyLateRegistrationsMissing, Rows
<1>6. CASE UNCHANGED allVars
  <2>1. UNCHANGED <<registrations, migrated, migrator, dump, pg, late>>
    BY <1>6 DEF allVars, vars, store, migratorVars
  <2> QED BY <2>1 DEF MigrationTypeOK, CopyInv, OnlyLateRegistrationsMissing, Rows
<1> QED BY <1>1, <1>2, <1>3, <1>4, <1>5, <1>6 DEF MigrationNext

\* The strengthened invariant holds with the program and the service running
\* side by side, through failed and repeated runs.
THEOREM MigrationInvariance == MigrationSpec => []MigrationInv
BY MigrationInitInv, MigrationStep, PTL DEF MigrationSpec

\* The program's state keeps its types, and whenever it is about to set the
\* marker PostgreSQL holds all it has dumped (migrate.rs, copy).
THEOREM MigrationTypeCorrect == MigrationSpec => []MigrationTypeOK
<1>1. MigrationInv => MigrationTypeOK
  BY DEF MigrationInv
<1> QED BY <1>1, MigrationInvariance, PTL

\* All that a finished migration can lose is what was written after its dump
\* was taken, whatever runs failed before it (migrate.rs, copy).
THEOREM OnlyLateRegistrationsMissingHolds == MigrationSpec => []OnlyLateRegistrationsMissing
<1>1. MigrationInv => OnlyLateRegistrationsMissing
  BY DEF MigrationInv
<1> QED BY <1>1, MigrationInvariance, PTL
-----------------------------------------------------------------------------
\* Confirmations and registrations are only written past the check of the
\* marker, which moves a request to one of the labels of a straggler.
LEMMA OnlyStragglersWrite ==
    ASSUME Next, Stragglers = {}
    PROVE  UNCHANGED <<confirmations, registrations>>
<1>1. \A r \in Req : pc[r] \notin {"insert", "wrong", "bind", "remove"}
  BY DEF Stragglers
<1> QED BY <1>1
        DEF Next, Step, Tick, CreateChallenge, CheckChallenge, PresentCode, PresentWrongCode,
            RemoveChallenge, PassRateLimit, EnsureWritable, InsertConfirmation, SendMail,
            RecordWrongEntry, BindAddress, TellEns, RemoveConfirmation, Fail, store

\* With the marker set the check lets nobody through, and no other step leads
\* to a label of a straggler.
LEMMA NoNewStraggler ==
    ASSUME TypeOK, Next, migrated, Stragglers = {}
    PROVE  Stragglers' = {}
<1> DEFINE Writing == {"insert", "wrong", "bind", "remove"}
<1>1. pc \in [Req -> Pc] /\ \A r \in Req : pc[r] \notin Writing
  BY DEF TypeOK, ProcessTypeOK, Stragglers
<1> SUFFICES pc' = pc \/ \E r \in Req, label \in Pc \ Writing : pc' = [pc EXCEPT ![r] = label]
  BY <1>1 DEF Stragglers
<1> HIDE DEF Writing
<1>2. {"idle", "challenge_remove", "rate_limit", "insert_writable", "mail", "wrong_writable",
       "bind_writable", "ens", "remove_writable"} \subseteq Pc \ Writing
  BY DEF Pc, RegisterPc, WrongPc, BindPc, ConfirmPc, Writing
<1>3. CASE Tick \/ \E n \in Node : CreateChallenge(n)
  BY <1>3 DEF Tick, CreateChallenge, process
<1>4. CASE \E r \in Req, k \in Key, e \in Email : CheckChallenge(r, k, e)
  BY <1>2, <1>4 DEF CheckChallenge, Begin
<1>5. CASE \E r \in Req, k \in Key, c \in Code : PresentCode(r, k, c) \/ PresentWrongCode(r, k, c)
  BY <1>2, <1>5 DEF PresentCode, PresentWrongCode, Begin
<1>6. CASE \E r \in Req : Fail(r) \/ SendMail(r)
  BY <1>2, <1>6 DEF Fail, SendMail, Finish
<1>7. CASE \E r \in Req : RemoveChallenge(r) \/ PassRateLimit(r) \/ TellEns(r)
  BY <1>2, <1>7 DEF RemoveChallenge, PassRateLimit, TellEns, Goto, Finish
<1>8. CASE \E r \in Req : EnsureWritable(r)
  BY <1>2, <1>8 DEF EnsureWritable, Finish
<1>9. ~ \E r \in Req : InsertConfirmation(r) \/ RecordWrongEntry(r) \/ BindAddress(r) \/ RemoveConfirmation(r)
  BY <1>1 DEF InsertConfirmation, RecordWrongEntry, BindAddress, RemoveConfirmation, Writing
<1> QED BY <1>3, <1>4, <1>5, <1>6, <1>7, <1>8, <1>9 DEF Next, Step

\* With the marker set and no straggler left, no step of any actor changes the
\* tables of SurrealDB or lets a request through to them
\* (DBEmails::ensure_writable, mark_migrated).
THEOREM FrozenOnceDrainedHolds == MigrationSpec => FrozenOnceDrained
<1>1. TypeOK /\ [MigrationNext]_allVars => [migrated /\ Stragglers = {}
                => /\ UNCHANGED <<confirmations, registrations>>
                   /\ Stragglers' = {}]_allVars
  <2> SUFFICES ASSUME TypeOK, MigrationNext, migrated, Stragglers = {}
               PROVE  UNCHANGED <<confirmations, registrations>> /\ Stragglers' = {}
    OBVIOUS
  <2>1. CASE Serve
    BY <2>1, OnlyStragglersWrite, NoNewStraggler DEF Serve
  <2>2. CASE Dump \/ Import \/ MigratorFail
    BY <2>2 DEF Dump, Import, MigratorFail, vars, store, process, Stragglers
  <2>3. CASE MarkMigrated
    BY <2>3 DEF MarkMigrated, process, Stragglers
  <2> QED BY <2>1, <2>2, <2>3 DEF MigrationNext
<1>2. MigrationInv => TypeOK
  BY DEF MigrationInv
<1> QED BY <1>1, <1>2, MigrationInvariance, PTL DEF MigrationSpec, FrozenOnceDrained

\* A change of PostgreSQL is the whole dump, into keys that were free, and
\* touches no other row (the transaction of DBEmails::import).
THEOREM ImportAllOrNothingHolds == MigrationSpec => ImportAllOrNothing
<1>1. [MigrationNext]_allVars =>
        [pg' # pg => \A k \in Key :
           IF k \in Rows(dump) THEN pg[k] = NoEmail /\ pg'[k] = dump[k]
                               ELSE pg'[k] = pg[k]]_allVars
  <2> SUFFICES ASSUME MigrationNext, pg' # pg, NEW k \in Key
               PROVE  IF k \in Rows(dump) THEN pg[k] = NoEmail /\ pg'[k] = dump[k]
                                          ELSE pg'[k] = pg[k]
    OBVIOUS
  <2>1. Import
    BY DEF MigrationNext, Serve, Dump, MarkMigrated, MigratorFail, migratorVars
  <2>2. /\ Rows(dump) \cap Rows(pg) = {}
        /\ pg' = [l \in Key |-> IF l \in Rows(dump) THEN dump[l] ELSE pg[l]]
    BY <2>1 DEF Import
  <2>3. k \in Rows(dump) => pg[k] = NoEmail
    BY <2>2 DEF Rows
  <2> QED BY <2>2, <2>3
<1> QED BY <1>1, PTL DEF MigrationSpec, ImportAllOrNothing
-----------------------------------------------------------------------------
(* The service next to the migration *)

\* Setting the marker leaves everything that the service promises alone.
LEMMA MarkerKeepsService ==
    ASSUME ServiceInv, MarkMigrated
    PROVE  ServiceInv'
<1>1. TypeOK'
  BY ServiceTypes DEF MigrationNext, ServiceInv
<1>2. UNCHANGED <<challenges, confirmations, registrations, ens, process,
                  lastChallenge, lastIssue, history>>
  BY DEF MarkMigrated
<1>3. ProofInv' /\ KeepInv'
  BY <1>2 DEF ServiceInv, process, history, ProofInv, RowsIssued, BindersProved,
     OnlyProvedAddresses, KeepInv, Bound, NoLostConfirmation
<1>4. EnsInv'
  BY <1>2 DEF ServiceInv, process, history, EnsInv, Undisturbed, EnsDue, TellsWhatIsStored,
     EnsAgreesWithRegistration
<1>5. WrongEntriesBounded' /\ UseInv'
  BY <1>2 DEF ServiceInv, process, history, WrongEntriesBounded, Mistaken, UseInv, Owned,
     UsesPending, Pending, ChallengeReplayBounded
<1> QED BY <1>1, <1>3, <1>4, <1>5 DEF ServiceInv

\* A step of both programs is one of the service's, sets the marker, or is none
\* of the service's business.
LEMMA ServiceStepOrMarker ==
    ASSUME [MigrationNext]_allVars
    PROVE  [Next]_vars \/ MarkMigrated
BY DEF MigrationNext, Serve, Dump, Import, MigratorFail, allVars

\* The service's invariant does not notice the migrate program.
LEMMA ServiceInvWhileMigrating == MigrationSpec => []ServiceInv
<1>1. MigrationInit => ServiceInv
  BY ServiceInit DEF MigrationInit
<1>2. ServiceInv /\ [MigrationNext]_allVars => ServiceInv'
  BY ServiceStep, MarkerKeepsService, ServiceStepOrMarker
<1> QED BY <1>1, <1>2, PTL DEF MigrationSpec

\* All that the service promises it promises also while the migrate program runs
\* next to it, fails and runs again, and sets the marker between two awaits of
\* a request (DBEmails::ensure_writable).
THEOREM PromisesKeptWhileMigrating ==
    MigrationSpec =>
        [](/\ OnlyProvedAddresses
           /\ NoLostConfirmation
           /\ EnsAgreesWithRegistration
           /\ WrongEntriesBounded
           /\ ChallengeReplayBounded)
<1>1. ServiceInv => /\ OnlyProvedAddresses
                    /\ NoLostConfirmation
                    /\ EnsAgreesWithRegistration
                    /\ WrongEntriesBounded
                    /\ ChallengeReplayBounded
  BY DEF ServiceInv, ProofInv, KeepInv, EnsInv, UseInv
<1> QED BY <1>1, ServiceInvWhileMigrating, PTL

\* The service next to the migrate program still implements the address book.
THEOREM AddressBookWhileMigrating == MigrationSpec => ImplementsAddressBook
<1>1. MigrationInit => Book!Init
  BY BookInit DEF MigrationInit
<1>2. ServiceInv /\ [MigrationNext]_allVars => [Book!Next]_Book!bookVars
  <2> SUFFICES ASSUME ServiceInv, [MigrationNext]_allVars
               PROVE  [Book!Next]_Book!bookVars
    OBVIOUS
  <2>1. CASE [Next]_vars
    BY <2>1, BookStep DEF ServiceInv
  <2>2. CASE MarkMigrated
    <3>1. UNCHANGED <<presented, registrations, ens>>
      BY <2>2 DEF MarkMigrated, history
    <3> QED BY <3>1 DEF Book!bookVars
  <2> QED BY <2>1, <2>2, ServiceStepOrMarker
<1> QED BY <1>1, <1>2, ServiceInvWhileMigrating, PTL
        DEF MigrationSpec, ImplementsAddressBook, Book!Spec
=============================================================================
