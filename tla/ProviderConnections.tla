------------------------ MODULE ProviderConnections ------------------------
(***************************************************************************)
(* One configured model endpoint (providers/connections.service.ts,        *)
(* connection-test.service.ts) and the campaign that selects it, as the    *)
(* statements of overlapping requests. Every request reads a row that      *)
(* another may change before it writes: an update locks it, a test asserts *)
(* what it tested, a deletion and a selection each look at the other's row *)
(* and lock nothing.                                                       *)
(***************************************************************************)
EXTENDS TokenBucket, Sequences, FiniteSets

CONSTANTS
  Request,      \* the requests that may be made, each once
  Value,        \* Value[f]: the values of an updatable field
  Patch,        \* the inputs of update: values for some of the fields
  MaxKeys,      \* bound: keys ever stored
  MaxNow        \* bound: the clock of the test limit runs from 0 to MaxNow

Updatable == {"label", "base_url", "model_id", "enabled"}
Fields == [label : Value["label"], base_url : Value["base_url"],
           model_id : Value["model_id"], enabled : Value["enabled"]]

ASSUME BoundAssumption == MaxKeys \in Nat \ {0} /\ MaxNow \in Nat
ASSUME ValueAssumption == Value["enabled"] = BOOLEAN /\ DOMAIN Value = Updatable
ASSUME PatchAssumption == \A p \in Patch : DOMAIN p \subseteq Updatable /\ \A f \in DOMAIN p : p[f] \in Value[f]

VARIABLES
  row,          \* the provider_connections row
  rowLock,      \* the transaction that holds it FOR UPDATE
  audit,        \* the provider_connection_audit rows, oldest first
  selected,     \* campaigns.settings.provider_connection_id names the row
  request,      \* every request, with what it has read
  bucket, now,  \* the test limit of the connection, and the wall clock
  granted, ran, \* history: tests let through, ticks the clock went forward
  overlapped    \* history: a selection and a deletion overlapped

vars == <<row, rowLock, audit, selected, request, bucket, now, granted, ran, overlapped>>

NoOne == "none"
ASSUME RequestAssumption == NoOne \notin Request

\* What a verdict is about: one endpoint, one model, one key. The nonce is the
\* version of the key; 0 means there is none.
Configuration(r) == [base_url |-> r.at.base_url, model_id |-> r.at.model_id, nonce |-> r.nonce]
NoVerdict == [base_url |-> NoOne, model_id |-> NoOne, nonce |-> 0]

NewRequest == [pc |-> "new", op |-> "none", patch |-> <<>>, read |-> NoVerdict, was |-> TRUE]
Answer(r, pc) == request' = [request EXCEPT ![r] = [NewRequest EXCEPT !.pc = pc]]
Unlocked == rowLock = NoOne
Audited(action, changed) == audit' = Append(audit, [action |-> action, changed |-> changed])

Init ==
  /\ \E at \in Fields : row = [state |-> "absent", at |-> at, nonce |-> 0, verdict |-> NoVerdict]
  /\ row.at.enabled
  /\ rowLock = NoOne
  /\ audit = <<>>
  /\ selected = FALSE
  /\ request = [r \in Request |-> NewRequest]
  /\ bucket = FullBucket(0) /\ now = 0 /\ granted = 0 /\ ran = 0
  /\ overlapped = FALSE

-----------------------------------------------------------------------------
(* Creation and updates *)

\* createdFields
Created(key) == {"label", "base_url", "model_id"} \cup (IF key = 1 THEN {"api_key"} ELSE {})

Create(key) ==
  /\ row.state = "absent"
  /\ row' = [row EXCEPT !.state = "present", !.nonce = key]
  /\ Audited("created", Created(key))
  /\ UNCHANGED <<rowLock, selected, request, bucket, now, granted, ran, overlapped>>

\* A base URL that is rejected is so before the transaction: no request here.
Update(r, patch) ==
  /\ request[r].pc = "new" /\ row.state # "absent"
  /\ request' = [request EXCEPT ![r] = [NewRequest EXCEPT !.pc = "asked", !.op = "update", !.patch = patch]]
  /\ UNCHANGED <<row, rowLock, audit, selected, bucket, now, granted, ran, overlapped>>

\* The diff against the row, and what it says of the flag.
Changed(before, patch) == {f \in DOMAIN patch : patch[f] # before[f]}
ActionFor(was, patch) ==
  IF "enabled" \notin DOMAIN patch \/ patch.enabled = was THEN "updated"
  ELSE IF patch.enabled THEN "enabled" ELSE "disabled"

\* Mutant: the row is read before the transaction, without a lock.
LockForUpdate_NoLock(r) ==
  /\ request[r].pc = "asked" /\ request[r].op = "update"
  /\ IF row.state = "present"
     THEN request' = [request EXCEPT ![r].pc = "locked", ![r].was = row.at.enabled,
                        ![r].patch = [f \in Changed(row.at, @) |-> @[f]]]
     ELSE Answer(r, "refused")
  /\ UNCHANGED <<row, rowLock, audit, selected, bucket, now, granted, ran, overlapped>>

\* select ... for update; CONNECTION_NOT_FOUND. The diff is taken here, from
\* the row that was read: what is kept of it is the set of fields that change.
LockForUpdate(r) ==
  /\ request[r].pc = "asked" /\ request[r].op = "update" /\ Unlocked
  /\ IF row.state = "present"
     THEN /\ rowLock' = r
          /\ request' = [request EXCEPT ![r].pc = "locked", ![r].was = row.at.enabled,
                           ![r].patch = [f \in Changed(row.at, @) |-> @[f]]]
     ELSE Answer(r, "refused") /\ UNCHANGED rowLock
  /\ UNCHANGED <<row, audit, selected, bucket, now, granted, ran, overlapped>>

\* The write, without the verdict of a configuration that is no more.
WriteUpdate(r) ==
  LET set == request[r].patch
      moved == DOMAIN set \cap {"base_url", "model_id"} # {}
  IN /\ request[r].pc = "locked"
     /\ row' = [row EXCEPT !.at = [f \in Updatable |-> IF f \in DOMAIN set THEN set[f] ELSE @[f]],
                           !.verdict = IF moved THEN NoVerdict ELSE @]
     /\ Audited(ActionFor(request[r].was, set), DOMAIN set)
     /\ rowLock' = NoOne
     /\ Answer(r, "done")
     /\ UNCHANGED <<selected, bucket, now, granted, ran, overlapped>>

-----------------------------------------------------------------------------
(* Keys *)

\* The first read locks nothing.
ReplaceKey(r) ==
  /\ request[r].pc = "new" /\ row.state # "absent"
  /\ IF row.state = "present"
     THEN request' = [request EXCEPT ![r] = [NewRequest EXCEPT !.pc = "asked", !.op = "key"]]
     ELSE Answer(r, "refused")
  /\ UNCHANGED <<row, rowLock, audit, selected, bucket, now, granted, ran, overlapped>>

\* A fresh nonce, no verdict. If the row is gone by now the updates meet no
\* row, the read at the end finds none, and the audit row is rolled back.
StoreKey(r) ==
  /\ request[r].pc = "asked" /\ request[r].op = "key" /\ Unlocked
  /\ IF row.state = "present"
     THEN /\ row.nonce < MaxKeys
          /\ row' = [row EXCEPT !.nonce = @ + 1, !.verdict = NoVerdict]
          /\ Audited("replaced_key", {"api_key"})
          /\ Answer(r, "done")
     ELSE Answer(r, "refused") /\ UNCHANGED <<row, audit>>
  /\ UNCHANGED <<rowLock, selected, bucket, now, granted, ran, overlapped>>

-----------------------------------------------------------------------------
(* Deletion and selection *)

\* Mutant: nobody looks whether it is in use.
Delete_Unchecked(r) ==
  /\ request[r].pc = "new" /\ row.state # "absent"
  /\ request' = [request EXCEPT ![r] = [NewRequest EXCEPT !.pc = "asked", !.op = "delete"]]
  /\ UNCHANGED <<row, rowLock, audit, selected, bucket, now, granted, ran, overlapped>>

\* CONNECTION_IN_USE, from the campaigns as they are now.
Delete(r) ==
  /\ request[r].pc = "new" /\ row.state # "absent"
  /\ IF selected THEN Answer(r, "refused")
     ELSE request' = [request EXCEPT ![r] = [NewRequest EXCEPT !.pc = "asked", !.op = "delete"]]
  /\ UNCHANGED <<row, rowLock, audit, selected, bucket, now, granted, ran, overlapped>>

Selecting == \E r \in Request : request[r].pc = "asked" /\ request[r].op = "select"
Deleting == \E r \in Request : request[r].pc = "asked" /\ request[r].op = "delete"

DeleteRow(r) ==
  /\ request[r].pc = "asked" /\ request[r].op = "delete" /\ Unlocked
  /\ IF row.state = "present"
     THEN /\ row' = [row EXCEPT !.state = "deleted", !.verdict = NoVerdict]
          /\ Audited("deleted", {})
          /\ overlapped' = (overlapped \/ Selecting)
          /\ Answer(r, "done")
     ELSE Answer(r, "refused") /\ UNCHANGED <<row, audit, overlapped>>
  /\ UNCHANGED <<rowLock, selected, bucket, now, granted, ran>>

\* setProvider: the reference must name an enabled connection.
SetProvider(r) ==
  /\ request[r].pc = "new" /\ row.state # "absent"
  /\ IF row.state = "present" /\ row.at.enabled
     THEN request' = [request EXCEPT ![r] = [NewRequest EXCEPT !.pc = "asked", !.op = "select"]]
     ELSE Answer(r, "refused")
  /\ UNCHANGED <<row, rowLock, audit, selected, bucket, now, granted, ran, overlapped>>

WriteSelection(r) ==
  /\ request[r].pc = "asked" /\ request[r].op = "select"
  /\ selected' = TRUE
  /\ overlapped' = (overlapped \/ Deleting)
  /\ Answer(r, "done")
  /\ UNCHANGED <<row, rowLock, audit, bucket, now, granted, ran>>

\* null: nothing to check.
Unselect(r) ==
  /\ request[r].pc = "new" /\ selected
  /\ selected' = FALSE
  /\ Answer(r, "done")
  /\ UNCHANGED <<row, rowLock, audit, bucket, now, granted, ran, overlapped>>
-----------------------------------------------------------------------------
(* Connection tests *)

\* test reads the row, then takes a token; NOT_FOUND takes none.
Test(r) ==
  /\ request[r].pc = "new" /\ row.state # "absent"
  /\ IF row.state = "present"
     THEN /\ bucket' = Take(bucket, now)
          /\ IF Grants(bucket, now)
             THEN /\ granted' = granted + 1
                  /\ request' = [request EXCEPT ![r] = [NewRequest EXCEPT !.pc = "probing", !.op = "test",
                                                        !.read = Configuration(row)]]
             ELSE Answer(r, "refused") /\ UNCHANGED granted
     ELSE Answer(r, "refused") /\ UNCHANGED <<bucket, granted>>
  /\ UNCHANGED <<row, rowLock, audit, selected, now, ran, overlapped>>

\* Mutant: stored on the row, whatever it has become.
StoreVerdict_Anyway(r) ==
  /\ request[r].pc = "probing" /\ request[r].op = "test" /\ Unlocked
  /\ row' = IF row.state = "present" THEN [row EXCEPT !.verdict = request[r].read] ELSE row
  /\ Answer(r, "done")
  /\ UNCHANGED <<rowLock, audit, selected, bucket, now, granted, ran, overlapped>>

\* The verdict, whatever the probe found, is stored on the configuration it is
\* about or not at all.
StoreVerdict(r) ==
  /\ request[r].pc = "probing" /\ request[r].op = "test" /\ Unlocked
  /\ row' = IF row.state = "present" /\ Configuration(row) = request[r].read
            THEN [row EXCEPT !.verdict = request[r].read] ELSE row
  /\ Answer(r, "done")
  /\ UNCHANGED <<rowLock, audit, selected, bucket, now, granted, ran, overlapped>>

\* The wall clock, forward or back.
Tick(t) ==
  /\ t # now
  /\ ran < MaxNow
  /\ now' = t
  /\ ran' = IF t > now THEN ran + (t - now) ELSE ran
  /\ UNCHANGED <<row, rowLock, audit, selected, request, bucket, granted, overlapped>>

-----------------------------------------------------------------------------

RequestStep(r) ==
  \/ \E patch \in Patch : Update(r, patch)
  \/ LockForUpdate(r) \/ WriteUpdate(r)
  \/ ReplaceKey(r) \/ StoreKey(r)
  \/ Delete(r) \/ DeleteRow(r)
  \/ SetProvider(r) \/ WriteSelection(r) \/ Unselect(r)
  \/ Test(r) \/ StoreVerdict(r)

Next ==
  \/ \E key \in {0, 1} : Create(key)
  \/ \E r \in Request : RequestStep(r)
  \/ \E t \in 0..MaxNow : Tick(t)

Spec == Init /\ [][Next]_vars

-----------------------------------------------------------------------------
(* Properties *)

Verdict == [base_url : Value["base_url"], model_id : Value["model_id"], nonce : 0..MaxKeys] \cup {NoVerdict}

TypeOK ==
  /\ row \in [state : {"absent", "present", "deleted"}, at : Fields, nonce : 0..MaxKeys, verdict : Verdict]
  /\ rowLock \in Request \cup {NoOne}
  /\ \A i \in DOMAIN audit :
       /\ audit[i].action \in {"created", "updated", "replaced_key", "deleted", "enabled", "disabled"}
       /\ audit[i].changed \subseteq Updatable \cup {"api_key"}
  /\ selected \in BOOLEAN /\ overlapped \in BOOLEAN
  /\ \A r \in Request :
       /\ request[r].pc \in {"new", "asked", "locked", "probing", "done", "refused"}
       /\ request[r].op \in {"none", "update", "key", "delete", "select", "test"}
       /\ DOMAIN request[r].patch \subseteq Updatable
       /\ request[r].read \in Verdict /\ request[r].was \in BOOLEAN
  /\ bucket \in [parts : 0..(Capacity * Token), lastRefill : 0..MaxNow]
  /\ now \in 0..MaxNow /\ granted \in Nat /\ ran \in 0..(2 * MaxNow)

\* A stored verdict is about the endpoint, model and key of the row it is on,
\* also when they changed while its test was on its way (test, update).
VerdictIsOfThisConfiguration ==
  row.verdict # NoVerdict => row.verdict = Configuration(row)

\* What the audit tells of a step.
AuditTells ==
  LET changed == {f \in Updatable : row.at[f] # row'.at[f]} \cup (IF row.nonce # row'.nonce THEN {"api_key"} ELSE {})
      entry == audit'[Len(audit')]
  IN IF audit' = audit THEN changed = {} /\ row'.state = row.state
     ELSE row.state # "absent" =>
       /\ Len(audit') = Len(audit) + 1
       /\ row.state = "present"
       /\ entry.changed = changed
       /\ entry.action = "deleted" <=> row'.state = "deleted"
       /\ entry.action \in {"enabled", "disabled"} <=> "enabled" \in changed

\* Every change of the connection is audited in the step that makes it, with
\* exactly the fields it changed and the flip it made; a request that changes
\* nothing claims nothing, and nothing is audited after the deletion (update).
AuditTellsWhatHappened == [][AuditTells]_vars

\* The campaign names a connection that exists (delete is refused while it
\* does, setProvider takes no other), unless a selection and a deletion each
\* looked before the other wrote.
SelectionExists == selected /\ ~overlapped => row.state = "present"

\* However the wall clock moves, the tests let through are at most those a
\* full bucket holds and those its forward ticks refilled (TokenBucket.take).
TestsAreLimited == granted * Token + bucket.parts <= Capacity * Token + ran

=============================================================================
