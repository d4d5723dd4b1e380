---------------------- MODULE ProviderConnectionsProofs ----------------------
(***************************************************************************)
(* Proofs about ProviderConnections and its TokenBucket, for any requests, *)
(* patches, capacities and clocks.                                         *)
(***************************************************************************)
EXTENDS ProviderConnections, SequenceTheorems, TLAPS

-----------------------------------------------------------------------------
(* The bucket *)

Full == Capacity * Token
Bucket == [parts : 0..Full, lastRefill : Nat]
\* What the ticks since the last refill would add.
Owed(b, t) == AtLeast(t - b.lastRefill, 0)

\* The parts of a bucket are counted in numbers.
LEMMA FullIsNumber == Full \in Nat /\ Token \in Nat \ {0} /\ Token <= Full
<1>1. Full \in Nat
  BY BucketAssumption, SMT DEF Full
<1>2. \A c, t \in Nat \ {0} : t <= c * t
  BY SMT
<1> QED BY <1>1, <1>2, BucketAssumption DEF Full

\* A token costs Token parts, and a refill adds no more than is owed: a take
\* leaves the bucket with what it had and was owed, less the token.
LEMMA TakeConserves ==
  ASSUME NEW b \in Bucket, NEW t \in Nat
  PROVE  /\ Take(b, t) \in Bucket /\ Take(b, t).lastRefill = t
         /\ Take(b, t).parts + (IF Grants(b, t) THEN Token ELSE 0) <= b.parts + Owed(b, t)
<1> DEFINE full == Refilled(b, t)
<1>1. /\ full \in Bucket /\ full.lastRefill = t
      /\ full.parts <= b.parts + Owed(b, t)
  <2>1. b.parts \in 0..Full /\ b.lastRefill \in Nat
    BY DEF Bucket
  <2>2. Owed(b, t) \in Nat
    BY <2>1 DEF Owed, AtLeast
  <2>3. full = [parts |-> AtMost(Full, b.parts + Owed(b, t)), lastRefill |-> t]
    BY DEF Refilled, Owed, Full
  <2>4. AtMost(Full, b.parts + Owed(b, t)) \in 0..Full /\ AtMost(Full, b.parts + Owed(b, t)) <= b.parts + Owed(b, t)
    BY <2>1, <2>2, FullIsNumber DEF AtMost
  <2> HIDE DEF full
  <2> QED BY <2>3, <2>4 DEF Bucket
<1>2. CASE Grants(b, t)
  <2>1. Take(b, t) = [full EXCEPT !.parts = @ - Token] /\ full.parts >= Token
    BY <1>2 DEF Take, Grants
  <2> HIDE DEF full
  <2>2. Take(b, t) = [parts |-> full.parts - Token, lastRefill |-> t]
    BY <1>1, <2>1 DEF Bucket
  <2>3. full.parts \in 0..Full /\ full.parts - Token \in 0..Full
    BY <1>1, <2>1, FullIsNumber DEF Bucket
  <2>4. Owed(b, t) \in Nat /\ b.parts \in Nat
    BY DEF Owed, AtLeast, Bucket
  <2> QED BY <1>1, <1>2, <2>2, <2>3, <2>4, FullIsNumber DEF Bucket
<1>3. CASE ~Grants(b, t)
  <2>1. Take(b, t) = full
    BY <1>3 DEF Take
  <2> HIDE DEF full
  <2>2. full.parts \in Nat /\ Owed(b, t) \in Nat /\ b.parts \in Nat
    BY <1>1 DEF Owed, AtLeast, Bucket
  <2> QED BY <1>1, <1>3, <2>1, <2>2
<1> QED BY <1>2, <1>3

-----------------------------------------------------------------------------
(* The row, and what the requests hold of it *)

\* The patches that update is given, and what is left of one in a diff.
Patches == {<<>>} \cup Patch \cup UNION {{[f \in S |-> p[f]] : S \in SUBSET DOMAIN p} : p \in Patch}
Entry == [action : {"created", "updated", "replaced_key", "deleted", "enabled", "disabled"},
          changed : SUBSET (Updatable \cup {"api_key"})]
Rows == [state : {"absent", "present", "deleted"}, at : Fields, nonce : 0..MaxKeys, verdict : Verdict]
Requests == [pc : {"new", "asked", "locked", "probing", "done", "refused"},
             op : {"none", "update", "key", "delete", "select", "test"},
             patch : Patches, read : Verdict, was : BOOLEAN]

Form ==
  /\ row \in Rows
  /\ rowLock \in Request \cup {NoOne}
  /\ audit \in Seq(Entry)
  /\ selected \in BOOLEAN /\ overlapped \in BOOLEAN
  /\ request \in [Request -> Requests]

\* An update under way asks for a patch; one that has locked the row holds the
\* diff against the row as it still is.
UpdateInv ==
  \A r \in Request :
    /\ (request[r].pc = "asked" /\ request[r].op = "update") => request[r].patch \in Patch
    /\ request[r].pc = "locked" =>
         /\ rowLock = r /\ row.state = "present"
         /\ request[r].was = row.at.enabled
         /\ \A f \in DOMAIN request[r].patch : request[r].patch[f] # row.at[f]

\* A row that is not there yet has no verdict.
VerdictInv == VerdictIsOfThisConfiguration /\ (row.state = "absent" => row.verdict = NoVerdict)

RowInv == Form /\ UpdateInv /\ VerdictInv

\* A patch names fields, and gives them values.
LEMMA PatchValues ==
  \A p \in Patches : /\ DOMAIN p \subseteq Updatable /\ \A f \in DOMAIN p : p[f] \in Value[f]
<1> SUFFICES ASSUME NEW p \in Patches
             PROVE  DOMAIN p \subseteq Updatable /\ \A f \in DOMAIN p : p[f] \in Value[f]
  OBVIOUS
<1>1. CASE p = <<>>
  BY <1>1
<1>2. CASE p \in Patch
  BY <1>2, PatchAssumption
<1>3. ASSUME NEW q \in Patch, NEW S \in SUBSET DOMAIN q, p = [f \in S |-> q[f]]
      PROVE  DOMAIN p \subseteq Updatable /\ \A f \in DOMAIN p : p[f] \in Value[f]
  BY <1>3, PatchAssumption
<1> QED BY <1>1, <1>2, <1>3 DEF Patches

\* What a request becomes, but for one that locks the row.
Ordinary(new) ==
  /\ new \in Requests /\ new.pc # "locked"
  /\ (new.pc = "asked" /\ new.op = "update") => new.patch \in Patch

\* The initial request and verdict are of their types, and every answer and
\* every question leaves an ordinary request.
LEMMA RequestForms ==
  /\ NewRequest \in Requests /\ NoVerdict \in Verdict
  /\ \A pc \in {"done", "refused"} : Ordinary([NewRequest EXCEPT !.pc = pc])
  /\ \A op \in {"key", "delete", "select"} : Ordinary([NewRequest EXCEPT !.pc = "asked", !.op = op])
  /\ \A patch \in Patch : Ordinary([NewRequest EXCEPT !.pc = "asked", !.op = "update", !.patch = patch])
  /\ \A read \in Verdict : Ordinary([NewRequest EXCEPT !.pc = "probing", !.op = "test", !.read = read])
<1>1. NoVerdict \in Verdict
  BY DEF Verdict
<1>2. <<>> \in Patches /\ Patch \subseteq Patches
  BY DEF Patches
<1>3. NewRequest \in Requests
  BY <1>1, <1>2 DEF NewRequest, Requests
<1> QED BY <1>1, <1>2, <1>3 DEF Ordinary, Requests, NewRequest

\* A request that becomes an ordinary one disturbs no update that holds the
\* row, unless it was that update, or none did.
LEMMA OrdinaryStep ==
  ASSUME Form, UpdateInv, NEW r \in Request,
         \E new : Ordinary(new) /\ request' = [request EXCEPT ![r] = new],
         \/ rowLock = NoOne \/ request[r].pc = "locked"
         \/ rowLock' = rowLock /\ row'.state = row.state /\ row'.at = row.at
  PROVE  request' \in [Request -> Requests] /\ UpdateInv'
<1>1. PICK new : Ordinary(new) /\ request' = [request EXCEPT ![r] = new]
  OBVIOUS
<1>2. /\ request' \in [Request -> Requests] /\ request'[r] = new
      /\ \A q \in Request \ {r} : request'[q] = request[q]
  BY <1>1 DEF Form, Ordinary
<1>3. ASSUME NEW q \in Request, q # r, request[q].pc = "locked"
      PROVE  rowLock' = rowLock /\ row'.state = row.state /\ row'.at = row.at
  BY <1>3, RequestAssumption DEF UpdateInv
<1> QED BY <1>1, <1>2, <1>3 DEF UpdateInv, Ordinary

\* A row has a configuration a verdict can be about.
LEMMA ConfigurationForm == \A r \in Rows : Configuration(r) \in Verdict
BY DEF Rows, Fields, Configuration, Verdict

\* An audit row is one more.
LEMMA AuditGrows ==
  ASSUME Form, NEW action, NEW changed, Audited(action, changed),
         [action |-> action, changed |-> changed] \in Entry
  PROVE  /\ audit' \in Seq(Entry) /\ Len(audit') = Len(audit) + 1 /\ audit' # audit
         /\ audit'[Len(audit')] = [action |-> action, changed |-> changed]
<1> DEFINE entry == [action |-> action, changed |-> changed]
<1>1. audit \in Seq(Entry) /\ entry \in Entry /\ audit' = Append(audit, entry)
  BY DEF Form, Audited
<1> HIDE DEF entry
<1>2. /\ Append(audit, entry) \in Seq(Entry) /\ Len(Append(audit, entry)) = Len(audit) + 1
      /\ Append(audit, entry)[Len(audit) + 1] = entry
  BY <1>1, AppendProperties
<1>3. Len(audit) \in Nat
  BY <1>1, LenProperties
<1> QED BY <1>1, <1>2, <1>3 DEF entry

\* The updatable fields of a row are a value for each of them.
LEMMA FieldValues ==
  ASSUME NEW g, g = [f \in Updatable |-> g[f]], \A f \in Updatable : g[f] \in Value[f]
  PROVE  g \in Fields
<1>1. g = [label |-> g["label"], base_url |-> g["base_url"], model_id |-> g["model_id"], enabled |-> g["enabled"]]
  BY DEF Updatable
<1> HIDE DEF Fields
<1> QED BY <1>1 DEF Fields, Updatable

\* What an update writes: the diff it took when it locked the row, which is
\* exactly what it changes.
LEMMA UpdateWrites ==
  ASSUME Form, UpdateInv, NEW r \in Request, WriteUpdate(r)
  PROVE  LET set == request[r].patch IN
           /\ DOMAIN set \subseteq Updatable
           /\ row' \in Rows /\ row.state = "present" /\ row'.state = "present" /\ row'.nonce = row.nonce
           /\ row'.verdict = IF DOMAIN set \cap {"base_url", "model_id"} # {} THEN NoVerdict ELSE row.verdict
           /\ \A f \in Updatable : row'.at[f] = IF f \in DOMAIN set THEN set[f] ELSE row.at[f]
           /\ DOMAIN set = {f \in Updatable : row.at[f] # row'.at[f]}
<1> DEFINE set == request[r].patch
           at == [f \in Updatable |-> IF f \in DOMAIN set THEN set[f] ELSE row.at[f]]
           verdict == IF DOMAIN set \cap {"base_url", "model_id"} # {} THEN NoVerdict ELSE row.verdict
<1>1. set \in Patches /\ row \in Rows
  BY DEF Form, Requests
<1>2. DOMAIN set \subseteq Updatable /\ \A f \in DOMAIN set : set[f] \in Value[f] /\ set[f] # row.at[f]
  BY <1>1, PatchValues DEF UpdateInv, WriteUpdate
<1>3. \A f \in Updatable : row.at[f] \in Value[f]
  BY <1>1 DEF Rows, Fields, Updatable
<1>4. at \in Fields
  <2>1. at = [f \in Updatable |-> at[f]] /\ \A f \in Updatable : at[f] \in Value[f]
    BY <1>2, <1>3
  <2> HIDE DEF at
  <2> QED BY <2>1, FieldValues
<1>5. verdict \in Verdict
  BY <1>1, RequestForms DEF Rows
<1>6. row' = [row EXCEPT !.at = at, !.verdict = verdict]
  <2>1. row.at = [f \in DOMAIN row.at |-> row.at[f]]
    BY <1>1 DEF Rows, Fields
  <2> QED BY <1>1 DEF WriteUpdate, Rows
<1>7. row.state = "present"
  BY DEF WriteUpdate, UpdateInv
<1>8. \A f \in Updatable : at[f] = IF f \in DOMAIN set THEN set[f] ELSE row.at[f]
  OBVIOUS
<1> HIDE DEF set, at, verdict
<1>9. row' \in Rows /\ row'.state = "present" /\ row'.nonce = row.nonce /\ row'.at = at /\ row'.verdict = verdict
  BY <1>1, <1>4, <1>5, <1>6, <1>7 DEF Rows
<1>10. DOMAIN set = {f \in Updatable : row.at[f] # row'.at[f]}
  BY <1>2, <1>8, <1>9
<1> QED BY <1>2, <1>7, <1>8, <1>9, <1>10 DEF set, verdict

\* Every request keeps the invariant of the row.
LEMMA RowInductive == RowInv /\ [Next]_vars => RowInv'
<1> USE RequestAssumption, BoundAssumption, ValueAssumption DEF RowInv
<1> SUFFICES ASSUME RowInv, [Next]_vars PROVE RowInv'
  OBVIOUS
<1>1. ASSUME NEW r \in Request, NEW patch \in Patch, Update(r, patch) PROVE RowInv'
  <2>1. \E new : Ordinary(new) /\ request' = [request EXCEPT ![r] = new]
    BY <1>1, RequestForms, ConfigurationForm DEF Update, Answer, Form
  <2>2. request' \in [Request -> Requests] /\ UpdateInv'
    BY <1>1, <2>1, OrdinaryStep DEF Update
  <2>3. Form'
    BY <1>1, <2>2, RequestForms, ConfigurationForm DEF Form, Update, Audited, Rows, Entry
  <2>4. VerdictInv'
    BY <1>1 DEF VerdictInv, VerdictIsOfThisConfiguration, Form, Rows, Update, Configuration
  <2> QED BY <2>2, <2>3, <2>4
<1>2. ASSUME NEW r \in Request, WriteUpdate(r) PROVE RowInv'
  <2>1. \E new : Ordinary(new) /\ request' = [request EXCEPT ![r] = new]
    BY <1>2, RequestForms, ConfigurationForm DEF WriteUpdate, Answer, Form
  <2>2. request' \in [Request -> Requests] /\ UpdateInv'
    BY <1>2, <2>1, OrdinaryStep DEF WriteUpdate
  <2>3. Form'
    <3>1. row' \in Rows /\ DOMAIN request[r].patch \subseteq Updatable
      BY <1>2, UpdateWrites
    <3>2. [action |-> ActionFor(request[r].was, request[r].patch), changed |-> DOMAIN request[r].patch] \in Entry
      BY <3>1 DEF ActionFor, Entry
    <3>3. audit' \in Seq(Entry)
      BY <1>2, <3>2, AuditGrows DEF WriteUpdate
    <3> QED BY <1>2, <2>2, <3>1, <3>3 DEF Form, WriteUpdate
  <2>4. VerdictInv'
    BY <1>2, UpdateWrites DEF VerdictInv, VerdictIsOfThisConfiguration, Configuration, Updatable
  <2> QED BY <2>2, <2>3, <2>4
<1>3. ASSUME NEW r \in Request, ReplaceKey(r) PROVE RowInv'
  <2>1. \E new : Ordinary(new) /\ request' = [request EXCEPT ![r] = new]
    BY <1>3, RequestForms, ConfigurationForm DEF ReplaceKey, Answer, Form
  <2>2. request' \in [Request -> Requests] /\ UpdateInv'
    BY <1>3, <2>1, OrdinaryStep DEF ReplaceKey
  <2>3. Form'
    BY <1>3, <2>2, RequestForms, ConfigurationForm DEF Form, ReplaceKey, Audited, Rows, Entry
  <2>4. VerdictInv'
    BY <1>3 DEF VerdictInv, VerdictIsOfThisConfiguration, Form, Rows, ReplaceKey, Configuration
  <2> QED BY <2>2, <2>3, <2>4
<1>4. ASSUME NEW r \in Request, StoreKey(r) PROVE RowInv'
  <2>1. \E new : Ordinary(new) /\ request' = [request EXCEPT ![r] = new]
    BY <1>4, RequestForms, ConfigurationForm DEF StoreKey, Unlocked, Answer, Form
  <2>2. request' \in [Request -> Requests] /\ UpdateInv'
    BY <1>4, <2>1, OrdinaryStep DEF StoreKey, Unlocked
  <2>3. Form'
    <3>1. row' \in Rows
      <4>1. CASE row.state = "present"
        <5>1. row.nonce + 1 \in 0..MaxKeys
          BY <1>4, <4>1 DEF StoreKey, Form, Rows
        <5>2. row' = [row EXCEPT !.nonce = row.nonce + 1, !.verdict = NoVerdict]
          BY <1>4, <4>1 DEF StoreKey, Form, Rows
        <5> QED BY <5>1, <5>2, RequestForms DEF Form, Rows
      <4>2. CASE row.state # "present"
        BY <1>4, <4>2 DEF StoreKey, Form
      <4> QED BY <4>1, <4>2
    <3>2. [action |-> "replaced_key", changed |-> {"api_key"}] \in Entry
      BY DEF Entry
    <3>3. audit' \in Seq(Entry)
      BY <1>4, <3>2, AuditGrows DEF StoreKey, Form
    <3> QED BY <1>4, <2>2, <3>1, <3>3 DEF Form, StoreKey
  <2>4. VerdictInv'
    BY <1>4 DEF VerdictInv, VerdictIsOfThisConfiguration, Form, Rows, StoreKey, Unlocked, Configuration
  <2> QED BY <2>2, <2>3, <2>4
<1>5. ASSUME NEW r \in Request, Delete(r) PROVE RowInv'
  <2>1. \E new : Ordinary(new) /\ request' = [request EXCEPT ![r] = new]
    BY <1>5, RequestForms, ConfigurationForm DEF Delete, Answer, Form
  <2>2. request' \in [Request -> Requests] /\ UpdateInv'
    BY <1>5, <2>1, OrdinaryStep DEF Delete
  <2>3. Form'
    BY <1>5, <2>2, RequestForms, ConfigurationForm DEF Form, Delete, Audited, Rows, Entry
  <2>4. VerdictInv'
    BY <1>5 DEF VerdictInv, VerdictIsOfThisConfiguration, Form, Rows, Delete, Configuration
  <2> QED BY <2>2, <2>3, <2>4
<1>6. ASSUME NEW r \in Request, DeleteRow(r) PROVE RowInv'
  <2>1. \E new : Ordinary(new) /\ request' = [request EXCEPT ![r] = new]
    BY <1>6, RequestForms, ConfigurationForm DEF DeleteRow, Unlocked, Answer, Form
  <2>2. request' \in [Request -> Requests] /\ UpdateInv'
    BY <1>6, <2>1, OrdinaryStep DEF DeleteRow, Unlocked
  <2>3. Form'
    <3>1. row' \in Rows
      BY <1>6, RequestForms DEF DeleteRow, Form, Rows
    <3>2. [action |-> "deleted", changed |-> {}] \in Entry
      BY DEF Entry
    <3>3. audit' \in Seq(Entry)
      BY <1>6, <3>2, AuditGrows DEF DeleteRow, Form
    <3>4. overlapped' \in BOOLEAN
      BY <1>6 DEF DeleteRow, Form, Selecting
    <3> QED BY <1>6, <2>2, <3>1, <3>3, <3>4 DEF Form, DeleteRow
  <2>4. VerdictInv'
    BY <1>6 DEF VerdictInv, VerdictIsOfThisConfiguration, Form, Rows, DeleteRow, Unlocked, Configuration
  <2> QED BY <2>2, <2>3, <2>4
<1>7. ASSUME NEW r \in Request, SetProvider(r) PROVE RowInv'
  <2>1. \E new : Ordinary(new) /\ request' = [request EXCEPT ![r] = new]
    BY <1>7, RequestForms, ConfigurationForm DEF SetProvider, Answer, Form
  <2>2. request' \in [Request -> Requests] /\ UpdateInv'
    BY <1>7, <2>1, OrdinaryStep DEF SetProvider
  <2>3. Form'
    BY <1>7, <2>2, RequestForms, ConfigurationForm DEF Form, SetProvider, Audited, Rows, Entry
  <2>4. VerdictInv'
    BY <1>7 DEF VerdictInv, VerdictIsOfThisConfiguration, Form, Rows, SetProvider, Configuration
  <2> QED BY <2>2, <2>3, <2>4
<1>8. ASSUME NEW r \in Request, WriteSelection(r) PROVE RowInv'
  <2>1. \E new : Ordinary(new) /\ request' = [request EXCEPT ![r] = new]
    BY <1>8, RequestForms, ConfigurationForm DEF WriteSelection, Answer, Form
  <2>2. request' \in [Request -> Requests] /\ UpdateInv'
    BY <1>8, <2>1, OrdinaryStep DEF WriteSelection
  <2>3. Form'
    BY <1>8, <2>2, RequestForms, ConfigurationForm DEF Form, WriteSelection, Audited, Rows, Entry
  <2>4. VerdictInv'
    BY <1>8 DEF VerdictInv, VerdictIsOfThisConfiguration, Form, Rows, WriteSelection, Configuration
  <2> QED BY <2>2, <2>3, <2>4
<1>9. ASSUME NEW r \in Request, Unselect(r) PROVE RowInv'
  <2>1. \E new : Ordinary(new) /\ request' = [request EXCEPT ![r] = new]
    BY <1>9, RequestForms, ConfigurationForm DEF Unselect, Answer, Form
  <2>2. request' \in [Request -> Requests] /\ UpdateInv'
    BY <1>9, <2>1, OrdinaryStep DEF Unselect
  <2>3. Form'
    BY <1>9, <2>2, RequestForms, ConfigurationForm DEF Form, Unselect, Audited, Rows, Entry
  <2>4. VerdictInv'
    BY <1>9 DEF VerdictInv, VerdictIsOfThisConfiguration, Form, Rows, Unselect, Configuration
  <2> QED BY <2>2, <2>3, <2>4
<1>10. ASSUME NEW r \in Request, Test(r) PROVE RowInv'
  <2>1. \E new : Ordinary(new) /\ request' = [request EXCEPT ![r] = new]
    BY <1>10, RequestForms, ConfigurationForm DEF Test, Answer, Form
  <2>2. request' \in [Request -> Requests] /\ UpdateInv'
    BY <1>10, <2>1, OrdinaryStep DEF Test
  <2>3. Form'
    BY <1>10, <2>2, RequestForms, ConfigurationForm DEF Form, Test, Audited, Rows, Entry
  <2>4. VerdictInv'
    BY <1>10 DEF VerdictInv, VerdictIsOfThisConfiguration, Form, Rows, Test, Configuration
  <2> QED BY <2>2, <2>3, <2>4
<1>11. ASSUME NEW r \in Request, StoreVerdict(r) PROVE RowInv'
  <2>1. \E new : Ordinary(new) /\ request' = [request EXCEPT ![r] = new]
    BY <1>11, RequestForms, ConfigurationForm DEF StoreVerdict, Unlocked, Answer, Form
  <2>2. request' \in [Request -> Requests] /\ UpdateInv'
    BY <1>11, <2>1, OrdinaryStep DEF StoreVerdict, Unlocked
  <2>3. Form'
    BY <1>11, <2>2, RequestForms, ConfigurationForm DEF Form, StoreVerdict, Unlocked, Audited, Rows, Entry
  <2>4. VerdictInv'
    BY <1>11 DEF VerdictInv, VerdictIsOfThisConfiguration, Form, Rows, StoreVerdict, Unlocked, Configuration
  <2> QED BY <2>2, <2>3, <2>4
<1>12. ASSUME NEW key \in {0, 1}, Create(key) PROVE RowInv'
  <2>1. Form'
    <3>1. row' \in Rows
      <4>1. key \in 0..MaxKeys
        BY <1>12
      <4> QED BY <1>12, <4>1 DEF Create, Form, Rows
    <3>2. [action |-> "created", changed |-> Created(key)] \in Entry
      BY DEF Entry, Created, Updatable
    <3>3. audit' \in Seq(Entry)
      BY <1>12, <3>2, AuditGrows DEF Create
    <3> QED BY <1>12, <3>1, <3>3 DEF Form, Create
  <2>2. UpdateInv'
    BY <1>12 DEF UpdateInv, Form, Rows, Requests, Create
  <2>3. VerdictInv'
    BY <1>12 DEF VerdictInv, VerdictIsOfThisConfiguration, Form, Rows, Create, Configuration
  <2> QED BY <2>1, <2>2, <2>3
<1>13. ASSUME NEW r \in Request, LockForUpdate(r) PROVE RowInv'
  <2> DEFINE patch == request[r].patch
             diff == [f \in Changed(row.at, patch) |-> patch[f]]
             new == [request[r] EXCEPT !.pc = "locked", !.was = row.at.enabled, !.patch = diff]
  <2>1. UNCHANGED <<row, audit, selected, overlapped>>
    BY <1>13 DEF LockForUpdate
  <2>2. /\ request[r].pc = "asked" /\ request[r].op = "update" /\ rowLock = NoOne
        /\ patch \in Patch /\ row.at \in Fields
    BY <1>13 DEF LockForUpdate, Unlocked, UpdateInv, Form, Rows
  <2>3. VerdictInv'
    BY <2>1 DEF VerdictInv, VerdictIsOfThisConfiguration, Configuration
  <2>4. CASE row.state = "present"
    <3>1. diff \in Patches /\ (\A f \in DOMAIN diff : diff[f] # row.at[f]) /\ row.at.enabled \in BOOLEAN
      <4>1. Changed(row.at, patch) \in SUBSET DOMAIN patch
        BY DEF Changed
      <4>2. diff \in Patches
        BY <2>2, <4>1 DEF Patches
      <4>3. \A f \in DOMAIN diff : diff[f] # row.at[f]
        BY DEF Changed
      <4> QED BY <2>2, <4>2, <4>3 DEF Fields
    <3>2. rowLock' = r /\ request' = [request EXCEPT ![r] = new]
      BY <1>13, <2>4 DEF LockForUpdate, Form
    <3> HIDE DEF diff
    <3>3. /\ new \in Requests /\ new.pc = "locked" /\ new.was = row.at.enabled /\ new.patch = diff
          /\ new.op = "update"
      BY <2>2, <3>1 DEF Form, Requests
    <3> HIDE DEF new
    <3>4. Form'
      BY <2>1, <3>2, <3>3 DEF Form
    <3>5. UpdateInv'
      BY <2>1, <2>2, <2>4, <3>1, <3>2, <3>3 DEF UpdateInv, Form
    <3> QED BY <2>3, <3>4, <3>5
  <2>5. CASE row.state # "present"
    <3>1. request' = [request EXCEPT ![r] = [NewRequest EXCEPT !.pc = "refused"]] /\ UNCHANGED rowLock
      BY <1>13, <2>5 DEF LockForUpdate, Answer
    <3>2. request' \in [Request -> Requests] /\ UpdateInv'
      BY <2>1, <3>1, RequestForms, OrdinaryStep
    <3> QED BY <2>1, <2>3, <3>1, <3>2 DEF Form
  <2> QED BY <2>4, <2>5
<1>14. ASSUME NEW t \in 0..MaxNow, Tick(t) PROVE RowInv'
  <2>1. Form'
    BY <1>14 DEF Form, Tick, Audited, Created, Rows, Entry
  <2>2. UpdateInv'
    BY <1>14 DEF UpdateInv, Form, Rows, Requests, Tick
  <2>3. VerdictInv'
    BY <1>14 DEF VerdictInv, VerdictIsOfThisConfiguration, Form, Rows, Tick, Configuration
  <2> QED BY <2>1, <2>2, <2>3
<1>15. CASE UNCHANGED vars
  BY <1>15 DEF vars, Form, UpdateInv, VerdictInv, VerdictIsOfThisConfiguration, Configuration
<1> QED
  BY <1>1, <1>2, <1>3, <1>4, <1>5, <1>6, <1>7, <1>8, <1>9, <1>10, <1>11, <1>12, <1>13, <1>14, <1>15 DEF Next, RequestStep

\* The row starts absent, and nobody has asked for anything.
LEMMA RowInitially == Init => RowInv
<1> SUFFICES ASSUME Init PROVE RowInv
  OBVIOUS
<1> USE RequestAssumption, BoundAssumption
<1>1. PICK at \in Fields : row = [state |-> "absent", at |-> at, nonce |-> 0, verdict |-> NoVerdict]
  BY DEF Init
<1>2. row \in Rows /\ row.state = "absent" /\ row.verdict = NoVerdict
  <2>1. NoVerdict \in Verdict
    BY DEF Verdict
  <2>2. 0 \in 0..MaxKeys
    OBVIOUS
  <2> QED BY <1>1, <2>1, <2>2 DEF Rows
<1>3. audit \in Seq(Entry)
  BY DEF Init
<1>4. Form
  BY <1>2, <1>3, RequestForms DEF Init, Form
<1>5. \A r \in Request : request[r].pc = "new"
  BY DEF Init, NewRequest
<1>6. UpdateInv /\ VerdictInv
  BY <1>2, <1>5 DEF UpdateInv, VerdictInv, VerdictIsOfThisConfiguration
<1> QED BY <1>4, <1>6 DEF RowInv

\* The row keeps its invariant in every interleaving of the requests.
THEOREM RowInvariant == Spec => []RowInv
BY RowInitially, RowInductive, PTL DEF Spec

\* A stored verdict is about the configuration it is stored on: a test that
\* outlived its configuration stores nothing, an update or a key that moves the
\* configuration clears what was stored (StoreVerdict, WriteUpdate, StoreKey).
THEOREM VerdictsMatch == Spec => []VerdictIsOfThisConfiguration
<1>1. RowInv => VerdictIsOfThisConfiguration
  BY DEF RowInv, VerdictInv
<1> QED BY <1>1, RowInvariant, PTL

-----------------------------------------------------------------------------
(* The audit *)

\* A step that leaves the fields, the key and the audit as they are claims nothing.
LEMMA SilentStep ==
  ASSUME audit' = audit, row'.at = row.at, row'.nonce = row.nonce, row'.state = row.state
  PROVE  AuditTells
BY DEF AuditTells

\* Every step of the system tells in the audit what it did.
LEMMA StepsTell == RowInv /\ [Next]_vars => AuditTells
<1> SUFFICES ASSUME RowInv, [Next]_vars PROVE AuditTells
  OBVIOUS
<1>1. Form /\ UpdateInv
  BY DEF RowInv
<1>2. CASE UNCHANGED vars
  BY <1>2, SilentStep DEF vars
<1>3. ASSUME NEW key \in {0, 1}, Create(key) PROVE AuditTells
  <2>1. [action |-> "created", changed |-> Created(key)] \in Entry
    BY DEF Entry, Created, Updatable
  <2>2. audit' # audit
    BY <1>1, <1>3, <2>1, AuditGrows DEF Create
  <2> QED BY <1>3, <2>2 DEF AuditTells, Create
<1>4. ASSUME NEW t \in 0..MaxNow, Tick(t) PROVE AuditTells
  BY <1>4, SilentStep DEF Tick
<1>5. ASSUME NEW r \in Request, RequestStep(r) PROVE AuditTells
  <2>1. CASE WriteUpdate(r)
    <3> DEFINE set == request[r].patch
               action == ActionFor(request[r].was, set)
    <3>1. /\ DOMAIN set \subseteq Updatable
          /\ row.state = "present" /\ row'.state = "present" /\ row'.nonce = row.nonce
          /\ DOMAIN set = {f \in Updatable : row.at[f] # row'.at[f]}
      BY <1>1, <2>1, UpdateWrites
    <3>2. /\ action \in {"updated", "enabled", "disabled"}
          /\ action \in {"enabled", "disabled"} <=> "enabled" \in DOMAIN set
      BY <1>1, <2>1 DEF ActionFor, UpdateInv, WriteUpdate
    <3>3. [action |-> action, changed |-> DOMAIN set] \in Entry
      BY <3>1, <3>2 DEF Entry
    <3>4. /\ Len(audit') = Len(audit) + 1 /\ audit' # audit
          /\ audit'[Len(audit')] = [action |-> action, changed |-> DOMAIN set]
      BY <1>1, <2>1, <3>3, AuditGrows DEF WriteUpdate
    <3> HIDE DEF set, action
    <3> QED BY <3>1, <3>2, <3>4 DEF AuditTells
  <2>2. CASE StoreKey(r)
    <3>1. CASE row.state = "present"
      <4>1. /\ row'.at = row.at /\ row'.nonce = row.nonce + 1 /\ row.nonce \in Nat /\ row'.state = row.state
            /\ Audited("replaced_key", {"api_key"})
        <5>1. row \in Rows /\ row.nonce \in Nat
          BY <1>1, BoundAssumption DEF Form, Rows
        <5>2. row' = [row EXCEPT !.nonce = row.nonce + 1, !.verdict = NoVerdict]
          BY <2>2, <3>1, <5>1 DEF StoreKey, Rows
        <5> QED BY <2>2, <3>1, <5>1, <5>2 DEF StoreKey, Rows
      <4>2. [action |-> "replaced_key", changed |-> {"api_key"}] \in Entry
        BY DEF Entry
      <4>3. /\ Len(audit') = Len(audit) + 1 /\ audit' # audit
            /\ audit'[Len(audit')] = [action |-> "replaced_key", changed |-> {"api_key"}]
        BY <1>1, <4>1, <4>2, AuditGrows
      <4> QED BY <3>1, <4>1, <4>3 DEF AuditTells, Updatable
    <3>2. CASE row.state # "present"
      BY <2>2, <3>2, SilentStep DEF StoreKey
    <3> QED BY <3>1, <3>2
  <2>3. CASE DeleteRow(r)
    <3>1. CASE row.state = "present"
      <4>1. /\ row'.at = row.at /\ row'.nonce = row.nonce /\ row'.state = "deleted" /\ Audited("deleted", {})
        BY <1>1, <2>3, <3>1 DEF DeleteRow, Form, Rows
      <4>2. [action |-> "deleted", changed |-> {}] \in Entry
        BY DEF Entry
      <4>3. /\ Len(audit') = Len(audit) + 1 /\ audit' # audit
            /\ audit'[Len(audit')] = [action |-> "deleted", changed |-> {}]
        BY <1>1, <4>1, <4>2, AuditGrows
      <4> QED BY <3>1, <4>1, <4>3 DEF AuditTells
    <3>2. CASE row.state # "present"
      BY <2>3, <3>2, SilentStep DEF DeleteRow
    <3> QED BY <3>1, <3>2
  <2>4. CASE StoreVerdict(r)
    <3>1. row'.at = row.at /\ row'.nonce = row.nonce /\ row'.state = row.state /\ audit' = audit
      BY <1>1, <2>4 DEF StoreVerdict, Form, Rows
    <3> QED BY <3>1, SilentStep
  <2>5. CASE ~WriteUpdate(r) /\ ~StoreKey(r) /\ ~DeleteRow(r) /\ ~StoreVerdict(r)
    <3>1. UNCHANGED <<row, audit>>
      BY <1>5, <2>5 DEF RequestStep, Update, LockForUpdate, ReplaceKey, Delete, SetProvider, WriteSelection,
         Unselect, Test
    <3> QED BY <3>1, SilentStep
  <2> QED BY <2>1, <2>2, <2>3, <2>4, <2>5
<1> QED BY <1>2, <1>3, <1>4, <1>5 DEF Next

\* Every change of the connection is audited in the step that makes it, with
\* the fields it changed and no others, also when the row changed between the
\* request and its lock; nothing is audited after the deletion.
THEOREM AuditIsExact == Spec => AuditTellsWhatHappened
<1>1. RowInv /\ [Next]_vars => [AuditTells]_vars
  BY StepsTell
<1> QED BY <1>1, RowInvariant, PTL DEF Spec, AuditTellsWhatHappened

-----------------------------------------------------------------------------
(* The limit of the tests *)

\* The tests let through, what is in the bucket, and what it is owed for the
\* time since its last refill: no more than a full bucket and the forward ticks.
LimitInv ==
  /\ bucket \in [parts : 0..Full, lastRefill : 0..MaxNow] /\ now \in 0..MaxNow
  /\ granted \in Nat /\ ran \in 0..(2 * MaxNow)
  /\ granted * Token + bucket.parts + Owed(bucket, now) <= Full + ran

\* Every step keeps to the limit: a tick back takes away what was owed.
LEMMA LimitInductive == LimitInv /\ [Next]_vars => LimitInv'
<1> USE BoundAssumption
<1> SUFFICES ASSUME LimitInv, [Next]_vars PROVE LimitInv'
  OBVIOUS
<1>1. bucket \in Bucket /\ now \in Nat /\ granted \in Nat /\ ran \in Nat /\ bucket.parts \in Nat
  BY FullIsNumber DEF LimitInv, Bucket
<1>2. Owed(bucket, now) \in Nat
  BY <1>1 DEF Owed, AtLeast, Bucket
<1>3. granted * Token \in Nat /\ (granted + 1) * Token = granted * Token + Token
  BY <1>1, FullIsNumber
<1>4. CASE UNCHANGED <<bucket, now, granted, ran>>
  BY <1>4 DEF LimitInv, Owed
<1>5. ASSUME NEW t \in 0..MaxNow, Tick(t) PROVE LimitInv'
  <2>1. now' = t /\ UNCHANGED <<bucket, granted>>
    BY <1>5 DEF Tick
  <2>2. ran' \in 0..(2 * MaxNow)
    BY <1>1, <1>5 DEF Tick, LimitInv
  <2>3. Owed(bucket, t) + ran <= Owed(bucket, now) + ran'
    BY <1>1, <1>5 DEF Tick, Owed, AtLeast, Bucket
  <2>4. Owed(bucket, t) \in Nat
    BY <1>1 DEF Owed, AtLeast, Bucket
  <2>5. granted * Token + bucket.parts + Owed(bucket, t) <= Full + ran'
    <3> DEFINE tests == granted * Token
    <3>1. tests + bucket.parts + Owed(bucket, now) <= Full + ran
      BY DEF LimitInv
    <3> HIDE DEF tests
    <3>2. tests + bucket.parts + Owed(bucket, t) <= Full + ran'
      BY <1>1, <1>2, <1>3, <2>2, <2>3, <2>4, <3>1, FullIsNumber DEF tests
    <3> QED BY <3>2 DEF tests
  <2> QED BY <2>1, <2>2, <2>5 DEF LimitInv, Owed
<1>6. ASSUME NEW r \in Request, Test(r), ~UNCHANGED <<bucket, now, granted, ran>> PROVE LimitInv'
  <2>1. /\ bucket' = Take(bucket, now) /\ now' = now /\ ran' = ran
        /\ granted' = IF Grants(bucket, now) THEN granted + 1 ELSE granted
    BY <1>6 DEF Test
  <2>2. /\ bucket' \in Bucket /\ bucket'.lastRefill = now
        /\ bucket'.parts + (IF Grants(bucket, now) THEN Token ELSE 0) <= bucket.parts + Owed(bucket, now)
    BY <1>1, <2>1, TakeConserves
  <2>3. Owed(bucket', now') = 0
    BY <1>1, <2>1, <2>2 DEF Owed, AtLeast
  <2>4. bucket' \in [parts : 0..Full, lastRefill : 0..MaxNow]
    BY <2>2 DEF Bucket, LimitInv
  <2>5. granted' \in Nat /\ granted' * Token = granted * Token + (IF Grants(bucket, now) THEN Token ELSE 0)
    BY <1>1, <1>3, <2>1
  <2>6. granted' * Token + bucket'.parts + 0 <= Full + ran
    <3> DEFINE tests == granted * Token
               tests2 == granted' * Token
               cost == IF Grants(bucket, now) THEN Token ELSE 0
    <3>1. tests + bucket.parts + Owed(bucket, now) <= Full + ran
      BY DEF LimitInv
    <3>2. tests \in Nat /\ cost \in Nat /\ tests2 = tests + cost /\ bucket'.parts \in Nat
      BY <1>3, <2>2, <2>5, FullIsNumber DEF Bucket
    <3>3. bucket'.parts + cost <= bucket.parts + Owed(bucket, now)
      BY <2>2
    <3> HIDE DEF tests, tests2, cost
    <3>4. tests2 + bucket'.parts + 0 <= Full + ran
      BY <1>1, <1>2, <3>1, <3>2, <3>3, FullIsNumber
    <3> QED BY <3>4 DEF tests2
  <2> QED BY <2>1, <2>3, <2>4, <2>5, <2>6 DEF LimitInv
<1>7. CASE \E key \in {0, 1} : Create(key)
  BY <1>4, <1>7 DEF Create
<1>8. ASSUME NEW r \in Request, RequestStep(r), ~Test(r) PROVE UNCHANGED <<bucket, now, granted, ran>>
  BY <1>8 DEF RequestStep, Update, LockForUpdate, WriteUpdate, ReplaceKey, StoreKey, Delete, DeleteRow,
     SetProvider, WriteSelection, Unselect, StoreVerdict
<1> QED BY <1>4, <1>5, <1>6, <1>7, <1>8 DEF Next, vars

\* The limit is kept whatever the clock does.
THEOREM LimitInvariant == Spec => []LimitInv
<1>1. Init => LimitInv
  <2> SUFFICES ASSUME Init PROVE LimitInv
    OBVIOUS
  <2>1. bucket = [parts |-> Full, lastRefill |-> 0] /\ now = 0 /\ granted = 0 /\ ran = 0
    BY DEF Init, FullBucket, Full
  <2>2. granted * Token = 0
    BY <2>1, FullIsNumber
  <2>3. Owed(bucket, now) = 0
    BY <2>1 DEF Owed, AtLeast
  <2> QED BY <2>1, <2>2, <2>3, FullIsNumber, BoundAssumption DEF LimitInv
<1> QED BY <1>1, LimitInductive, PTL DEF Spec

\* However the wall clock moves, forward, back or not at all, the tests let
\* through are at most those a full bucket holds and those refilled since.
THEOREM TestLimit == Spec => []TestsAreLimited
<1>1. LimitInv => TestsAreLimited
  <2> SUFFICES ASSUME LimitInv PROVE TestsAreLimited
    OBVIOUS
  <2> DEFINE tests == granted * Token
  <2>1. tests + bucket.parts + Owed(bucket, now) <= Full + ran /\ Full \in Nat
    BY FullIsNumber DEF LimitInv
  <2>2. Owed(bucket, now) \in Nat /\ bucket.parts \in Nat /\ ran \in Nat
    BY BoundAssumption, FullIsNumber DEF LimitInv, Owed, AtLeast
  <2>3. tests \in Nat
    BY FullIsNumber DEF LimitInv
  <2> HIDE DEF tests
  <2>4. tests + bucket.parts <= Full + ran
    BY <2>1, <2>2, <2>3
  <2> QED BY <2>4 DEF TestsAreLimited, tests, Full
<1> QED BY <1>1, LimitInvariant, PTL

\* The types of the row, the requests, the audit, the bucket and the clock.
THEOREM TypesCorrect == Spec => []TypeOK
<1>1. RowInv /\ LimitInv => TypeOK
  <2> SUFFICES ASSUME RowInv, LimitInv PROVE TypeOK
    OBVIOUS
  <2>1. Form
    BY DEF RowInv
  <2>2. \A i \in DOMAIN audit : audit[i] \in Entry
    BY <2>1 DEF Form
  <2>3. \A r \in Request : request[r] \in Requests /\ DOMAIN request[r].patch \subseteq Updatable
    BY <2>1, PatchValues DEF Form, Requests
  <2>4. \A i \in DOMAIN audit :
          /\ audit[i].action \in {"created", "updated", "replaced_key", "deleted", "enabled", "disabled"}
          /\ audit[i].changed \subseteq Updatable \cup {"api_key"}
    BY <2>2 DEF Entry
  <2>5. \A r \in Request :
          /\ request[r].pc \in {"new", "asked", "locked", "probing", "done", "refused"}
          /\ request[r].op \in {"none", "update", "key", "delete", "select", "test"}
          /\ request[r].read \in Verdict /\ request[r].was \in BOOLEAN
    BY <2>3 DEF Requests
  <2> QED BY <2>1, <2>3, <2>4, <2>5 DEF Form, Rows, LimitInv, Full, TypeOK
<1> QED BY <1>1, RowInvariant, LimitInvariant, PTL

=============================================================================
