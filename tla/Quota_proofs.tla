---------------------------- MODULE Quota_proofs ----------------------------
(***************************************************************************)
(* Proofs about Quota, for any images, requests and limits: the types      *)
(* always hold; without overlap and failures the count of images and the   *)
(* sum of their sizes are exact; and a push without failure repairs its    *)
(* row.                                                                    *)
(***************************************************************************)
EXTENDS Quota, Sums, FiniteSetTheorems, TLAPS

\* What TypeOK says of a single request.
RequestTyped(r) == r \in RequestState /\ (r.image = None <=> r.step = "idle")

\* A step that gives request o the state r.
LEMMA RequestStep ==
  ASSUME TypeOK, NEW o \in Requests, NEW r, RequestTyped(r), Become(o, r),
         reg' \in [Images -> Manifests \cup {None}], row' \in [Images -> Nat \cup {None}],
         useNum' \in Int, useSize' \in Int, UNCHANGED quota,
         faults' \in 0..MaxFaults
  PROVE  TypeOK'
BY DEF TypeOK, RequestTyped, Become

\* A request that fails and goes on.
LEMMA FailTyped ==
  ASSUME TypeOK, NEW o \in Requests, NEW r, RequestTyped(r), Fail(o, r)
  PROVE  /\ \E q : RequestTyped(q) /\ Become(o, q)
         /\ faults' \in 0..MaxFaults
<1>1. RequestTyped([r EXCEPT !.clean = FALSE])
  BY DEF RequestTyped, RequestState
<1>2. faults' \in 0..MaxFaults
  BY QuotaAssumption DEF Fail, TypeOK
<1> QED
  BY <1>1, <1>2 DEF Fail

\* Idle is well typed.
LEMMA IdleTyped == RequestTyped(Idle)
BY QuotaAssumption DEF RequestTyped, RequestState, Idle, Steps

\* The same for a request that is given up.
LEMMA GiveUpTyped ==
  ASSUME TypeOK, NEW o \in Requests, GiveUp(o)
  PROVE  /\ \E q : RequestTyped(q) /\ Become(o, q)
         /\ faults' \in 0..MaxFaults
<1>1. faults' \in 0..MaxFaults
  BY QuotaAssumption DEF GiveUp, TypeOK
<1> QED
  BY <1>1, IdleTyped DEF GiveUp

\* A request that goes on to step s.
LEMMA ToTyped ==
  ASSUME TypeOK, NEW o \in Requests, ~At(o, "idle"), NEW s \in Steps \ {"idle"}
  PROVE  RequestTyped(To(o, s)) /\ req[o].image \in Images
BY QuotaAssumption DEF TypeOK, RequestTyped, RequestState, To, At

\* Types at the start.
LEMMA TypeInit == Init => TypeOK
<1> SUFFICES ASSUME Init PROVE TypeOK
  OBVIOUS
<1>1. \A o \in Requests : req[o] = Idle
  BY DEF Init
<1>2. req \in [Requests -> RequestState]
  BY IdleTyped DEF Init, RequestTyped
<1>3. \A o \in Requests : req[o].image = None <=> req[o].step = "idle"
  BY <1>1, IdleTyped DEF RequestTyped
<1>4. faults \in 0..MaxFaults
  BY QuotaAssumption DEF Init
<1>5. /\ reg \in [Images -> Manifests \cup {None}] /\ row \in [Images -> Nat \cup {None}]
      /\ useNum \in Int /\ useSize \in Int /\ quota \in Limits
  BY DEF Init
<1> QED
  BY <1>2, <1>3, <1>4, <1>5 DEF TypeOK

\* Every step of a push keeps the types.
LEMMA PushTyped ==
  ASSUME TypeOK, NEW o \in Requests, Push(o)
  PROVE  TypeOK'
<1>0. /\ reg \in [Images -> Manifests \cup {None}] /\ row \in [Images -> Nat \cup {None}]
      /\ useNum \in Int /\ useSize \in Int /\ faults \in 0..MaxFaults
  BY DEF TypeOK
<1>r. ~At(o, "idle") => req[o] \in RequestState /\ req[o].image \in Images
                        /\ req[o].size \in Nat /\ req[o].add \in Int
  BY QuotaAssumption DEF TypeOK, At, RequestState
<1>1. ASSUME NEW i \in Images, NEW a \in Scopes, GetToken(o, i, a)
      PROVE  TypeOK'
  <2>1. RequestTyped([Idle EXCEPT !.step = "granted", !.image = i])
    <3>1. i # None
      BY QuotaAssumption
    <3> QED
      BY <3>1, IdleTyped DEF RequestTyped, RequestState, Steps
  <2> QED
    BY <1>0, <1>1, <2>1, RequestStep DEF GetToken, used
<1>2. ASSUME NEW m \in Manifests, PushManifest(o, m)
      PROVE  TypeOK'
  <2>1. RequestTyped(To(o, "check_num"))
    BY <1>2, ToTyped DEF PushManifest, At, Steps
  <2> QED
    BY <1>0, <1>2, <2>1, RequestStep DEF PushManifest, used
<1>3. CASE CheckNum(o)
  <2>1. ASSUME NEW c \in BOOLEAN PROVE RequestTyped([To(o, "add_num") EXCEPT !.check = c])
    <3>1. RequestTyped(To(o, "add_num"))
      BY <1>3, ToTyped DEF CheckNum, At, Steps
    <3> HIDE DEF To
    <3> QED
      BY <3>1 DEF RequestTyped, RequestState
  <2>2. HasRow(req[o].image) \in BOOLEAN
    BY DEF HasRow
  <2>3. \E q : RequestTyped(q) /\ Become(o, q) /\ faults' \in 0..MaxFaults
    BY <1>0, <1>3, <2>1, <2>2, FailTyped DEF CheckNum, Succeed
  <2> QED
    BY <1>0, <1>3, <2>3, RequestStep DEF CheckNum, used
<1>4. CASE AddNum(o)
  <2>1. RequestTyped(To(o, "scan"))
    BY <1>4, ToTyped DEF AddNum, At, Steps
  <2>2. useNum' \in Int
    BY <1>0, <1>4 DEF AddNum
  <2>3. \E q : RequestTyped(q) /\ Become(o, q) /\ faults' \in 0..MaxFaults
    BY <1>0, <1>4, <2>1, FailTyped DEF AddNum, Succeed
  <2> QED
    BY <1>0, <1>4, <2>2, <2>3, RequestStep DEF AddNum
<1>5. CASE Scan(o)
  <2>1. RequestTyped(To(o, "check_safety")) /\ req[o].image \in Images
    BY <1>5, ToTyped DEF Scan, At, Steps
  <2>2. ASSUME NEW m \in Manifests
        PROVE  RequestTyped([To(o, "check_safety") EXCEPT !.size = Size[m]])
    <3>1. Size[m] \in Nat
      BY QuotaAssumption
    <3> HIDE DEF To
    <3> QED
      BY <2>1, <3>1 DEF RequestTyped, RequestState
  <2>3. reg[req[o].image] # None => reg[req[o].image] \in Manifests
    BY <1>0, <2>1
  <2>4. \E q : RequestTyped(q) /\ Become(o, q) /\ faults' \in 0..MaxFaults
    BY <1>0, <1>5, <2>1, <2>2, <2>3, FailTyped DEF Scan, Succeed
  <2> QED
    BY <1>0, <1>5, <2>4, RequestStep DEF Scan, used
<1>6. CASE CheckSafety(o)
  <2>1. RequestTyped(To(o, "check_size")) /\ RequestTyped(To(o, "insert_result"))
    BY <1>6, ToTyped DEF CheckSafety, At, Steps
  <2>2. \E q : RequestTyped(q) /\ Become(o, q) /\ faults' \in 0..MaxFaults
    BY <1>0, <1>6, <2>1, FailTyped DEF CheckSafety, Succeed
  <2> QED
    BY <1>0, <1>6, <2>2, RequestStep DEF CheckSafety, used
<1>7. CASE InsertResult(o)
  <2>1. RequestTyped(To(o, "check_size"))
    BY <1>7, ToTyped DEF InsertResult, At, Steps
  <2>2. row' \in [Images -> Nat \cup {None}]
    BY <1>0, <1>7 DEF InsertResult, AddCliarResult
  <2>3. \E q : RequestTyped(q) /\ Become(o, q) /\ faults' \in 0..MaxFaults
    BY <1>0, <1>7, <2>1, FailTyped DEF InsertResult, Succeed
  <2> QED
    BY <1>0, <1>7, <2>2, <2>3, RequestStep DEF InsertResult, used
<1>8. CASE CheckSize(o)
  <2>1. ASSUME NEW s \in {"old_size", "insert_size"}
        PROVE  RequestTyped([To(o, s) EXCEPT !.add = req[o].size])
    <3>1. RequestTyped(To(o, s))
      BY <1>8, ToTyped DEF CheckSize, At, Steps
    <3>2. req[o].size \in Int
      BY <1>8, <1>r DEF CheckSize, At
    <3> HIDE DEF To
    <3> QED
      BY <3>1, <3>2 DEF RequestTyped, RequestState
  <2>2. \E q : RequestTyped(q) /\ Become(o, q) /\ faults' \in 0..MaxFaults
    BY <1>0, <1>8, <2>1, GiveUpTyped DEF CheckSize, Succeed
  <2> QED
    BY <1>0, <1>8, <2>2, RequestStep DEF CheckSize, used
<1>9. CASE OldSize(o)
  <2>1. RequestTyped(To(o, "update_size")) /\ req[o].image \in Images
    BY <1>9, ToTyped DEF OldSize, At, Steps
  <2>2. RequestTyped([To(o, "update_size") EXCEPT
                        !.add = IF HasRow(req[o].image) THEN @ - row[req[o].image] ELSE @])
    <3>1. HasRow(req[o].image) => row[req[o].image] \in Nat
      BY <1>0, <2>1 DEF HasRow
    <3>2. To(o, "update_size").add \in Int
      BY <2>1 DEF RequestTyped, RequestState
    <3> DEFINE d == IF HasRow(req[o].image) THEN To(o, "update_size").add - row[req[o].image]
                    ELSE To(o, "update_size").add
    <3>3. d \in Int
      BY <3>1, <3>2
    <3> HIDE DEF To, d
    <3>4. RequestTyped([To(o, "update_size") EXCEPT !.add = d])
      BY <2>1, <3>3 DEF RequestTyped, RequestState
    <3> QED
      BY <3>4 DEF d
  <2>3. \E q : RequestTyped(q) /\ Become(o, q) /\ faults' \in 0..MaxFaults
    BY <1>0, <1>9, <2>1, <2>2, FailTyped DEF OldSize, Succeed
  <2> QED
    BY <1>0, <1>9, <2>3, RequestStep DEF OldSize, used
<1>10. CASE UpdateSize(o) \/ InsertSize(o)
  <2>1. RequestTyped(To(o, "add_size")) /\ req[o].size \in Nat
    BY <1>10, <1>r, ToTyped DEF UpdateSize, InsertSize, At, Steps
  <2>2. row' \in [Images -> Nat \cup {None}]
    BY <1>0, <1>10, <2>1 DEF UpdateSize, InsertSize, AddCliarResult
  <2>3. \E q : RequestTyped(q) /\ Become(o, q) /\ faults' \in 0..MaxFaults
    BY <1>0, <1>10, <2>1, FailTyped DEF UpdateSize, InsertSize, Succeed
  <2> QED
    BY <1>0, <1>10, <2>2, <2>3, RequestStep DEF UpdateSize, InsertSize, used
<1>11. CASE AddSize(o)
  <2>1. RequestTyped(To(o, "check_quota")) /\ req[o].add \in Int
    BY <1>11, <1>r, ToTyped DEF AddSize, At, Steps
  <2>2. useSize' \in Int
    BY <1>0, <1>11, <2>1 DEF AddSize
  <2>3. \E q : RequestTyped(q) /\ Become(o, q) /\ faults' \in 0..MaxFaults
    BY <1>0, <1>11, <2>1, FailTyped, GiveUpTyped DEF AddSize, Succeed
  <2> QED
    BY <1>0, <1>11, <2>2, <2>3, RequestStep DEF AddSize
<1>12. CASE CheckQuota(o)
  <2>1. \E q : RequestTyped(q) /\ Become(o, q) /\ faults' \in 0..MaxFaults
    BY <1>0, <1>12, IdleTyped DEF CheckQuota, Succeed
  <2> QED
    BY <1>0, <1>12, <2>1, RequestStep DEF CheckQuota, used
<1> QED
  BY <1>1, <1>2, <1>3, <1>4, <1>5, <1>6, <1>7, <1>8, <1>9, <1>10, <1>11, <1>12 DEF Push

\* So does every step of a deletion.
LEMMA DeleteTyped ==
  ASSUME TypeOK, NEW o \in Requests, Delete(o)
  PROVE  TypeOK'
<1>0. /\ reg \in [Images -> Manifests \cup {None}] /\ row \in [Images -> Nat \cup {None}]
      /\ useNum \in Int /\ useSize \in Int /\ faults \in 0..MaxFaults
  BY DEF TypeOK
<1>1. ASSUME NEW i \in Images, DeleteTag(o, i)
      PROVE  TypeOK'
  <2>1. RequestTyped([Idle EXCEPT !.step = "get_size", !.image = i])
    <3>1. i # None
      BY QuotaAssumption
    <3> QED
      BY <3>1, IdleTyped DEF RequestTyped, RequestState, Steps
  <2>2. reg' \in [Images -> Manifests \cup {None}]
    BY <1>0, <1>1 DEF DeleteTag
  <2> QED
    BY <1>0, <1>1, <2>1, <2>2, RequestStep DEF DeleteTag, used
<1>2. CASE GetSize(o)
  <2>1. RequestTyped(To(o, "free"))
    BY <1>2, ToTyped DEF GetSize, At, Steps
  <2>2. \E q : RequestTyped(q) /\ Become(o, q) /\ faults' \in 0..MaxFaults
    BY <1>0, <1>2, <2>1, IdleTyped, GiveUpTyped DEF GetSize, Succeed
  <2> QED
    BY <1>0, <1>2, <2>2, RequestStep DEF GetSize, used
<1>3. CASE Free(o)
  <2>1. RequestTyped(To(o, "drop")) /\ req[o].image \in Images
    BY <1>3, ToTyped DEF Free, At, Steps
  <2>2. useNum' \in Int /\ useSize' \in Int
    BY <1>0, <1>3, <2>1 DEF Free, HasRow, used
  <2>3. \E q : RequestTyped(q) /\ Become(o, q) /\ faults' \in 0..MaxFaults
    BY <1>0, <1>3, <2>1, GiveUpTyped DEF Free, Succeed
  <2> QED
    BY <1>0, <1>3, <2>2, <2>3, RequestStep DEF Free
<1>4. CASE Drop(o)
  <2>1. row' \in [Images -> Nat \cup {None}]
    BY <1>0, <1>4 DEF Drop
  <2>2. \E q : RequestTyped(q) /\ Become(o, q) /\ faults' \in 0..MaxFaults
    BY <1>0, <1>4, IdleTyped, GiveUpTyped DEF Drop, Succeed
  <2> QED
    BY <1>0, <1>4, <2>1, <2>2, RequestStep DEF Drop, used
<1> QED
  BY <1>1, <1>2, <1>3, <1>4 DEF Delete

\* No step of the system breaks the types.
LEMMA TypeNext == TypeOK /\ [Next]_vars => TypeOK'
<1> SUFFICES ASSUME TypeOK, [Next]_vars PROVE TypeOK'
  OBVIOUS
<1>1. CASE UpdateQuota
  BY <1>1 DEF UpdateQuota, TypeOK, used
<1>2. CASE UNCHANGED vars
  BY <1>2 DEF vars, used, TypeOK
<1> QED
  BY <1>1, <1>2, PushTyped, DeleteTyped DEF Next

\* Every reachable state is well typed, whatever overlaps and fails; a request has an image
\* exactly while it is under way.
THEOREM TypeCorrect == Spec => []TypeOK
<1> QED
  BY TypeInit, TypeNext, PTL DEF Spec

-----------------------------------------------------------------------------
(***************************************************************************)
(* The count, for requests that do not overlap on an image, images with a  *)
(* size and manifests with one tag each, as long as nothing fails.         *)
(***************************************************************************)
\* No manifest is pushed under two tags.
OneTag == \A p, q \in Pushed : p[2] = q[2] => p[1] = q[1]

Orderly ==
  /\ Ordered = Images
  /\ IsFiniteSet(Images)
  /\ \A p \in Pushed : Size[p[2]] > 0
  /\ OneTag

\* Row w and manifest g of an image that no request is busy with.
Settled(w, g) == (w = None <=> g = None) /\ (w # None => w > 0)

\* Steps by what is known of the image there: it was pushed, counted before it has a row,
\* scanned, given a row; or it is gone from the registry.
Present  == {"check_num", "add_num", "scan", "check_safety", "insert_result", "check_size",
             "old_size", "update_size", "add_size", "check_quota"}
Credited == {"scan", "check_safety", "insert_result"}
Scanned  == {"check_safety", "insert_result", "check_size", "old_size", "update_size"}
Rowed    == {"check_size", "old_size", "update_size", "add_size", "check_quota", "free", "drop"}
Gone     == {"get_size", "free", "drop"}

\* Request r, with the row w and the manifest g of its image.
Local(r, w, g) ==
  /\ w # None /\ r.step \notin {"check_size", "old_size", "update_size"} => w > 0
  /\ r.step = "granted" => Settled(w, g)
  /\ r.step \in Present => g # None
  /\ r.step \in Gone => g = None
  /\ r.step \in Rowed => w # None
  /\ r.step \in Scanned => r.size > 0
  /\ r.step = "add_num" => (r.check <=> w # None)
  /\ r.step = "insert_result" => w = None
  /\ r.step # "insert_size"

\* An image with row w that request r is busy with is counted.
Credit(r, w) == IF w # None THEN r.step # "drop" ELSE r.step \in Credited

\* No request is busy with image i.
Alone(i) == \A o \in Requests : req[o].image # i

Counted ==
  {i \in Images : \/ \E o \in Requests : req[o].image = i /\ Credit(req[o], row[i])
                  \/ Alone(i) /\ row[i] # None}

\* The inductive invariant but for the count itself.
OrderInv ==
  /\ TypeOK
  /\ \A o, p \in Requests : req[o].image = req[p].image /\ req[o].image # None => o = p
  /\ \A i \in Images : reg[i] # None => <<i, reg[i]>> \in Pushed
  /\ \A o \in Requests : req[o].image # None => Local(req[o], row[req[o].image], reg[req[o].image])
  /\ \A i \in Images : Alone(i) => Settled(row[i], reg[i])

CountInv == OrderInv /\ useNum = Cardinality(Counted)

\* The same for a request that is busy with the image or, idle, is not.
Tally(r, w) == IF r.image = None THEN w # None ELSE Credit(r, w)
Fits(r, w, g) == IF r.image = None THEN Settled(w, g) ELSE Local(r, w, g)

\* A step of request o to state r, with effects on image i only.
Touches(o, i, r) ==
  /\ Become(o, r)
  /\ req[o].image \in {None, i} /\ r.image \in {None, i}
  /\ req[o].image = None => Alone(i)
  /\ \A k \in Images : k # i => row'[k] = row[k] /\ reg'[k] = reg[k]
  /\ reg'[i] # None => <<i, reg'[i]>> \in Pushed
  /\ Fits(r, row'[i], reg'[i])

\* Such a step concerns nobody else.
LEMMA OneImage ==
  ASSUME OrderInv, TypeOK', NEW o \in Requests, NEW i \in Images, NEW r, Touches(o, i, r)
  PROVE  /\ OrderInv'
         /\ i \in Counted <=> Tally(req[o], row[i])
         /\ Counted' = {k \in Images : IF k = i THEN Tally(r, row'[i]) ELSE k \in Counted}
<1>0. i # None
  BY QuotaAssumption
<1>1. req'[o] = r /\ \A p \in Requests : p # o => req'[p] = req[p]
  BY DEF Touches, Become, OrderInv, TypeOK
<1>2. \A p \in Requests : p # o => req[p].image # i
  BY <1>0 DEF Touches, OrderInv, Alone
<1>3. \A k \in Images : k # i => (Alone(k)' <=> Alone(k))
  BY <1>1, QuotaAssumption DEF Touches, Alone
<1>4. Alone(i) <=> req[o].image = None
  BY <1>0, <1>2 DEF Touches, Alone
<1>5. Alone(i)' <=> r.image = None
  BY <1>0, <1>1, <1>2 DEF Touches, Alone
<1>6. OrderInv'
  <2>1. \A p, q \in Requests :
          req'[p].image = req'[q].image /\ req'[p].image # None => p = q
    BY <1>1, <1>2 DEF OrderInv, Touches
  <2>2. \A k \in Images : reg'[k] # None => <<k, reg'[k]>> \in Pushed
    BY DEF OrderInv, Touches
  <2>3. ASSUME NEW p \in Requests, req'[p].image # None
        PROVE  Local(req'[p], row'[req'[p].image], reg'[req'[p].image])
    <3>1. CASE p = o
      BY <1>1, <2>3, <3>1 DEF Touches, Fits
    <3>2. CASE p # o
      <4>1. req'[p] = req[p] /\ req[p].image # i /\ req[p].image # None
        BY <1>1, <1>2, <2>3, <3>2
      <4>2. req[p].image \in Images
        BY <4>1 DEF OrderInv, TypeOK, RequestState
      <4>3. Local(req[p], row[req[p].image], reg[req[p].image])
        BY <4>1 DEF OrderInv
      <4> QED
        BY <4>1, <4>2, <4>3 DEF Touches
    <3> QED
      BY <3>1, <3>2
  <2>4. ASSUME NEW k \in Images, Alone(k)' PROVE Settled(row'[k], reg'[k])
    <3>1. CASE k = i
      BY <1>5, <2>4, <3>1 DEF Touches, Fits
    <3>2. CASE k # i
      BY <1>3, <2>4, <3>2 DEF Touches, OrderInv
    <3> QED
      BY <3>1, <3>2
  <2> QED
    BY <2>1, <2>2, <2>3, <2>4 DEF OrderInv
<1>7. i \in Counted <=> Tally(req[o], row[i])
  BY <1>0, <1>2, <1>4 DEF Counted, Tally, Touches
<1>8. i \in Counted' <=> Tally(r, row'[i])
  BY <1>0, <1>1, <1>2, <1>5 DEF Counted, Tally, Touches
<1>9. ASSUME NEW k \in Images, k # i PROVE k \in Counted' <=> k \in Counted
  <2>1. row'[k] = row[k]
    BY <1>9 DEF Touches
  <2>2. \A p \in Requests : req'[p].image = k <=> req[p].image = k
    BY <1>1, <1>9, QuotaAssumption DEF Touches
  <2>3. \A p \in Requests : req[p].image = k => req'[p] = req[p]
    BY <1>1, <1>9, QuotaAssumption DEF Touches
  <2> QED
    BY <1>3, <1>9, <2>1, <2>2, <2>3 DEF Counted
<1> QED
  BY <1>6, <1>7, <1>8, <1>9 DEF Counted

\* What it does to the count.
LEMMA CountStep ==
  ASSUME Orderly, CountInv, TypeOK', NEW o \in Requests, NEW i \in Images, NEW r,
         Touches(o, i, r),
         \/ useNum' = useNum /\ (Tally(r, row'[i]) <=> Tally(req[o], row[i]))
         \/ useNum' = useNum + 1 /\ Tally(r, row'[i]) /\ ~Tally(req[o], row[i])
         \/ useNum' = useNum - 1 /\ ~Tally(r, row'[i]) /\ Tally(req[o], row[i])
  PROVE  CountInv'
<1>1. /\ OrderInv'
      /\ i \in Counted <=> Tally(req[o], row[i])
      /\ Counted' = {k \in Images : IF k = i THEN Tally(r, row'[i]) ELSE k \in Counted}
  BY OneImage DEF CountInv
<1>2. IsFiniteSet(Counted)
  <2>1. Counted \subseteq Images
    BY DEF Counted
  <2> QED
    BY <2>1, FS_Subset DEF Orderly
<1>3. Counted \subseteq Images
  BY DEF Counted
<1>4. useNum = Cardinality(Counted) /\ Cardinality(Counted) \in Nat
  BY <1>2, FS_CardinalityType DEF CountInv
<1>5. CASE useNum' = useNum /\ (Tally(r, row'[i]) <=> Tally(req[o], row[i]))
  <2>1. Counted' = Counted
    BY <1>1, <1>3, <1>5
  <2> QED
    BY <1>1, <1>4, <1>5, <2>1 DEF CountInv
<1>6. CASE useNum' = useNum + 1 /\ Tally(r, row'[i]) /\ ~Tally(req[o], row[i])
  <2>1. Counted' = Counted \cup {i} /\ i \notin Counted
    BY <1>1, <1>3, <1>6
  <2>2. Cardinality(Counted \cup {i}) = Cardinality(Counted) + 1
    BY <1>2, <2>1, FS_AddElement
  <2> QED
    BY <1>1, <1>4, <1>6, <2>1, <2>2 DEF CountInv
<1>7. CASE useNum' = useNum - 1 /\ ~Tally(r, row'[i]) /\ Tally(req[o], row[i])
  <2>1. Counted' = Counted \ {i} /\ i \in Counted
    BY <1>1, <1>3, <1>7
  <2>2. Cardinality(Counted \ {i}) = Cardinality(Counted) - 1
    BY <1>2, <2>1, FS_RemoveElement
  <2> QED
    BY <1>1, <1>4, <1>7, <2>1, <2>2 DEF CountInv
<1> QED
  BY <1>5, <1>6, <1>7

\* A step after which nothing has failed yet succeeds.
LEMMA NoFailure ==
  ASSUME TypeOK, faults' = 0, NEW o \in Requests
  PROVE  ~GiveUp(o) /\ \A r : ~Fail(o, r)
BY DEF TypeOK, GiveUp, Fail

\* Failures are not forgotten.
LEMMA FaultsStay ==
  ASSUME TypeOK, [Next]_vars, faults' = 0
  PROVE  faults = 0
<1>1. faults \in Nat /\ faults + 1 # 0
  BY DEF TypeOK
<1> USE <1>1 DEF Succeed, Fail, GiveUp
<1>2. CASE UpdateQuota \/ UNCHANGED vars
  BY <1>2 DEF UpdateQuota, vars
<1>3. ASSUME NEW o \in Requests, Push(o)
      PROVE  faults' \in {faults, faults + 1}
  BY <1>3 DEF Push, GetToken, PushManifest, CheckNum, AddNum, Scan, CheckSafety, InsertResult,
              CheckSize, OldSize, UpdateSize, InsertSize, AddSize, CheckQuota
<1>4. ASSUME NEW o \in Requests, Delete(o)
      PROVE  faults' \in {faults, faults + 1}
  BY <1>4 DEF Delete, DeleteTag, GetSize, Free, Drop
<1> QED
  BY <1>2, <1>3, <1>4 DEF Next

\* A request under way, with its image.
LEMMA Busy ==
  ASSUME OrderInv, NEW o \in Requests, ~At(o, "idle")
  PROVE  /\ req[o].image \in Images /\ req[o].image # None
         /\ Local(req[o], row[req[o].image], reg[req[o].image])
         /\ req[o] \in RequestState
         /\ row[req[o].image] \in Nat \cup {None}
         /\ reg[req[o].image] # None =>
              reg[req[o].image] \in Manifests /\ <<req[o].image, reg[req[o].image]>> \in Pushed
BY QuotaAssumption DEF OrderInv, TypeOK, RequestState, At

\* A step of a request under way to another step, or to its end.
LEMMA Moves ==
  ASSUME OrderInv, NEW o \in Requests, ~At(o, "idle"), NEW r, Become(o, r),
         r.image \in {None, req[o].image},
         \A k \in Images : k # req[o].image => row'[k] = row[k],
         UNCHANGED reg, Fits(r, row'[req[o].image], reg[req[o].image])
  PROVE  Touches(o, req[o].image, r)
BY Busy DEF Touches, OrderInv

\* What To keeps of a request.
LEMMA ToFields ==
  ASSUME TypeOK, NEW o \in Requests, NEW s
  PROVE  /\ To(o, s).step = s /\ To(o, s).image = req[o].image
         /\ To(o, s).size = req[o].size /\ To(o, s).check = req[o].check
BY DEF TypeOK, RequestState, To

\* A step that changes nothing but the state of its request.
LEMMA Onward ==
  ASSUME Orderly, CountInv, TypeOK', NEW o \in Requests, ~At(o, "idle"), NEW r, Become(o, r),
         r.image = req[o].image, UNCHANGED <<reg, row, useNum>>,
         Local(r, row[req[o].image], reg[req[o].image]),
         Credit(r, row[req[o].image]) <=> Credit(req[o], row[req[o].image])
  PROVE  CountInv'
<1>1. req[o].image \in Images /\ req[o].image # None
  BY Busy DEF CountInv
<1>2. Touches(o, req[o].image, r)
  BY <1>1, Moves DEF CountInv, Fits
<1> QED
  BY <1>1, <1>2, CountStep DEF Tally

\* Every step of a push keeps the count.
LEMMA PushCounts ==
  ASSUME Orderly, CountInv, TypeOK', faults' = 0, NEW o \in Requests, Push(o)
  PROVE  CountInv'
<1> USE DEF Fits, Tally, Credit
<1>0. OrderInv /\ TypeOK
  BY DEF CountInv, OrderInv
<1>f. ~GiveUp(o) /\ \A r : ~Fail(o, r)
  BY <1>0, NoFailure
<1> DEFINE i == req[o].image
<1>t. \A s : To(o, s).step = s /\ To(o, s).image = i /\ To(o, s).size = req[o].size
            /\ To(o, s).check = req[o].check
  BY <1>0, ToFields
<1>1. ASSUME NEW k \in Images, NEW a \in Scopes, GetToken(o, k, a)
      PROVE  CountInv'
  <2> DEFINE r == [Idle EXCEPT !.step = "granted", !.image = k]
  <2>1. r.step = "granted" /\ r.image = k /\ k # None
    BY QuotaAssumption DEF Idle
  <2>2. req[o].image = None /\ Alone(k)
    BY <1>0, <1>1 DEF GetToken, Begins, At, TypeOK, Orderly, Alone
  <2>3. Become(o, r) /\ UNCHANGED <<reg, row, useNum>>
    BY <1>1 DEF GetToken, used
  <2> HIDE DEF r
  <2>4. Settled(row[k], reg[k]) /\ (reg[k] # None => <<k, reg[k]>> \in Pushed)
    BY <1>0, <2>2 DEF OrderInv
  <2>5. Local(r, row[k], reg[k])
    BY <2>1, <2>4 DEF Local, Settled, Present, Scanned, Rowed, Gone
  <2>6. Touches(o, k, r)
    BY <2>1, <2>2, <2>3, <2>4, <2>5 DEF Touches
  <2> QED
    BY <2>1, <2>2, <2>3, <2>6, CountStep DEF Credited
<1>2. ASSUME NEW m \in Manifests, PushManifest(o, m)
      PROVE  CountInv'
  <2> DEFINE r == To(o, "check_num")
  <2>1. ~At(o, "idle") /\ req[o].step = "granted" /\ <<i, m>> \in Pushed
    BY <1>2 DEF PushManifest, At
  <2>2. i \in Images /\ i # None /\ Local(req[o], row[i], reg[i])
    BY <1>0, <2>1, Busy
  <2>3. Become(o, r) /\ reg' = [reg EXCEPT ![i] = m] /\ UNCHANGED <<row, useNum>>
    BY <1>2 DEF PushManifest, used
  <2>4. reg'[i] = m /\ m # None /\ \A k \in Images : k # i => reg'[k] = reg[k]
    BY <1>0, <2>2, <2>3, QuotaAssumption DEF TypeOK
  <2>5. r.step = "check_num" /\ r.image = i
    BY <1>t
  <2> HIDE DEF r, i
  <2>6. Local(r, row[i], m)
    BY <2>1, <2>2, <2>4, <2>5 DEF Local, Settled, Present, Scanned, Rowed, Gone
  <2>7. Touches(o, i, r)
    BY <2>1, <2>2, <2>3, <2>4, <2>5, <2>6 DEF Touches, i
  <2> QED
    BY <2>1, <2>2, <2>3, <2>5, <2>7, CountStep DEF Credited, i
<1>3. CASE CheckNum(o)
  <2> DEFINE r == [To(o, "add_num") EXCEPT !.check = HasRow(i)]
  <2>1. ~At(o, "idle") /\ req[o].step = "check_num" /\ Become(o, r) /\ UNCHANGED <<reg, row, useNum>>
    BY <1>3, <1>f DEF CheckNum, At, Succeed, used
  <2>2. Local(req[o], row[i], reg[i])
    BY <1>0, <2>1, Busy
  <2>3. r.step = "add_num" /\ r.image = i /\ (r.check <=> row[i] # None)
    BY ZenonT(60), <1>0 DEF TypeOK, RequestState, To, HasRow
  <2> HIDE DEF r, i
  <2>4. Local(r, row[i], reg[i]) /\ (Credit(r, row[i]) <=> Credit(req[o], row[i]))
    BY <2>1, <2>2, <2>3 DEF Local, Settled, Present, Scanned, Rowed, Gone, Credited
  <2> QED
    BY <2>1, <2>3, <2>4, Onward DEF i
<1>4. CASE AddNum(o)
  <2> DEFINE r == To(o, "scan")
  <2>1. /\ ~At(o, "idle") /\ req[o].step = "add_num" /\ Become(o, r) /\ UNCHANGED <<reg, row>>
        /\ useNum' = IF req[o].check THEN useNum ELSE useNum + 1
    BY <1>4, <1>f DEF AddNum, At, Succeed
  <2>2. Local(req[o], row[i], reg[i]) /\ i \in Images /\ i # None
    BY <1>0, <2>1, Busy
  <2>3. r.step = "scan" /\ r.image = i
    BY <1>t
  <2> HIDE DEF r, i
  <2>4. Local(r, row[i], reg[i])
    BY <2>1, <2>2, <2>3 DEF Local, Settled, Present, Scanned, Rowed, Gone
  <2>5. Touches(o, i, r)
    BY <1>0, <2>1, <2>2, <2>3, <2>4, Moves DEF i
  <2>6. Credit(r, row[i]) /\ (Credit(req[o], row[i]) <=> req[o].check)
    BY <2>1, <2>2, <2>3 DEF Local, Credited
  <2>7. CASE req[o].check
    BY <2>1, <2>2, <2>3, <2>5, <2>6, <2>7, CountStep DEF i
  <2>8. CASE ~req[o].check
    BY <2>1, <2>2, <2>3, <2>5, <2>6, <2>8, CountStep DEF i
  <2> QED
    BY <2>7, <2>8
<1>5. CASE Scan(o)
  <2> DEFINE r == [To(o, "check_safety") EXCEPT !.size = Size[reg[i]]]
  <2>0. ~At(o, "idle") /\ req[o].step = "scan" /\ UNCHANGED <<reg, row, useNum>>
    BY <1>5 DEF Scan, At, used
  <2>2. Local(req[o], row[i], reg[i]) /\ reg[i] # None /\ reg[i] \in Manifests
        /\ <<i, reg[i]>> \in Pushed
    BY <1>0, <2>0, Busy DEF Local, Present
  <2>1. Become(o, r)
    BY <1>5, <1>f, <2>2 DEF Scan, Succeed
  <2>3. r.step = "check_safety" /\ r.image = i /\ r.size = Size[reg[i]]
    BY <1>0 DEF TypeOK, RequestState, To
  <2>4. Size[reg[i]] > 0
    BY <2>2 DEF Orderly
  <2> HIDE DEF r, i
  <2>5. Local(r, row[i], reg[i]) /\ (Credit(r, row[i]) <=> Credit(req[o], row[i]))
    BY <2>0, <2>2, <2>3, <2>4 DEF Local, Settled, Present, Scanned, Rowed, Gone, Credited
  <2> QED
    BY <2>0, <2>1, <2>3, <2>5, Onward DEF i
<1>6. CASE CheckSafety(o)
  <2> DEFINE s == IF HasRow(i) THEN "check_size" ELSE "insert_result"
             r == To(o, s)
  <2>1. ~At(o, "idle") /\ req[o].step = "check_safety" /\ Become(o, r) /\ UNCHANGED <<reg, row, useNum>>
    BY <1>6, <1>f DEF CheckSafety, At, Succeed, used
  <2>2. Local(req[o], row[i], reg[i])
    BY <1>0, <2>1, Busy
  <2>3. r.step = s /\ r.image = i /\ r.size = req[o].size
    BY <1>t
  <2> HIDE DEF r, i
  <2>4. Local(r, row[i], reg[i]) /\ (Credit(r, row[i]) <=> Credit(req[o], row[i]))
    BY <2>1, <2>2, <2>3 DEF Local, Settled, Present, Scanned, Rowed, Gone, Credited, HasRow
  <2> QED
    BY <2>1, <2>3, <2>4, Onward DEF i
<1>7. CASE InsertResult(o)
  <2> DEFINE r == To(o, "check_size")
  <2>1. /\ ~At(o, "idle") /\ req[o].step = "insert_result" /\ Become(o, r)
        /\ UNCHANGED <<reg, useNum>> /\ AddCliarResult(i, 0)
    BY <1>7, <1>f DEF InsertResult, At, Succeed, used
  <2>2. Local(req[o], row[i], reg[i]) /\ i \in Images /\ i # None
    BY <1>0, <2>1, Busy
  <2>3. r.step = "check_size" /\ r.image = i /\ r.size = req[o].size
    BY <1>t
  <2> HIDE DEF r, i
  <2>4. row' = [row EXCEPT ![i] = 0]
    BY <2>1, <2>2 DEF Local, AddCliarResult, HasRow
  <2>5. row'[i] = 0 /\ row'[i] # None /\ \A k \in Images : k # i => row'[k] = row[k]
    BY <1>0, <2>2, <2>4, QuotaAssumption DEF TypeOK
  <2>6. Local(r, row'[i], reg[i])
    BY <2>1, <2>2, <2>3, <2>5 DEF Local, Settled, Present, Scanned, Rowed, Gone
  <2>7. Touches(o, i, r)
    BY <1>0, <2>1, <2>2, <2>3, <2>5, <2>6, Moves DEF i
  <2>8. Credit(r, row'[i]) /\ Credit(req[o], row[i])
    BY <2>1, <2>2, <2>3, <2>5 DEF Local, Credited
  <2> QED
    BY <2>1, <2>2, <2>3, <2>7, <2>8, CountStep DEF i
<1>8. CASE CheckSize(o)
  <2> DEFINE r == [To(o, "old_size") EXCEPT !.add = req[o].size]
  <2>0. ~At(o, "idle") /\ req[o].step = "check_size" /\ UNCHANGED <<reg, row, useNum>>
    BY <1>8 DEF CheckSize, At, used
  <2>2. Local(req[o], row[i], reg[i]) /\ HasRow(i)
    BY <1>0, <2>0, Busy DEF Local, Rowed, HasRow
  <2>1. Become(o, r)
    BY <1>8, <1>f, <2>2 DEF CheckSize, Succeed
  <2>3. r.step = "old_size" /\ r.image = i /\ r.size = req[o].size
    BY <1>0 DEF TypeOK, RequestState, To
  <2> HIDE DEF r, i
  <2>4. Local(r, row[i], reg[i]) /\ (Credit(r, row[i]) <=> Credit(req[o], row[i]))
    BY <2>0, <2>2, <2>3 DEF Local, Settled, Present, Scanned, Rowed, Gone, Credited
  <2> QED
    BY <2>0, <2>1, <2>3, <2>4, Onward DEF i
<1>9. CASE OldSize(o)
  <2> DEFINE r == [To(o, "update_size") EXCEPT !.add = @ - row[i]]
  <2>0. ~At(o, "idle") /\ req[o].step = "old_size" /\ UNCHANGED <<reg, row, useNum>>
    BY <1>9 DEF OldSize, At, used
  <2>2. Local(req[o], row[i], reg[i]) /\ HasRow(i)
    BY <1>0, <2>0, Busy DEF Local, Rowed, HasRow
  <2>1. Become(o, r)
    BY <1>9, <1>f, <2>2 DEF OldSize, Succeed
  <2>3. r.step = "update_size" /\ r.image = i /\ r.size = req[o].size
    BY <1>0 DEF TypeOK, RequestState, To
  <2> HIDE DEF r, i
  <2>4. Local(r, row[i], reg[i]) /\ (Credit(r, row[i]) <=> Credit(req[o], row[i]))
    BY <2>0, <2>2, <2>3 DEF Local, Settled, Present, Scanned, Rowed, Gone, Credited
  <2> QED
    BY <2>0, <2>1, <2>3, <2>4, Onward DEF i
<1>10. CASE UpdateSize(o)
  <2> DEFINE r == To(o, "add_size")
  <2>1. /\ ~At(o, "idle") /\ req[o].step = "update_size" /\ Become(o, r)
        /\ UNCHANGED <<reg, useNum>>
        /\ row' = IF HasRow(i) THEN [row EXCEPT ![i] = req[o].size] ELSE row
    BY <1>10, <1>f DEF UpdateSize, At, Succeed, used
  <2>2. /\ Local(req[o], row[i], reg[i]) /\ i \in Images /\ i # None
        /\ req[o].size \in Nat /\ req[o].size > 0 /\ HasRow(i)
    BY <1>0, <2>1, Busy DEF Local, Rowed, Scanned, HasRow, RequestState
  <2>3. r.step = "add_size" /\ r.image = i
    BY <1>t
  <2> HIDE DEF r, i
  <2>4. row'[i] = req[o].size /\ row'[i] # None /\ \A k \in Images : k # i => row'[k] = row[k]
    BY <1>0, <2>1, <2>2, QuotaAssumption DEF TypeOK
  <2>5. Local(r, row'[i], reg[i])
    BY <2>1, <2>2, <2>3, <2>4 DEF Local, Settled, Present, Scanned, Rowed, Gone
  <2>6. Touches(o, i, r)
    BY <1>0, <2>1, <2>2, <2>3, <2>4, <2>5, Moves DEF i
  <2>7. Credit(r, row'[i]) /\ Credit(req[o], row[i])
    BY <2>1, <2>2, <2>3, <2>4 DEF HasRow
  <2> QED
    BY <2>1, <2>2, <2>3, <2>6, <2>7, CountStep DEF i
<1>11. CASE InsertSize(o)
  BY <1>0, <1>11, Busy DEF InsertSize, At, Local
<1>12. CASE AddSize(o)
  <2> DEFINE r == To(o, "check_quota")
  <2>1. ~At(o, "idle") /\ req[o].step = "add_size" /\ Become(o, r) /\ UNCHANGED <<reg, row, useNum>>
    BY <1>12, <1>f DEF AddSize, At, Succeed
  <2>2. Local(req[o], row[i], reg[i])
    BY <1>0, <2>1, Busy
  <2>3. r.step = "check_quota" /\ r.image = i
    BY <1>t
  <2> HIDE DEF r, i
  <2>4. Local(r, row[i], reg[i]) /\ (Credit(r, row[i]) <=> Credit(req[o], row[i]))
    BY <2>1, <2>2, <2>3 DEF Local, Settled, Present, Scanned, Rowed, Gone, Credited
  <2> QED
    BY <2>1, <2>3, <2>4, Onward DEF i
<1>13. CASE CheckQuota(o)
  <2>1. ~At(o, "idle") /\ req[o].step = "check_quota" /\ Become(o, Idle) /\ UNCHANGED <<reg, row, useNum>>
    BY <1>13, <1>f DEF CheckQuota, At, Succeed, used
  <2>2. Local(req[o], row[i], reg[i]) /\ i \in Images /\ i # None
    BY <1>0, <2>1, Busy
  <2>3. Idle.image = None
    BY DEF Idle
  <2> HIDE DEF i
  <2>4. Settled(row[i], reg[i]) /\ row[i] # None
    BY <2>1, <2>2 DEF Local, Settled, Present, Rowed
  <2>5. Touches(o, i, Idle)
    BY <1>0, <2>1, <2>2, <2>3, <2>4, Moves DEF i
  <2> QED
    BY <2>1, <2>2, <2>3, <2>4, <2>5, CountStep DEF i
<1> QED
  BY <1>1, <1>2, <1>3, <1>4, <1>5, <1>6, <1>7, <1>8, <1>9, <1>10, <1>11, <1>12, <1>13 DEF Push

\* If no manifest has two tags, the deletion of an image takes no other along.
LEMMA OneTagKept ==
  ASSUME OneTag, \A i \in Images : reg[i] # None => <<i, reg[i]>> \in Pushed, NEW k \in Images,
         reg' = [l \in Images |-> IF reg[l] = reg[k] THEN None ELSE reg[l]]
  PROVE  \A l \in Images : l # k => reg'[l] = reg[l]
<1> SUFFICES ASSUME NEW l \in Images, l # k, reg[l] = reg[k], reg[l] # None PROVE FALSE
  OBVIOUS
<1>1. <<l, reg[l]>> \in Pushed /\ <<k, reg[k]>> \in Pushed
  OBVIOUS
<1>2. <<l, reg[l]>>[2] = <<k, reg[k]>>[2] => <<l, reg[l]>>[1] = <<k, reg[k]>>[1]
  BY <1>1 DEF OneTag
<1> QED
  BY <1>2

\* So does every step of a deletion.
LEMMA DeleteCounts ==
  ASSUME Orderly, CountInv, TypeOK', faults' = 0, NEW o \in Requests, Delete(o)
  PROVE  CountInv'
<1> USE DEF Fits, Tally, Credit
<1>0. OrderInv /\ TypeOK
  BY DEF CountInv, OrderInv
<1>f. ~GiveUp(o) /\ \A r : ~Fail(o, r)
  BY <1>0, NoFailure
<1> DEFINE i == req[o].image
<1>t. \A s : To(o, s).step = s /\ To(o, s).image = i
  BY <1>0, ToFields
<1>i. Idle.image = None
  BY DEF Idle
<1>1. ASSUME NEW k \in Images, DeleteTag(o, k)
      PROVE  CountInv'
  <2> DEFINE r == [Idle EXCEPT !.step = "get_size", !.image = k]
  <2>1. r.step = "get_size" /\ r.image = k /\ k # None
    BY QuotaAssumption DEF Idle
  <2>2. req[o].image = None /\ Alone(k)
    BY <1>0, <1>1 DEF DeleteTag, Begins, At, TypeOK, Orderly, Alone
  <2>3. /\ Become(o, r) /\ UNCHANGED <<row, useNum>>
        /\ reg' = [l \in Images |-> IF reg[l] = reg[k] THEN None ELSE reg[l]]
    BY <1>1 DEF DeleteTag, used
  <2> HIDE DEF r
  <2>4. reg'[k] = None
    BY <2>3
  <2>5. \A l \in Images : l # k => reg'[l] = reg[l]
    BY <1>0, <2>3, OneTagKept DEF OrderInv, Orderly
  <2>6. Settled(row[k], reg[k])
    BY <1>0, <2>2 DEF OrderInv
  <2>7. Local(r, row[k], None)
    BY <2>1, <2>6 DEF Local, Settled, Present, Scanned, Rowed, Gone
  <2>8. Touches(o, k, r)
    BY <2>1, <2>2, <2>3, <2>4, <2>5, <2>7 DEF Touches
  <2> QED
    BY <2>1, <2>2, <2>3, <2>8, CountStep DEF Credited
<1>2. CASE GetSize(o)
  <2>1. ~At(o, "idle") /\ req[o].step = "get_size" /\ UNCHANGED <<reg, row, useNum>>
    BY <1>2 DEF GetSize, At, used
  <2>2. Local(req[o], row[i], reg[i]) /\ i \in Images /\ i # None
    BY <1>0, <2>1, Busy
  <2>3. \/ row[i] # None /\ Become(o, To(o, "free"))
        \/ row[i] = None /\ Become(o, Idle)
    BY <1>2, <1>f, <2>1, <2>2 DEF GetSize, Succeed, HasRow, Local
  <2>4. CASE row[i] # None /\ Become(o, To(o, "free"))
    <3> DEFINE r == To(o, "free")
    <3>1. r.step = "free" /\ r.image = i
      BY <1>t
    <3> HIDE DEF r, i
    <3>2. Local(r, row[i], reg[i]) /\ (Credit(r, row[i]) <=> Credit(req[o], row[i]))
      BY <2>1, <2>2, <2>4, <3>1 DEF Local, Settled, Present, Scanned, Rowed, Gone, Credited
    <3> QED
      BY <2>1, <2>4, <3>1, <3>2, Onward DEF i, r
  <2>5. CASE row[i] = None /\ Become(o, Idle)
    <3> HIDE DEF i
    <3>1. Settled(row[i], reg[i])
      BY <2>1, <2>2, <2>5 DEF Local, Settled, Gone
    <3>2. Touches(o, i, Idle)
      BY <1>0, <1>i, <2>1, <2>2, <2>5, <3>1, Moves DEF i
    <3> QED
      BY <1>i, <2>1, <2>2, <2>5, <3>2, CountStep DEF i, Credited
  <2> QED
    BY <2>3, <2>4, <2>5
<1>3. CASE Free(o)
  <2> DEFINE r == To(o, "drop")
  <2>1. ~At(o, "idle") /\ req[o].step = "free" /\ UNCHANGED <<reg, row>>
    BY <1>3 DEF Free, At
  <2>2. Local(req[o], row[i], reg[i]) /\ i \in Images /\ i # None /\ row[i] # None
    BY <1>0, <2>1, Busy DEF Local, Rowed
  <2>3. Become(o, r) /\ useNum' = useNum - 1
    BY <1>3, <1>f, <2>2 DEF Free, Succeed, HasRow
  <2>4. r.step = "drop" /\ r.image = i
    BY <1>t
  <2> HIDE DEF r, i
  <2>5. Local(r, row[i], reg[i]) /\ ~Credit(r, row[i]) /\ Credit(req[o], row[i])
    BY <2>1, <2>2, <2>4 DEF Local, Settled, Present, Scanned, Rowed, Gone
  <2>6. Touches(o, i, r)
    BY <1>0, <2>1, <2>2, <2>3, <2>4, <2>5, Moves DEF i
  <2> QED
    BY <2>1, <2>2, <2>3, <2>4, <2>5, <2>6, CountStep DEF i
<1>4. CASE Drop(o)
  <2>1. /\ ~At(o, "idle") /\ req[o].step = "drop" /\ Become(o, Idle) /\ UNCHANGED <<reg, useNum>>
        /\ row' = [row EXCEPT ![i] = None]
    BY <1>4, <1>f DEF Drop, At, Succeed, used
  <2>2. Local(req[o], row[i], reg[i]) /\ i \in Images /\ i # None
    BY <1>0, <2>1, Busy
  <2> HIDE DEF i
  <2>3. row'[i] = None /\ \A k \in Images : k # i => row'[k] = row[k]
    BY <1>0, <2>1, <2>2 DEF TypeOK
  <2>4. Settled(row'[i], reg[i]) /\ ~Credit(req[o], row[i])
    BY <2>1, <2>2, <2>3 DEF Local, Settled, Gone, Rowed
  <2>5. Touches(o, i, Idle)
    BY <1>0, <1>i, <2>1, <2>2, <2>3, <2>4, Moves DEF i
  <2> QED
    BY <1>i, <2>1, <2>2, <2>3, <2>4, <2>5, CountStep DEF i
<1> QED
  BY <1>1, <1>2, <1>3, <1>4 DEF Delete

\* The count at the start.
LEMMA CountInit ==
  ASSUME Orderly, Init
  PROVE  CountInv
<1>1. TypeOK
  BY TypeInit
<1>2. \A o \in Requests : req[o].image = None
  BY DEF Init, Idle
<1>3. \A i \in Images : Settled(row[i], reg[i]) /\ row[i] = None /\ reg[i] = None
  BY DEF Init, Settled
<1>4. Counted = {}
  BY <1>2, <1>3, QuotaAssumption DEF Counted
<1>5. OrderInv
  BY <1>1, <1>2, <1>3 DEF OrderInv
<1> QED
  BY <1>4, <1>5, FS_EmptySet DEF CountInv, Init

\* No step of the system breaks the count.
LEMMA CountNext ==
  ASSUME Orderly, CountInv, TypeOK', faults' = 0, [Next]_vars
  PROVE  CountInv'
<1>1. CASE UNCHANGED <<reg, row, useNum, req>>
  BY <1>1 DEF CountInv, OrderInv, Counted, Alone
<1>2. CASE UpdateQuota \/ UNCHANGED vars
  BY <1>1, <1>2 DEF UpdateQuota, vars, used
<1> QED
  BY <1>2, PushCounts, DeleteCounts DEF Next

\* With no request under way, the images counted are those in the registry.
LEMMA CountInvExact ==
  ASSUME CountInv
  PROVE  CountExact
<1> SUFFICES ASSUME Quiet, faults = 0 PROVE useNum = Cardinality(Stored)
  BY DEF CountExact
<1>1. \A o \in Requests : req[o].image = None
  BY DEF Quiet, At, CountInv, OrderInv, TypeOK
<1>2. \A i \in Images : Alone(i)
  BY <1>1, QuotaAssumption DEF Alone
<1>3. \A i \in Images : row[i] # None <=> reg[i] # None
  BY <1>2 DEF CountInv, OrderInv, Settled
<1>4. Counted = Stored
  BY <1>1, <1>2, <1>3, QuotaAssumption DEF Counted, Stored
<1> QED
  BY <1>4 DEF CountInv

\* However many requests for different images run side by side, the number of images used
\* of the quota is right whenever all are done and none has failed.
THEOREM CountAlwaysExact ==
  ASSUME Orderly
  PROVE  Spec => []CountExact
<1> DEFINE IInv == TypeOK /\ (faults = 0 => CountInv)
<1>1. Init => IInv
  BY CountInit, TypeInit
<1>2. IInv /\ TypeOK' /\ [Next]_vars => IInv'
  BY CountNext, FaultsStay
<1>3. IInv => CountExact
  BY CountInvExact DEF CountExact
<1> QED
  BY <1>1, <1>2, <1>3, TypeCorrect, PTL DEF Spec

-----------------------------------------------------------------------------
(***************************************************************************)
(* The row of an image after a push, whatever has failed before.  Only the *)
(* requests for the image itself have to come one after the other.         *)
(***************************************************************************)

\* Steps of a push once the registry has the manifest, those after the scan among them, and
\* the last ones.
Arrived == Present \cup {"insert_size"}
Sized   == Scanned \cup {"insert_size"}
Written == {"add_size", "check_quota"}

\* Request r without failure, with the row w and the manifest g of its image: the size of
\* the scan is still that of the image, and what CheckSize has seen of the row still holds.
Repairs(r, w, g) ==
  r.clean =>
    /\ r.step \in Arrived => g # None
    /\ r.step \in Sized => r.size = Size[g]
    /\ r.step \in {"old_size", "update_size"} => w # None
    /\ r.step = "insert_size" => w = None
    /\ r.step \in Written => w = Size[g]

RepairInv ==
  /\ TypeOK
  /\ \A o, p \in Requests : req[o].image = req[p].image /\ req[o].image \in Ordered => o = p
  /\ \A i \in Images : reg[i] # None => <<i, reg[i]>> \in Pushed
  /\ \A o \in Requests : req[o].image \in Ordered =>
       Repairs(req[o], row[req[o].image], reg[req[o].image])

\* A step of request o to state r, with effects on image i only.
LEMMA RepairStep ==
  ASSUME RepairInv, TypeOK', NEW o \in Requests, NEW i \in Images, NEW r, Become(o, r),
         req[o].image \in {None, i}, r.image \in {None, i},
         req[o].image = None /\ i \in Ordered => Alone(i),
         \A k \in Images : k # i => row'[k] = row[k] /\ reg'[k] = reg[k],
         reg'[i] # None => <<i, reg'[i]>> \in Pushed,
         i \in Ordered => Repairs(r, row'[i], reg'[i])
  PROVE  RepairInv'
<1>0. i # None /\ None \notin Ordered
  BY QuotaAssumption
<1>1. req'[o] = r /\ \A p \in Requests : p # o => req'[p] = req[p]
  BY DEF Become, RepairInv, TypeOK
<1>2. ASSUME NEW p \in Requests, p # o, i \in Ordered PROVE req[p].image # i
  BY <1>0, <1>2 DEF RepairInv, Alone
<1>3. ASSUME NEW p \in Requests, NEW q \in Requests,
             req'[p].image = req'[q].image, req'[p].image \in Ordered
      PROVE  p = q
  BY <1>0, <1>1, <1>2, <1>3 DEF RepairInv
<1>4. \A k \in Images : reg'[k] # None => <<k, reg'[k]>> \in Pushed
  BY DEF RepairInv
<1>5. ASSUME NEW p \in Requests, req'[p].image \in Ordered
      PROVE  Repairs(req'[p], row'[req'[p].image], reg'[req'[p].image])
  <2>1. CASE p = o
    BY <1>0, <1>1, <1>5, <2>1
  <2>2. CASE p # o
    <3>1. req'[p] = req[p] /\ req[p].image # i /\ req[p].image \in Ordered
      BY <1>1, <1>2, <1>5, <2>2
    <3>2. req[p].image \in Images
      BY <3>1, QuotaAssumption
    <3>3. Repairs(req[p], row[req[p].image], reg[req[p].image])
      BY <3>1 DEF RepairInv
    <3> QED
      BY <3>1, <3>2, <3>3
  <2> QED
    BY <2>1, <2>2
<1> QED
  BY <1>3, <1>4, <1>5 DEF RepairInv

\* A request under way that goes on, fails or ends: what is known of its image is enough.
LEMMA RepairMove ==
  ASSUME RepairInv, TypeOK', NEW o \in Requests, ~At(o, "idle"), NEW r, Become(o, r),
         r.image \in {None, req[o].image}, UNCHANGED reg,
         \A k \in Images : k # req[o].image => row'[k] = row[k],
         req[o].image \in Ordered => Repairs(r, row'[req[o].image], reg[req[o].image])
  PROVE  RepairInv'
<1>1. req[o].image \in Images /\ req[o].image # None
  BY QuotaAssumption DEF RepairInv, TypeOK, RequestState, At
<1> QED
  BY <1>1, RepairStep DEF RepairInv

\* A request that has failed, or is over, has nothing to keep.
LEMMA RepairFail ==
  ASSUME RepairInv, TypeOK', NEW o \in Requests, ~At(o, "idle"), UNCHANGED reg,
         \A k \in Images : k # req[o].image => row'[k] = row[k],
         Become(o, Idle) \/ \E r : RequestTyped(r) /\ r.image = req[o].image /\ Fail(o, r)
  PROVE  RepairInv'
<1>1. CASE Become(o, Idle)
  <2>1. Idle.image = None /\ Idle.step = "idle"
    BY DEF Idle
  <2>2. \A w, g : Repairs(Idle, w, g)
    BY <2>1 DEF Repairs, Arrived, Sized, Written, Present, Scanned
  <2> QED
    BY <1>1, <2>1, <2>2, RepairMove
<1>2. ASSUME NEW r, RequestTyped(r), r.image = req[o].image, Fail(o, r)
      PROVE  RepairInv'
  <2> DEFINE q == [r EXCEPT !.clean = FALSE]
  <2>1. Become(o, q)
    BY <1>2 DEF Fail
  <2>2. q.image = req[o].image /\ q.clean = FALSE
    BY <1>2 DEF RequestTyped, RequestState
  <2> HIDE DEF q
  <2>3. \A w, g : Repairs(q, w, g)
    BY <2>2 DEF Repairs
  <2> QED
    BY <2>1, <2>2, <2>3, RepairMove
<1> QED
  BY <1>1, <1>2

\* Every step of a push keeps the invariant.
LEMMA PushRepairs ==
  ASSUME RepairInv, TypeOK', NEW o \in Requests, Push(o)
  PROVE  RepairInv'
<1> USE DEF Arrived, Sized, Written, Present, Scanned
<1>0. TypeOK
  BY DEF RepairInv
<1> DEFINE i == req[o].image
<1>t. \A s : To(o, s).step = s /\ To(o, s).image = i /\ To(o, s).size = req[o].size
            /\ To(o, s).clean = req[o].clean
  BY <1>0 DEF TypeOK, RequestState, To
<1>u. ~At(o, "idle") => /\ i \in Images /\ (i \in Ordered => Repairs(req[o], row[i], reg[i]))
                        /\ \A s \in Steps \ {"idle"} : RequestTyped(To(o, s))
                        /\ row[i] \in Nat \cup {None} /\ req[o].size \in Nat
                        /\ reg[i] # None => reg[i] \in Manifests /\ Size[reg[i]] # None
  <2>1. ~At(o, "idle") => \A s \in Steps \ {"idle"} : RequestTyped(To(o, s)) /\ i \in Images
    BY <1>0, ToTyped
  <2>2. ~At(o, "idle") => i \in Images
    BY <2>1 DEF Steps
  <2>3. \A m \in Manifests : Size[m] # None
    BY QuotaAssumption
  <2> QED
    BY <1>0, <2>1, <2>2, <2>3 DEF RepairInv, TypeOK, RequestState
<1>1. ASSUME NEW k \in Images, NEW a \in Scopes, GetToken(o, k, a)
      PROVE  RepairInv'
  <2> DEFINE r == [Idle EXCEPT !.step = "granted", !.image = k]
  <2>1. r.step = "granted" /\ r.image = k
    BY DEF Idle
  <2>2. req[o].image = None /\ (k \in Ordered => Alone(k))
    BY <1>0, <1>1 DEF GetToken, Begins, At, TypeOK, Alone
  <2>3. Become(o, r) /\ UNCHANGED <<reg, row>>
    BY <1>1 DEF GetToken
  <2> HIDE DEF r
  <2>4. Repairs(r, row[k], reg[k])
    BY <2>1 DEF Repairs
  <2> QED
    BY <2>1, <2>2, <2>3, <2>4, RepairStep DEF RepairInv
<1>2. ASSUME NEW m \in Manifests, PushManifest(o, m)
      PROVE  RepairInv'
  <2> DEFINE r == To(o, "check_num")
  <2>1. ~At(o, "idle") /\ <<i, m>> \in Pushed /\ i \in Images /\ i # None
    BY <1>2, <1>u, QuotaAssumption DEF PushManifest, At
  <2>2. Become(o, r) /\ reg' = [reg EXCEPT ![i] = m] /\ UNCHANGED row
    BY <1>2 DEF PushManifest
  <2>3. reg'[i] = m /\ m # None /\ \A k \in Images : k # i => reg'[k] = reg[k]
    BY <1>0, <2>1, <2>2, QuotaAssumption DEF TypeOK
  <2>4. r.step = "check_num" /\ r.image = i
    BY <1>t
  <2> HIDE DEF r
  <2>5. Repairs(r, row'[i], reg'[i])
    BY <2>3, <2>4 DEF Repairs
  <2> QED
    BY <2>1, <2>2, <2>3, <2>4, <2>5, RepairStep
<1>3. CASE CheckNum(o)
  <2> DEFINE r == [To(o, "add_num") EXCEPT !.check = HasRow(i)]
             q == [To(o, "add_num") EXCEPT !.check = FALSE]
  <2>1. ~At(o, "idle") /\ req[o].step = "check_num" /\ UNCHANGED <<reg, row>>
        /\ (Become(o, r) \/ Fail(o, q))
    BY <1>3 DEF CheckNum, At, Succeed
  <2>2. r.step = "add_num" /\ r.image = i /\ r.clean = req[o].clean
    BY <1>0 DEF TypeOK, RequestState, To
  <2>3. RequestTyped(q) /\ q.image = i
    <3>1. RequestTyped(To(o, "add_num"))
      BY <1>u, <2>1 DEF Steps
    <3>2. To(o, "add_num").image = i
      BY <1>t
    <3> HIDE DEF To
    <3> QED
      BY <3>1, <3>2 DEF RequestTyped, RequestState
  <2> HIDE DEF r, q, i
  <2>4. i \in Ordered => Repairs(r, row[i], reg[i])
    BY <1>u, <2>1, <2>2 DEF Repairs
  <2>5. CASE Become(o, r)
    BY <2>1, <2>2, <2>4, <2>5, RepairMove DEF i
  <2>6. CASE Fail(o, q)
    BY <2>1, <2>3, <2>6, RepairFail DEF i
  <2> QED
    BY <2>1, <2>5, <2>6
<1>4. CASE AddNum(o)
  <2> DEFINE r == To(o, "scan")
  <2>1. ~At(o, "idle") /\ req[o].step = "add_num" /\ UNCHANGED <<reg, row>>
        /\ (Become(o, r) \/ Fail(o, r))
    BY <1>4 DEF AddNum, At, Succeed
  <2>2. r.step = "scan" /\ r.image = i /\ r.clean = req[o].clean /\ RequestTyped(r)
    BY <1>t, <1>u, <2>1 DEF Steps
  <2> HIDE DEF r, i
  <2>4. i \in Ordered => Repairs(r, row[i], reg[i])
    BY <1>u, <2>1, <2>2 DEF Repairs
  <2>5. CASE Become(o, r)
    BY <2>1, <2>2, <2>4, <2>5, RepairMove DEF i
  <2>6. CASE Fail(o, r)
    BY <2>1, <2>2, <2>6, RepairFail DEF i
  <2> QED
    BY <2>1, <2>5, <2>6
<1>5. CASE Scan(o)
  <2> DEFINE r == [To(o, "check_safety") EXCEPT !.size = Size[reg[i]]]
             q == To(o, "check_safety")
  <2>1. ~At(o, "idle") /\ req[o].step = "scan" /\ UNCHANGED <<reg, row>>
    BY <1>5 DEF Scan, At
  <2>2. Become(o, r) \/ (reg[i] = None /\ Become(o, q)) \/ Fail(o, q)
    BY <1>5 DEF Scan, Succeed
  <2>3. r.step = "check_safety" /\ r.image = i /\ r.clean = req[o].clean /\ r.size = Size[reg[i]]
    BY <1>0 DEF TypeOK, RequestState, To
  <2>4. q.step = "check_safety" /\ q.image = i /\ q.clean = req[o].clean /\ RequestTyped(q)
    BY <1>t, <1>u, <2>1 DEF Steps
  <2> HIDE DEF r, q, i
  <2>5. i \in Ordered => Repairs(r, row[i], reg[i])
    BY <1>u, <2>1, <2>3 DEF Repairs
  <2>6. reg[i] = None => (i \in Ordered => Repairs(q, row[i], reg[i]))
    BY <1>u, <2>1, <2>4 DEF Repairs
  <2>7. CASE Become(o, r)
    BY <2>1, <2>3, <2>5, <2>7, RepairMove DEF i
  <2>8. CASE reg[i] = None /\ Become(o, q)
    BY <2>1, <2>4, <2>6, <2>8, RepairMove DEF i
  <2>9. CASE Fail(o, q)
    BY <2>1, <2>4, <2>9, RepairFail DEF i
  <2> QED
    BY <2>2, <2>7, <2>8, <2>9
<1>6. CASE CheckSafety(o)
  <2> DEFINE s == IF HasRow(i) THEN "check_size" ELSE "insert_result"
             r == To(o, s)
             q == To(o, "check_size")
  <2>1. ~At(o, "idle") /\ req[o].step = "check_safety" /\ UNCHANGED <<reg, row>>
        /\ (Become(o, r) \/ Fail(o, q))
    BY <1>6 DEF CheckSafety, At, Succeed
  <2>2. r.step = s /\ r.image = i /\ r.clean = req[o].clean /\ r.size = req[o].size
    BY <1>t
  <2>3. q.image = i /\ RequestTyped(q)
    BY <1>t, <1>u, <2>1 DEF Steps
  <2> HIDE DEF r, q, i
  <2>4. i \in Ordered => Repairs(r, row[i], reg[i])
    BY <1>u, <2>1, <2>2 DEF Repairs
  <2>5. CASE Become(o, r)
    BY <2>1, <2>2, <2>4, <2>5, RepairMove DEF i
  <2>6. CASE Fail(o, q)
    BY <2>1, <2>3, <2>6, RepairFail DEF i
  <2> QED
    BY <2>1, <2>5, <2>6
<1>7. CASE InsertResult(o)
  <2> DEFINE r == To(o, "check_size")
  <2>1. ~At(o, "idle") /\ req[o].step = "insert_result" /\ UNCHANGED reg
        /\ (Become(o, r) \/ Fail(o, r))
    BY <1>7 DEF InsertResult, At, Succeed
  <2>2. r.step = "check_size" /\ r.image = i /\ r.clean = req[o].clean /\ r.size = req[o].size
        /\ RequestTyped(r)
    BY <1>t, <1>u, <2>1 DEF Steps
  <2>3. \A k \in Images : k # i => row'[k] = row[k]
    BY <1>0, <1>7 DEF InsertResult, AddCliarResult, TypeOK
  <2> HIDE DEF r, i
  <2>4. i \in Ordered => Repairs(r, row'[i], reg[i])
    BY <1>u, <2>1, <2>2 DEF Repairs
  <2>5. CASE Become(o, r)
    BY <2>1, <2>2, <2>3, <2>4, <2>5, RepairMove DEF i
  <2>6. CASE Fail(o, r)
    BY <2>1, <2>2, <2>3, <2>6, RepairFail DEF i
  <2> QED
    BY <2>1, <2>5, <2>6
<1>8. CASE CheckSize(o)
  <2> DEFINE s == IF HasRow(i) THEN "old_size" ELSE "insert_size"
             r == [To(o, s) EXCEPT !.add = req[o].size]
  <2>1. ~At(o, "idle") /\ req[o].step = "check_size" /\ UNCHANGED <<reg, row>>
        /\ (Become(o, r) \/ Become(o, Idle))
    BY <1>8 DEF CheckSize, At, Succeed, GiveUp
  <2>2. r.step = s /\ r.image = i /\ r.clean = req[o].clean /\ r.size = req[o].size
    BY <1>0 DEF TypeOK, RequestState, To
  <2> HIDE DEF r, i
  <2>4. i \in Ordered => Repairs(r, row[i], reg[i])
    BY <1>u, <2>1, <2>2 DEF Repairs, HasRow
  <2>5. CASE Become(o, r)
    BY <2>1, <2>2, <2>4, <2>5, RepairMove DEF i
  <2>6. CASE Become(o, Idle)
    BY <2>1, <2>6, RepairFail DEF i
  <2> QED
    BY <2>1, <2>5, <2>6
<1>9. CASE OldSize(o)
  <2> DEFINE d == IF HasRow(i) THEN To(o, "update_size").add - row[i]
                  ELSE To(o, "update_size").add
             r == [To(o, "update_size") EXCEPT !.add = d]
             q == To(o, "update_size")
  <2>1. ~At(o, "idle") /\ req[o].step = "old_size" /\ UNCHANGED <<reg, row>>
        /\ (Become(o, r) \/ Fail(o, q))
    BY <1>9 DEF OldSize, At, Succeed
  <2>3. q.step = "update_size" /\ q.image = i /\ q.clean = req[o].clean /\ q.size = req[o].size
        /\ RequestTyped(q)
    BY <1>t, <1>u, <2>1 DEF Steps
  <2> HIDE DEF q, d, i
  <2>2. r.step = "update_size" /\ r.image = i /\ r.clean = req[o].clean /\ r.size = req[o].size
    <3>1. r = [q EXCEPT !.add = d]
      BY DEF q
    <3> QED
      BY <2>3, <3>1 DEF RequestTyped, RequestState
  <2> HIDE DEF r
  <2>4. i \in Ordered => Repairs(r, row[i], reg[i])
    BY <1>u, <2>1, <2>2 DEF Repairs
  <2>5. CASE Become(o, r)
    BY <2>1, <2>2, <2>4, <2>5, RepairMove DEF i
  <2>6. CASE Fail(o, q)
    BY <2>1, <2>3, <2>6, RepairFail DEF i
  <2> QED
    BY <2>1, <2>5, <2>6
<1>10. CASE UpdateSize(o) \/ InsertSize(o)
  <2> DEFINE r == To(o, "add_size")
  <2>1. ~At(o, "idle") /\ UNCHANGED reg /\ (Become(o, r) \/ Fail(o, r))
    BY <1>10 DEF UpdateSize, InsertSize, At, Succeed
  <2>2. r.step = "add_size" /\ r.image = i /\ r.clean = req[o].clean /\ RequestTyped(r)
    BY <1>t, <1>u, <2>1 DEF Steps
  <2>3. \A k \in Images : k # i => row'[k] = row[k]
    BY <1>0, <1>10 DEF UpdateSize, InsertSize, AddCliarResult, TypeOK
  <2>4. Fail(o, r) \/ (req[o].clean /\ i \in Ordered => row'[i] = req[o].size)
    <3>1. row \in [Images -> Nat \cup {None}]
      BY <1>0 DEF TypeOK
    <3>2. CASE UpdateSize(o)
      <4>1. i \in Images /\ (req[o].clean /\ i \in Ordered => HasRow(i))
        BY <1>u, <2>1, <3>2 DEF UpdateSize, At, Repairs, HasRow
      <4> HIDE DEF i
      <4> QED
        BY <3>1, <3>2, <4>1 DEF UpdateSize, i
    <3>3. CASE InsertSize(o)
      <4>1. i \in Images /\ (req[o].clean /\ i \in Ordered => ~HasRow(i))
        BY <1>u, <2>1, <3>3 DEF InsertSize, At, Repairs, HasRow
      <4> QED
        BY <3>1, <3>3, <4>1 DEF InsertSize, AddCliarResult
    <3> QED
      BY <1>10, <3>2, <3>3
  <2>5. CASE Fail(o, r)
    BY <2>1, <2>2, <2>3, <2>5, RepairFail
  <2>6. CASE Become(o, r) /\ ~Fail(o, r)
    <3>1. req[o].step \in {"update_size", "insert_size"}
      BY <1>10 DEF UpdateSize, InsertSize, At
    <3> HIDE DEF r, i
    <3>2. i \in Ordered => Repairs(r, row'[i], reg[i])
      BY <1>u, <2>1, <2>2, <2>4, <2>6, <3>1 DEF Repairs
    <3> QED
      BY <2>1, <2>2, <2>3, <2>6, <3>2, RepairMove DEF i
  <2> QED
    BY <2>1, <2>5, <2>6
<1>11. CASE AddSize(o)
  <2> DEFINE r == To(o, "check_quota")
  <2>1. ~At(o, "idle") /\ req[o].step = "add_size" /\ UNCHANGED <<reg, row>>
        /\ (Become(o, r) \/ Fail(o, r) \/ Become(o, Idle))
    BY <1>11 DEF AddSize, At, Succeed, GiveUp
  <2>2. r.step = "check_quota" /\ r.image = i /\ r.clean = req[o].clean /\ RequestTyped(r)
    BY <1>t, <1>u, <2>1 DEF Steps
  <2> HIDE DEF r, i
  <2>4. i \in Ordered => Repairs(r, row[i], reg[i])
    BY <1>u, <2>1, <2>2 DEF Repairs
  <2>5. CASE Become(o, r)
    BY <2>1, <2>2, <2>4, <2>5, RepairMove DEF i
  <2>6. CASE Fail(o, r) \/ Become(o, Idle)
    BY <2>1, <2>2, <2>6, RepairFail DEF i
  <2> QED
    BY <2>1, <2>5, <2>6
<1>12. CASE CheckQuota(o)
  <2>1. ~At(o, "idle") /\ UNCHANGED <<reg, row>> /\ Become(o, Idle)
    BY <1>12 DEF CheckQuota, At, Succeed
  <2> QED
    BY <2>1, RepairFail
<1> QED
  BY <1>1, <1>2, <1>3, <1>4, <1>5, <1>6, <1>7, <1>8, <1>9, <1>10, <1>11, <1>12 DEF Push

\* So does every step of a deletion.
LEMMA DeleteRepairs ==
  ASSUME OneTag, RepairInv, TypeOK', NEW o \in Requests, Delete(o)
  PROVE  RepairInv'
<1> USE DEF Arrived, Sized, Written, Present, Scanned
<1>0. TypeOK
  BY DEF RepairInv
<1> DEFINE i == req[o].image
<1>t. \A s : To(o, s).step = s /\ To(o, s).image = i
  BY <1>0, ToFields
<1>1. ASSUME NEW k \in Images, DeleteTag(o, k)
      PROVE  RepairInv'
  <2> DEFINE r == [Idle EXCEPT !.step = "get_size", !.image = k]
  <2>1. r.step = "get_size" /\ r.image = k
    BY DEF Idle
  <2>2. req[o].image = None /\ (k \in Ordered => Alone(k))
    BY <1>0, <1>1 DEF DeleteTag, Begins, At, TypeOK, Alone
  <2>3. /\ Become(o, r) /\ UNCHANGED row
        /\ reg' = [l \in Images |-> IF reg[l] = reg[k] THEN None ELSE reg[l]]
    BY <1>1 DEF DeleteTag
  <2> HIDE DEF r
  <2>4. reg'[k] = None
    BY <2>3
  <2>5. \A l \in Images : l # k => reg'[l] = reg[l]
    BY <2>3, OneTagKept DEF RepairInv
  <2>6. Repairs(r, row[k], None)
    BY <2>1 DEF Repairs
  <2> QED
    BY <2>1, <2>2, <2>3, <2>4, <2>5, <2>6, RepairStep
<1>2. CASE GetSize(o) \/ Free(o)
  <2>1. ~At(o, "idle") /\ UNCHANGED <<reg, row>>
    BY <1>2 DEF GetSize, Free, At
  <2>2. Become(o, Idle) \/ \E s \in {"free", "drop"} : Become(o, To(o, s))
    BY <1>2 DEF GetSize, Free, Succeed, GiveUp
  <2>3. ASSUME NEW s \in {"free", "drop"}, Become(o, To(o, s)) PROVE RepairInv'
    <3> DEFINE r == To(o, s)
    <3>1. r.step = s /\ r.image = i
      BY <1>t
    <3>2. Become(o, r)
      BY <2>3
    <3> HIDE DEF r
    <3>3. \A w, g : Repairs(r, w, g)
      BY <3>1 DEF Repairs
    <3> QED
      BY <2>1, <3>1, <3>2, <3>3, RepairMove
  <2> QED
    BY <2>1, <2>2, <2>3, RepairFail
<1>3. CASE Drop(o)
  <2>1. ~At(o, "idle") /\ UNCHANGED reg /\ Become(o, Idle)
    BY <1>3 DEF Drop, At, Succeed, GiveUp
  <2>2. \A k \in Images : k # i => row'[k] = row[k]
    BY <1>0, <1>3 DEF Drop, TypeOK
  <2> QED
    BY <2>1, <2>2, RepairFail
<1> QED
  BY <1>1, <1>2, <1>3 DEF Delete

\* Whatever has failed before, and with any overlap of requests for other images, a push
\* without failure ends with the size of its image in the row, if no manifest has two tags.
THEOREM RowAlwaysRepaired ==
  ASSUME OneTag
  PROVE  Spec => []RowRepaired
<1>1. Init => RepairInv
  <2> SUFFICES ASSUME Init PROVE RepairInv
    OBVIOUS
  <2>1. \A o \in Requests : req[o].image = None
    BY DEF Init, Idle
  <2>2. None \notin Ordered /\ \A k \in Images : reg[k] = None
    BY QuotaAssumption DEF Init
  <2> QED
    BY <2>1, <2>2, TypeInit DEF RepairInv
<1>2. RepairInv /\ TypeOK' /\ [Next]_vars => RepairInv'
  <2> SUFFICES ASSUME RepairInv, TypeOK', [Next]_vars PROVE RepairInv'
    OBVIOUS
  <2>1. CASE UpdateQuota \/ UNCHANGED vars
    BY <2>1 DEF UpdateQuota, vars, RepairInv
  <2> QED
    BY <2>1, PushRepairs, DeleteRepairs DEF Next
<1>3. RepairInv => RowRepaired
  <2> SUFFICES ASSUME RepairInv, NEW o \in Requests, At(o, "check_quota"), req[o].clean,
                      req[o].image \in Ordered
               PROVE  reg[req[o].image] # None /\ row[req[o].image] = Size[reg[req[o].image]]
    BY DEF RowRepaired
  <2>1. Repairs(req[o], row[req[o].image], reg[req[o].image])
    BY DEF RepairInv
  <2> QED
    BY <2>1 DEF Repairs, At, Arrived, Written, Present
<1> QED
  BY <1>1, <1>2, <1>3, TypeCorrect, PTL DEF Spec

-----------------------------------------------------------------------------
(***************************************************************************)
(* The size, under the conditions of the count.                            *)
(***************************************************************************)

\* What an image with row w counts for in use_size while request r is busy with it: between
\* the change of the row and AddSize the old size is still in, after Free the row's is not.
Share(r, w) ==
  IF w = None \/ r.step = "drop" THEN 0 ELSE IF r.step = "add_size" THEN w - r.add ELSE w

\* The request that is busy with image i.
RequestOf(i) == IF Alone(i) THEN Idle ELSE req[CHOOSE o \in Requests : req[o].image = i]

Shares == [i \in Images |-> Share(RequestOf(i), row[i])]

\* Sizes in request r, with the row w and the manifest g of its image.
Measured(r, w, g) ==
  /\ r.step \in {"idle", "granted", "add_size", "check_quota"} /\ w # None => w = Size[g]
  /\ r.step \in Scanned => r.size = Size[g]
  /\ r.step = "old_size" => r.add = r.size
  /\ r.step = "update_size" => r.add = r.size - w

SizeInv ==
  /\ \A i \in Images : Measured(RequestOf(i), row[i], reg[i])
  /\ useSize = SumFunctionOnSet(Shares, Images)

\* The request of an image, for the request that is busy with it.
LEMMA RequestOfImage ==
  ASSUME OrderInv, NEW o \in Requests, req[o].image # None
  PROVE  RequestOf(req[o].image) = req[o]
<1> DEFINE i == req[o].image
           p == CHOOSE p \in Requests : req[p].image = i
<1>1. p \in Requests /\ req[p].image = i
  OBVIOUS
<1>2. ~Alone(i)
  BY DEF Alone
<1>3. RequestOf(i) = req[p]
  BY <1>2 DEF RequestOf
<1> HIDE DEF p
<1>4. p = o
  BY <1>1 DEF OrderInv
<1> QED
  BY <1>3, <1>4

\* What an image counts for is a number.
LEMMA ShareType ==
  ASSUME OrderInv
  PROVE  \A i \in Images : Share(RequestOf(i), row[i]) \in Int
<1> SUFFICES ASSUME NEW i \in Images PROVE Share(RequestOf(i), row[i]) \in Int
  OBVIOUS
<1>1. row[i] \in Nat \cup {None}
  BY DEF OrderInv, TypeOK
<1>2. RequestOf(i).add \in Int
  <2>1. CASE Alone(i)
    BY <2>1 DEF RequestOf, Idle
  <2>2. CASE ~Alone(i)
    <3>1. PICK o \in Requests : req[o].image = i
      BY <2>2 DEF Alone
    <3>2. RequestOf(i) = req[o]
      BY <3>1, RequestOfImage, QuotaAssumption
    <3> QED
      BY <3>2 DEF OrderInv, TypeOK, RequestState
  <2> QED
    BY <2>1, <2>2
<1> QED
  BY <1>1, <1>2 DEF Share

\* A step of request o to state r, with effects on image i only.
LEMMA SizeStep ==
  ASSUME Orderly, OrderInv, OrderInv', SizeInv, NEW o \in Requests, NEW i \in Images, NEW r,
         Become(o, r), req[o].image \in {None, i}, r.image \in {None, i},
         req[o].image = None => Alone(i),
         \A k \in Images : k # i => row'[k] = row[k] /\ reg'[k] = reg[k],
         Measured(r, row'[i], reg'[i]),
         useSize' = useSize + (Share(r, row'[i]) - Share(req[o], row[i]))
  PROVE  SizeInv'
<1>0. i # None
  BY QuotaAssumption
<1>1. req'[o] = r /\ \A p \in Requests : p # o => req'[p] = req[p]
  BY DEF Become, OrderInv, TypeOK
<1>2. \A p \in Requests : p # o => req[p].image # i
  BY <1>0 DEF OrderInv, Alone
<1>3. \A p \in Requests : req[p].image = None <=> req[p].step = "idle"
  BY DEF OrderInv, TypeOK
<1>4. r.image = None <=> r.step = "idle"
  BY <1>1 DEF OrderInv, TypeOK
<1>5. Share(RequestOf(i), row[i]) = Share(req[o], row[i])
  <2>1. CASE req[o].image = i
    BY <1>0, <2>1, RequestOfImage
  <2>2. CASE req[o].image = None
    <3>1. RequestOf(i) = Idle /\ req[o].step = "idle" /\ Idle.step = "idle"
      BY <1>3, <2>2 DEF RequestOf, Idle
    <3> QED
      BY <3>1 DEF Share
  <2> QED
    BY <2>1, <2>2
<1> DEFINE R(k) == RequestOf(k)'
<1>6. /\ Share(R(i), row'[i]) = Share(r, row'[i])
      /\ Measured(R(i), row'[i], reg'[i])
  <2>1. CASE r.image = i
    <3>1. R(i) = r
      <4>1. ~Alone(i)'
        BY <1>1, <2>1 DEF Alone
      <4> DEFINE p == CHOOSE p \in Requests : req'[p].image = i
      <4>2. p \in Requests /\ req'[p].image = i
        BY <1>1, <2>1
      <4>3. R(i) = req'[p]
        BY <4>1 DEF RequestOf
      <4> HIDE DEF p
      <4>4. p = o
        BY <1>1, <1>2, <4>2
      <4> QED
        BY <1>1, <4>3, <4>4
    <3> QED
      BY <3>1
  <2>2. CASE r.image = None
    <3>1. Alone(i)'
      BY <1>0, <1>1, <1>2, <2>2 DEF Alone
    <3>2. R(i) = Idle /\ r.step = "idle" /\ Idle.step = "idle"
      BY <1>4, <2>2, <3>1 DEF RequestOf, Idle
    <3> HIDE DEF R
    <3> QED
      BY <3>2 DEF Share, Measured, Scanned
  <2> QED
    BY <2>1, <2>2
<1>7. ASSUME NEW k \in Images, k # i PROVE R(k) = RequestOf(k)
  <2>1. k # None
    BY QuotaAssumption
  <2>2. \A p \in Requests : req'[p].image = k <=> req[p].image = k
    BY <1>1, <1>7, <2>1
  <2>3. Alone(k)' <=> Alone(k)
    BY <2>2 DEF Alone
  <2>4. CASE Alone(k)
    BY <2>3, <2>4 DEF RequestOf
  <2>5. CASE ~Alone(k)
    <3>1. PICK p \in Requests : req[p].image = k
      BY <2>5 DEF Alone
    <3>2. p # o /\ req'[p] = req[p]
      BY <1>1, <1>7, <2>1, <3>1
    <3>3. RequestOf(k) = req[p]
      BY <2>1, <3>1, RequestOfImage
    <3> DEFINE q == CHOOSE q \in Requests : req'[q].image = k
    <3>4. q \in Requests /\ req'[q].image = k
      BY <3>1, <3>2
    <3>5. R(k) = req'[q]
      BY <2>3, <2>5 DEF RequestOf
    <3> HIDE DEF q
    <3>6. q = p
      BY <2>1, <2>2, <3>1, <3>4 DEF OrderInv
    <3> QED
      BY <3>2, <3>3, <3>5, <3>6
  <2> QED
    BY <2>4, <2>5
<1>8. \A k \in Images : Measured(R(k), row'[k], reg'[k])
  BY <1>6, <1>7 DEF SizeInv
<1> DEFINE f == Shares
           g == Shares'
<1>9. \A k \in Images : f[k] = Share(RequestOf(k), row[k]) /\ g[k] = Share(R(k), row'[k])
  BY DEF Shares
<1>10. \A k \in Images : f[k] \in Int /\ g[k] \in Int
  <2>1. \A k \in Images : Share(R(k), row'[k]) \in Int
    <3>1. \A k \in Images : k # i => Share(R(k), row'[k]) \in Int
      BY <1>7, ShareType
    <3>2. Share(r, row'[i]) \in Int
      <4>1. r.add \in Int /\ row'[i] \in Nat \cup {None}
        BY <1>1 DEF OrderInv, TypeOK, RequestState
      <4> QED
        BY <4>1 DEF Share
    <3> QED
      BY <1>6, <3>1, <3>2
  <2> QED
    BY <1>9, <2>1, ShareType
<1>11. \A k \in Images : k # i => f[k] = g[k]
  BY <1>7, <1>9
<1>12. f[i] = Share(req[o], row[i]) /\ g[i] = Share(r, row'[i])
  BY <1>5, <1>6, <1>9
<1>13. useSize = SumFunctionOnSet(f, Images)
  BY DEF SizeInv
<1> HIDE DEF f, g, R
<1>14. SumFunctionOnSet(g, Images) = SumFunctionOnSet(f, Images) + (g[i] - f[i])
  BY <1>10, <1>11, SumChange DEF Orderly
<1>15. useSize' = SumFunctionOnSet(g, Images)
  BY <1>12, <1>13, <1>14
<1> QED
  BY <1>8, <1>15 DEF SizeInv, R, g

\* The request under way and what is known of its image.
LEMMA BusySize ==
  ASSUME OrderInv, SizeInv, NEW o \in Requests, ~At(o, "idle")
  PROVE  /\ req[o].image \in Images /\ req[o].image # None
         /\ Local(req[o], row[req[o].image], reg[req[o].image])
         /\ Measured(req[o], row[req[o].image], reg[req[o].image])
         /\ req[o].size \in Nat /\ req[o].add \in Int
         /\ row[req[o].image] \in Nat \cup {None}
<1>1. /\ req[o].image \in Images /\ req[o].image # None /\ req[o] \in RequestState
      /\ Local(req[o], row[req[o].image], reg[req[o].image])
      /\ row[req[o].image] \in Nat \cup {None}
  BY Busy
<1>2. RequestOf(req[o].image) = req[o]
  BY <1>1, RequestOfImage
<1>3. Measured(RequestOf(req[o].image), row[req[o].image], reg[req[o].image])
  BY <1>1 DEF SizeInv
<1> QED
  BY <1>1, <1>2, <1>3 DEF RequestState

\* A request under way that goes on or ends.
LEMMA SizeMove ==
  ASSUME Orderly, OrderInv, OrderInv', SizeInv, NEW o \in Requests, ~At(o, "idle"), NEW r,
         Become(o, r), r.image \in {None, req[o].image}, UNCHANGED reg,
         \A k \in Images : k # req[o].image => row'[k] = row[k],
         Measured(r, row'[req[o].image], reg[req[o].image]),
         useSize' = useSize + (Share(r, row'[req[o].image]) - Share(req[o], row[req[o].image]))
  PROVE  SizeInv'
<1>1. req[o].image \in Images /\ req[o].image # None
  BY Busy
<1> QED
  BY <1>1, SizeStep

\* The same without a change of rows: the image counts for as much as before.
LEMMA SizeSame ==
  ASSUME Orderly, OrderInv, OrderInv', SizeInv, NEW o \in Requests, ~At(o, "idle"), NEW r,
         Become(o, r), r.image \in {None, req[o].image}, UNCHANGED <<reg, row, useSize>>,
         Measured(r, row[req[o].image], reg[req[o].image]),
         Share(r, row[req[o].image]) = Share(req[o], row[req[o].image])
  PROVE  SizeInv'
<1>1. req[o].image \in Images /\ req[o].image # None
  BY Busy
<1>2. Share(req[o], row[req[o].image]) \in Int /\ useSize \in Int
  <2>1. RequestOf(req[o].image) = req[o]
    BY <1>1, RequestOfImage
  <2> QED
    BY <1>1, <2>1, ShareType DEF OrderInv, TypeOK
<1>3. useSize' = useSize + (Share(r, row[req[o].image]) - Share(req[o], row[req[o].image]))
  BY <1>2
<1> QED
  BY <1>3, SizeMove

\* Every step of a push keeps the sum.
LEMMA PushSizes ==
  ASSUME Orderly, OrderInv, OrderInv', SizeInv, faults' = 0, NEW o \in Requests, Push(o)
  PROVE  SizeInv'
<1>0. TypeOK /\ useSize \in Int
  BY DEF OrderInv, TypeOK
<1>f. ~GiveUp(o) /\ \A r : ~Fail(o, r)
  BY <1>0, NoFailure
<1> DEFINE i == req[o].image
<1>t. \A s : To(o, s).step = s /\ To(o, s).image = i /\ To(o, s).size = req[o].size
            /\ To(o, s).add = req[o].add
  BY <1>0 DEF TypeOK, RequestState, To
<1>u. ~At(o, "idle") => /\ i \in Images /\ i # None
                        /\ Local(req[o], row[i], reg[i]) /\ Measured(req[o], row[i], reg[i])
                        /\ req[o].size \in Nat /\ req[o].add \in Int
                        /\ row[i] \in Nat \cup {None}
  BY BusySize
<1>1. ASSUME NEW k \in Images, NEW a \in Scopes, GetToken(o, k, a)
      PROVE  SizeInv'
  <2> DEFINE r == [Idle EXCEPT !.step = "granted", !.image = k]
  <2>1. r.step = "granted" /\ r.image = k
    BY DEF Idle
  <2>2. req[o].image = None /\ req[o].step = "idle" /\ Alone(k)
    BY <1>0, <1>1 DEF GetToken, Begins, At, TypeOK, Orderly, Alone
  <2>3. Become(o, r) /\ UNCHANGED <<reg, row, useSize>>
    BY <1>1 DEF GetToken, used
  <2> HIDE DEF r
  <2>4. Measured(Idle, row[k], reg[k])
    BY <2>2 DEF SizeInv, RequestOf
  <2>5. Measured(r, row[k], reg[k])
    BY <2>1, <2>4 DEF Measured, Idle, Scanned
  <2>6. Share(r, row[k]) = Share(req[o], row[k]) /\ Share(r, row[k]) \in Int
    BY <1>0, <2>1, <2>2 DEF Share, TypeOK
  <2>7. useSize' = useSize + (Share(r, row[k]) - Share(req[o], row[k]))
    BY <1>0, <2>3, <2>6
  <2> QED
    BY <2>1, <2>2, <2>3, <2>5, <2>7, SizeStep
<1>2. ASSUME NEW m \in Manifests, PushManifest(o, m)
      PROVE  SizeInv'
  <2> DEFINE r == To(o, "check_num")
  <2>1. ~At(o, "idle") /\ req[o].step = "granted" /\ i \in Images /\ i # None
        /\ row[i] \in Nat \cup {None}
    BY <1>2, <1>u DEF PushManifest, At
  <2>2. Become(o, r) /\ reg' = [reg EXCEPT ![i] = m] /\ UNCHANGED <<row, useSize>>
    BY <1>2 DEF PushManifest, used
  <2>3. \A k \in Images : k # i => reg'[k] = reg[k]
    BY <1>0, <2>1, <2>2 DEF TypeOK
  <2>4. r.step = "check_num" /\ r.image = i
    BY <1>t
  <2> HIDE DEF r
  <2>5. Measured(r, row'[i], reg'[i])
    BY <2>4 DEF Measured, Scanned
  <2>6. Share(r, row[i]) = Share(req[o], row[i]) /\ Share(r, row[i]) \in Int
    BY <2>1, <2>4 DEF Share
  <2>7. useSize' = useSize + (Share(r, row'[i]) - Share(req[o], row[i]))
    BY <1>0, <2>2, <2>6
  <2> QED
    BY <2>1, <2>2, <2>3, <2>4, <2>5, <2>7, SizeStep
<1>3. CASE CheckNum(o)
  <2> DEFINE r == [To(o, "add_num") EXCEPT !.check = HasRow(i)]
  <2>1. ~At(o, "idle") /\ req[o].step = "check_num" /\ Become(o, r)
        /\ UNCHANGED <<reg, row, useSize>>
    BY <1>3, <1>f DEF CheckNum, At, Succeed, used
  <2>2. r.step = "add_num" /\ r.image = i
    BY <1>0 DEF TypeOK, RequestState, To
  <2> HIDE DEF r
  <2>3. Measured(r, row[i], reg[i]) /\ Share(r, row[i]) = Share(req[o], row[i])
    BY <2>1, <2>2 DEF Measured, Share, Scanned
  <2> QED
    BY <2>1, <2>2, <2>3, SizeSame
<1>4. CASE AddNum(o)
  <2> DEFINE r == To(o, "scan")
  <2>1. ~At(o, "idle") /\ req[o].step = "add_num" /\ Become(o, r)
        /\ UNCHANGED <<reg, row, useSize>>
    BY <1>4, <1>f DEF AddNum, At, Succeed
  <2>2. r.step = "scan" /\ r.image = i
    BY <1>t
  <2> HIDE DEF r
  <2>3. Measured(r, row[i], reg[i]) /\ Share(r, row[i]) = Share(req[o], row[i])
    BY <2>1, <2>2 DEF Measured, Share, Scanned
  <2> QED
    BY <2>1, <2>2, <2>3, SizeSame
<1>5. CASE Scan(o)
  <2> DEFINE r == [To(o, "check_safety") EXCEPT !.size = Size[reg[i]]]
  <2>0. ~At(o, "idle") /\ req[o].step = "scan" /\ UNCHANGED <<reg, row, useSize>>
    BY <1>5 DEF Scan, At, used
  <2>1. reg[i] # None
    BY <1>u, <2>0 DEF Local, Present
  <2>2. Become(o, r)
    BY <1>5, <1>f, <2>1 DEF Scan, Succeed
  <2>3. r.step = "check_safety" /\ r.image = i /\ r.size = Size[reg[i]]
    BY <1>0 DEF TypeOK, RequestState, To
  <2> HIDE DEF r
  <2>4. Measured(r, row[i], reg[i]) /\ Share(r, row[i]) = Share(req[o], row[i])
    BY <2>0, <2>3 DEF Measured, Share, Scanned
  <2> QED
    BY <2>0, <2>2, <2>3, <2>4, SizeSame
<1>6. CASE CheckSafety(o)
  <2> DEFINE s == IF HasRow(i) THEN "check_size" ELSE "insert_result"
             r == To(o, s)
  <2>1. ~At(o, "idle") /\ req[o].step = "check_safety" /\ Become(o, r)
        /\ UNCHANGED <<reg, row, useSize>>
    BY <1>6, <1>f DEF CheckSafety, At, Succeed, used
  <2>2. r.step = s /\ r.image = i /\ r.size = req[o].size
    BY <1>t
  <2> HIDE DEF r, i
  <2>3. Measured(r, row[i], reg[i]) /\ Share(r, row[i]) = Share(req[o], row[i])
    BY <1>u, <2>1, <2>2 DEF Measured, Share, Scanned
  <2> QED
    BY <2>1, <2>2, <2>3, SizeSame DEF i
<1>7. CASE InsertResult(o)
  <2> DEFINE r == To(o, "check_size")
  <2>1. /\ ~At(o, "idle") /\ req[o].step = "insert_result" /\ Become(o, r)
        /\ UNCHANGED <<reg, useSize>> /\ AddCliarResult(i, 0)
    BY <1>7, <1>f DEF InsertResult, At, Succeed, used
  <2>2. Local(req[o], row[i], reg[i]) /\ i \in Images /\ Measured(req[o], row[i], reg[i])
    BY <1>u, <2>1
  <2>3. r.step = "check_size" /\ r.image = i /\ r.size = req[o].size
    BY <1>t
  <2> HIDE DEF r, i
  <2>4. row[i] = None /\ row' = [row EXCEPT ![i] = 0]
    BY <2>1, <2>2 DEF Local, AddCliarResult, HasRow
  <2>5. row'[i] = 0 /\ row'[i] # None /\ \A k \in Images : k # i => row'[k] = row[k]
    BY <1>0, <2>2, <2>4, QuotaAssumption DEF TypeOK
  <2>6. Measured(r, row'[i], reg[i])
    BY <2>1, <2>2, <2>3 DEF Measured, Scanned
  <2>7. Share(r, row'[i]) = 0 /\ Share(req[o], row[i]) = 0
    BY <2>3, <2>4, <2>5 DEF Share
  <2>8. useSize' = useSize + (Share(r, row'[i]) - Share(req[o], row[i]))
    BY <1>0, <2>1, <2>7
  <2> QED
    BY <2>1, <2>3, <2>5, <2>6, <2>8, SizeMove DEF i
<1>8. CASE CheckSize(o)
  <2> DEFINE r == [To(o, "old_size") EXCEPT !.add = req[o].size]
  <2>0. ~At(o, "idle") /\ req[o].step = "check_size" /\ UNCHANGED <<reg, row, useSize>>
    BY <1>8 DEF CheckSize, At, used
  <2>1. HasRow(i)
    BY <1>u, <2>0 DEF Local, Rowed, HasRow
  <2>2. Become(o, r)
    BY <1>8, <1>f, <2>1 DEF CheckSize, Succeed
  <2>3. r.step = "old_size" /\ r.image = i /\ r.size = req[o].size /\ r.add = req[o].size
    BY <1>0 DEF TypeOK, RequestState, To
  <2> HIDE DEF r, i
  <2>4. Measured(r, row[i], reg[i]) /\ Share(r, row[i]) = Share(req[o], row[i])
    BY <1>u, <2>0, <2>3 DEF Measured, Share, Scanned
  <2> QED
    BY <2>0, <2>2, <2>3, <2>4, SizeSame DEF i
<1>9. CASE OldSize(o)
  <2> DEFINE d == req[o].add - row[i]
             r == [To(o, "update_size") EXCEPT !.add = d]
  <2>0. ~At(o, "idle") /\ req[o].step = "old_size" /\ UNCHANGED <<reg, row, useSize>>
    BY <1>9 DEF OldSize, At, used
  <2>1. HasRow(i)
    BY <1>u, <2>0 DEF Local, Rowed, HasRow
  <2>2. Become(o, r)
    <3>1. Become(o, [To(o, "update_size") EXCEPT !.add = @ - row[i]])
      BY <1>9, <1>f, <2>1 DEF OldSize, Succeed
    <3>2. To(o, "update_size").add = req[o].add
      BY <1>t
    <3> QED
      BY <3>1, <3>2
  <2>3. r.step = "update_size" /\ r.image = i /\ r.size = req[o].size /\ r.add = d
    <3> HIDE DEF d
    <3> QED
      BY <1>0 DEF TypeOK, RequestState, To
  <2> HIDE DEF r, i
  <2>4. Measured(r, row[i], reg[i]) /\ Share(r, row[i]) = Share(req[o], row[i])
    BY <1>u, <2>0, <2>3 DEF Measured, Share, Scanned
  <2> QED
    BY <2>0, <2>2, <2>3, <2>4, SizeSame DEF i
<1>10. CASE UpdateSize(o)
  <2> DEFINE r == To(o, "add_size")
  <2>1. /\ ~At(o, "idle") /\ req[o].step = "update_size" /\ Become(o, r)
        /\ UNCHANGED <<reg, useSize>>
        /\ row' = IF HasRow(i) THEN [row EXCEPT ![i] = req[o].size] ELSE row
    BY <1>10, <1>f DEF UpdateSize, At, Succeed, used
  <2>2. /\ i \in Images /\ HasRow(i) /\ row[i] \in Nat /\ req[o].size \in Nat
        /\ req[o].size = Size[reg[i]] /\ req[o].add = req[o].size - row[i]
    BY <1>u, <2>1 DEF Local, Measured, Rowed, Scanned, HasRow
  <2>3. r.step = "add_size" /\ r.image = i /\ r.add = req[o].add
    BY <1>t
  <2> HIDE DEF r, i
  <2>4. row'[i] = req[o].size /\ row'[i] # None /\ \A k \in Images : k # i => row'[k] = row[k]
    BY <1>0, <2>1, <2>2, QuotaAssumption DEF TypeOK
  <2>5. Measured(r, row'[i], reg[i])
    BY <2>2, <2>3, <2>4 DEF Measured, Scanned
  <2>6. Share(r, row'[i]) = row[i] /\ Share(req[o], row[i]) = row[i]
    <3>1. req[o].size - req[o].add = row[i]
      BY <2>2
    <3> QED
      BY <2>1, <2>2, <2>3, <2>4, <3>1 DEF Share, HasRow
  <2>7. useSize' = useSize + (Share(r, row'[i]) - Share(req[o], row[i]))
    BY <1>0, <2>1, <2>2, <2>6
  <2> QED
    BY <2>1, <2>3, <2>4, <2>5, <2>7, SizeMove DEF i
<1>11. CASE InsertSize(o)
  BY <1>11, <1>u DEF InsertSize, At, Local
<1>12. CASE AddSize(o)
  <2> DEFINE r == To(o, "check_quota")
  <2>1. ~At(o, "idle") /\ req[o].step = "add_size" /\ Become(o, r) /\ UNCHANGED <<reg, row>>
        /\ useSize' = useSize + req[o].add
    BY <1>12, <1>f DEF AddSize, At, Succeed
  <2>2. row[i] \in Nat /\ row[i] # None /\ req[o].add \in Int
        /\ Measured(req[o], row[i], reg[i])
    BY <1>u, <2>1 DEF Local, Rowed
  <2>3. r.step = "check_quota" /\ r.image = i
    BY <1>t
  <2> HIDE DEF r, i
  <2>4. Measured(r, row[i], reg[i])
    BY <2>1, <2>2, <2>3 DEF Measured, Scanned
  <2>5. Share(r, row[i]) = row[i] /\ Share(req[o], row[i]) = row[i] - req[o].add
    BY <2>1, <2>2, <2>3 DEF Share
  <2>6. useSize' = useSize + (Share(r, row'[i]) - Share(req[o], row[i]))
    BY <1>0, <2>1, <2>2, <2>5
  <2> QED
    BY <2>1, <2>3, <2>4, <2>6, SizeMove DEF i
<1>13. CASE CheckQuota(o)
  <2>1. ~At(o, "idle") /\ req[o].step = "check_quota" /\ Become(o, Idle)
        /\ UNCHANGED <<reg, row, useSize>>
    BY <1>13, <1>f DEF CheckQuota, At, Succeed, used
  <2>2. Idle.image = None /\ Idle.step = "idle"
    BY DEF Idle
  <2>3. Measured(Idle, row[i], reg[i]) /\ Share(Idle, row[i]) = Share(req[o], row[i])
    BY <1>u, <2>1, <2>2 DEF Measured, Share, Scanned
  <2> QED
    BY <2>1, <2>2, <2>3, SizeSame
<1> QED
  BY <1>1, <1>2, <1>3, <1>4, <1>5, <1>6, <1>7, <1>8, <1>9, <1>10, <1>11, <1>12, <1>13 DEF Push

\* So does every step of a deletion.
LEMMA DeleteSizes ==
  ASSUME Orderly, OrderInv, OrderInv', SizeInv, faults' = 0, NEW o \in Requests, Delete(o)
  PROVE  SizeInv'
<1>0. TypeOK /\ useSize \in Int
  BY DEF OrderInv, TypeOK
<1>f. ~GiveUp(o) /\ \A r : ~Fail(o, r)
  BY <1>0, NoFailure
<1> DEFINE i == req[o].image
<1>t. \A s : To(o, s).step = s /\ To(o, s).image = i
  BY <1>0, ToFields
<1>i. Idle.image = None /\ Idle.step = "idle"
  BY DEF Idle
<1>u. ~At(o, "idle") => /\ i \in Images /\ i # None
                        /\ Local(req[o], row[i], reg[i]) /\ Measured(req[o], row[i], reg[i])
                        /\ row[i] \in Nat \cup {None}
  BY BusySize
<1>1. ASSUME NEW k \in Images, DeleteTag(o, k)
      PROVE  SizeInv'
  <2> DEFINE r == [Idle EXCEPT !.step = "get_size", !.image = k]
  <2>1. r.step = "get_size" /\ r.image = k
    BY DEF Idle
  <2>2. req[o].image = None /\ req[o].step = "idle" /\ Alone(k)
    BY <1>0, <1>1 DEF DeleteTag, Begins, At, TypeOK, Orderly, Alone
  <2>3. /\ Become(o, r) /\ UNCHANGED <<row, useSize>>
        /\ reg' = [l \in Images |-> IF reg[l] = reg[k] THEN None ELSE reg[l]]
    BY <1>1 DEF DeleteTag, used
  <2> HIDE DEF r
  <2>4. \A l \in Images : l # k => reg'[l] = reg[l]
    BY <2>3, OneTagKept DEF OrderInv, Orderly
  <2>5. Measured(r, row'[k], reg'[k])
    BY <2>1 DEF Measured, Scanned
  <2>6. Share(r, row[k]) = Share(req[o], row[k]) /\ Share(r, row[k]) \in Int
    BY <1>0, <2>1, <2>2 DEF Share, TypeOK
  <2>7. useSize' = useSize + (Share(r, row'[k]) - Share(req[o], row[k]))
    BY <1>0, <2>3, <2>6
  <2> QED
    BY <2>1, <2>2, <2>3, <2>4, <2>5, <2>7, SizeStep
<1>2. CASE GetSize(o)
  <2>1. ~At(o, "idle") /\ req[o].step = "get_size" /\ UNCHANGED <<reg, row, useSize>>
    BY <1>2 DEF GetSize, At, used
  <2>2. \/ Become(o, To(o, "free"))
        \/ row[i] = None /\ Become(o, Idle)
    BY <1>2, <1>f, <1>u, <2>1 DEF GetSize, Succeed, HasRow, Local
  <2>3. CASE Become(o, To(o, "free"))
    <3> DEFINE r == To(o, "free")
    <3>1. r.step = "free" /\ r.image = i /\ Become(o, r)
      BY <1>t, <2>3
    <3> HIDE DEF r
    <3>2. Measured(r, row[i], reg[i]) /\ Share(r, row[i]) = Share(req[o], row[i])
      BY <2>1, <3>1 DEF Measured, Share, Scanned
    <3> QED
      BY <2>1, <3>1, <3>2, SizeSame
  <2>4. CASE row[i] = None /\ Become(o, Idle)
    <3>1. Measured(Idle, row[i], reg[i]) /\ Share(Idle, row[i]) = Share(req[o], row[i])
      BY <1>i, <2>4 DEF Measured, Share, Scanned
    <3> QED
      BY <1>i, <2>1, <2>4, <3>1, SizeSame
  <2> QED
    BY <2>2, <2>3, <2>4
<1>3. CASE Free(o)
  <2> DEFINE r == To(o, "drop")
  <2>1. ~At(o, "idle") /\ req[o].step = "free" /\ UNCHANGED <<reg, row>>
    BY <1>3 DEF Free, At
  <2>2. i \in Images /\ row[i] # None /\ row[i] \in Nat
    BY <1>u, <2>1 DEF Local, Rowed
  <2>3. Become(o, r) /\ useSize' = useSize - row[i]
    BY <1>3, <1>f, <2>2 DEF Free, Succeed, HasRow
  <2>4. r.step = "drop" /\ r.image = i
    BY <1>t
  <2> HIDE DEF r, i
  <2>5. Measured(r, row[i], reg[i])
    BY <2>4 DEF Measured, Scanned
  <2>6. Share(r, row[i]) = 0 /\ Share(req[o], row[i]) = row[i]
    BY <2>1, <2>2, <2>4 DEF Share
  <2>7. useSize' = useSize + (Share(r, row'[i]) - Share(req[o], row[i]))
    BY <1>0, <2>1, <2>2, <2>3, <2>6
  <2> QED
    BY <2>1, <2>3, <2>4, <2>5, <2>7, SizeMove DEF i
<1>4. CASE Drop(o)
  <2>1. /\ ~At(o, "idle") /\ req[o].step = "drop" /\ Become(o, Idle) /\ UNCHANGED <<reg, useSize>>
        /\ row' = [row EXCEPT ![i] = None]
    BY <1>4, <1>f DEF Drop, At, Succeed, used
  <2>2. i \in Images
    BY <1>u, <2>1
  <2> HIDE DEF i
  <2>3. row'[i] = None /\ \A k \in Images : k # i => row'[k] = row[k]
    BY <1>0, <2>1, <2>2 DEF TypeOK
  <2>4. Measured(Idle, row'[i], reg[i])
    BY <1>i, <2>3 DEF Measured, Scanned
  <2>5. Share(Idle, row'[i]) = 0 /\ Share(req[o], row[i]) = 0
    BY <2>1, <2>3 DEF Share
  <2>6. useSize' = useSize + (Share(Idle, row'[i]) - Share(req[o], row[i]))
    BY <1>0, <2>1, <2>5
  <2> QED
    BY <1>i, <2>1, <2>3, <2>4, <2>6, SizeMove DEF i
<1> QED
  BY <1>1, <1>2, <1>3, <1>4 DEF Delete

\* The sum at the start.
LEMMA SizeInit ==
  ASSUME Orderly, Init
  PROVE  SizeInv
<1>1. \A i \in Images : Alone(i) /\ row[i] = None
  BY QuotaAssumption DEF Init, Alone, Idle
<1>2. \A i \in Images : Measured(RequestOf(i), row[i], reg[i])
  BY <1>1 DEF RequestOf, Measured, Idle, Scanned
<1>3. \A i \in Images : Shares[i] = 0
  BY <1>1 DEF Shares, Share
<1>4. SumFunctionOnSet(Shares, Images) = 0
  BY <1>3, SumZero DEF Orderly
<1> QED
  BY <1>2, <1>4 DEF SizeInv, Init

\* No step of the system breaks the sum.
LEMMA SizeNext ==
  ASSUME Orderly, OrderInv, OrderInv', SizeInv, faults' = 0, [Next]_vars
  PROVE  SizeInv'
<1>1. CASE UNCHANGED <<reg, row, useSize, req>>
  <2>1. \A i \in Images : RequestOf(i)' = RequestOf(i)
    BY <1>1 DEF RequestOf, Alone
  <2>2. Shares' = Shares
    BY <1>1, <2>1 DEF Shares
  <2> QED
    BY <1>1, <2>1, <2>2 DEF SizeInv
<1>2. CASE UpdateQuota \/ UNCHANGED vars
  BY <1>1, <1>2 DEF UpdateQuota, vars, used
<1> QED
  BY <1>2, PushSizes, DeleteSizes DEF Next

\* With no request under way, every image counts for its size.
LEMMA SizeInvExact ==
  ASSUME OrderInv, SizeInv
  PROVE  SizeExact
<1> DEFINE f == [i \in Images |-> IF i \in Stored THEN Size[reg[i]] ELSE 0]
<1> SUFFICES ASSUME Quiet, faults = 0 PROVE useSize = SumFunction(f)
  BY DEF SizeExact
<1>1. \A i \in Images : Alone(i)
  BY QuotaAssumption DEF Quiet, At, OrderInv, TypeOK, Alone
<1>2. \A i \in Images : RequestOf(i) = Idle /\ Idle.step = "idle"
  BY <1>1 DEF RequestOf, Idle
<1>3. \A i \in Images : row[i] # None <=> i \in Stored
  BY <1>1 DEF OrderInv, Settled, Stored
<1>4. \A i \in Images : row[i] # None => row[i] = Size[reg[i]]
  BY <1>2 DEF SizeInv, Measured
<1>5. ASSUME NEW i \in Images PROVE Share(RequestOf(i), row[i]) = f[i]
  BY <1>2, <1>3, <1>4 DEF Share
<1>6. Shares = f
  BY <1>5 DEF Shares
<1>7. SumFunction(f) = SumFunctionOnSet(f, Images)
  BY DEF SumFunction
<1> QED
  BY <1>6, <1>7 DEF SizeInv

\* However many requests for different images run side by side, the size used of the quota
\* is the sum of the sizes of the images whenever all are done and none has failed.
THEOREM SizeAlwaysExact ==
  ASSUME Orderly
  PROVE  Spec => []SizeExact
<1> DEFINE IInv == TypeOK /\ (faults = 0 => CountInv /\ SizeInv)
<1>1. Init => IInv
  BY CountInit, SizeInit, TypeInit
<1>2. IInv /\ TypeOK' /\ [Next]_vars => IInv'
  <2> SUFFICES ASSUME IInv, TypeOK', [Next]_vars, faults' = 0 PROVE CountInv' /\ SizeInv'
    OBVIOUS
  <2>1. faults = 0 /\ CountInv /\ SizeInv
    BY FaultsStay
  <2>2. CountInv'
    BY <2>1, CountNext
  <2>3. OrderInv /\ OrderInv'
    BY <2>1, <2>2 DEF CountInv
  <2> QED
    BY <2>1, <2>2, <2>3, SizeNext
<1>3. IInv => SizeExact
  BY SizeInvExact DEF SizeExact, CountInv
<1> QED
  BY <1>1, <1>2, <1>3, TypeCorrect, PTL DEF Spec
=============================================================================
