---------------------------- MODULE PrivacyProofs ----------------------------
(***************************************************************************)
(* Safety of Privacy for any subjects, any calls at once and any deadline: *)
(* the registers are well typed, the consent sync is idempotent for        *)
(* everyone it found, and answers made of several statements are never     *)
(* absurd.                                                                 *)
(***************************************************************************)
EXTENDS Privacy, FiniteSetTheorems, TLAPS

----------------------------------------------------------------------------
(* Typing *)

\* What the calls keep is there for each of them.
Shape ==
    /\ Active \subseteq Calls
    /\ inserts \in [Active -> SUBSET (Active \X subjects)]
    /\ found = [r \in Active |-> found[r]]
    /\ past = [r \in Active |-> past[r]]

\* The date that a call computes before its statement writes it.
Computed ==
    \A r \in Active :
        /\ At(r, "create", 2) => found[r].due \in DueDays..(LastDay + DueDays)
        /\ At(r, "update", 2) =>
            /\ found[r].resolved \in {Never} \cup 0..LastDay
            /\ found[r].resolved # Never <=> Ask[r].status \in Resolved

TypeInv == TypeOK /\ Shape /\ Computed

LEMMA InitTypeInv == Init => TypeInv
<1>. SUFFICES ASSUME Init
              PROVE  TypeInv
  OBVIOUS
<1>1. PICK load \in Loads : /\ pc = [r \in load |-> New]
                            /\ inserts = [r \in load |-> {}]
                            /\ found = [r \in load |-> Empty]
                            /\ past = [r \in load |-> Empty]
  BY DEF Init
<1>2. Active = load /\ load \subseteq Calls
  BY <1>1, CallsAssumption DEF Active
<1>3. Shape
  BY <1>1, <1>2 DEF Shape
<1>4. requests = Empty /\ DOMAIN requests = {}
  BY DEF Init, Empty
<1>5. TypeOK
  <2>1. requests \in [DOMAIN requests -> Request]
    BY <1>4 DEF Empty
  <2>2. pc \in [Active -> New..Failed]
    BY <1>1, <1>2 DEF New, Failed
  <2>3. day \in 0..LastDay /\ subjects \subseteq Subjects /\ consents = {}
    BY DaysAssumption, SubjectAssumption DEF Init
  <2>. QED
    BY <1>1, <1>2, <1>4, <2>1, <2>2, <2>3 DEF TypeOK
<1>6. Computed
  BY <1>1, <1>2 DEF Computed, At, New
<1>. QED
  BY <1>3, <1>5, <1>6 DEF TypeInv

\* A call that goes on leaves the others where they are.
LEMMA Moves ==
    ASSUME TypeInv, NEW r \in Active, NEW place \in New..Failed, Goto(r, place)
    PROVE  /\ Active' = Active
           /\ pc' \in [Active -> New..Failed] /\ pc'[r] = place
           /\ \A q \in Active : q # r => pc'[q] = pc[q]
BY DEF TypeInv, TypeOK, Goto, Active

\* What it notes leaves the notes of the others alone, and its own older ones.
LEMMA Notes ==
    ASSUME TypeInv, NEW r \in Active, NEW data, Found(r, data)
    PROVE  /\ found' = [q \in Active |-> found'[q]]
           /\ \A q \in Active : q # r => found'[q] = found[q]
           /\ \A x \in DOMAIN data : found'[r][x] = data[x]
BY DEF TypeInv, Shape, Found, Merge

\* The steps of call r.
Reads(r) == KpiRead(r) \/ AnswerCreate(r) \/ ReadRequests(r) \/ ReadCard(r) \/ ReadRegister(r)

Computes(r) == ComputeDue(r) \/ ResolveTime(r)

LEMMA ReadsGoOn ==
    ASSUME TypeInv, NEW r \in Active, Reads(r)
    PROVE  /\ \E place \in New..Failed : Goto(r, place)
           /\ found' = [q \in Active |-> found'[q]]
           /\ \A q \in Active : q # r => found'[q] = found[q]
           /\ pc'[r] = 2 => Ask[r].kind \in {"kpi", "card"}
           /\ Ask[r].kind # "sync" /\ pc[r] # New
           /\ UNCHANGED <<day, subjects, consents, requests, inserts, past>>
<1>. USE DEF At, New, Ok, Failed
<1>0. DOMAIN pc = Active /\ pc \in [Active -> 0..8]
  BY DEF TypeInv, TypeOK, Active
<1>1. CASE KpiRead(r)
  <2>1. PICK place \in New..Failed : Goto(r, place) /\ (place = 6 \/ place = pc[r] + 1)
    BY <1>1, <1>0 DEF KpiRead
  <2>. QED
    BY <1>1, <2>1, <1>0, Moves, Notes DEF KpiRead
<1>2. CASE AnswerCreate(r)
  BY <1>2, <1>0, Moves, Notes DEF AnswerCreate
<1>3. CASE ReadRequests(r)
  BY <1>3, <1>0, Moves, Notes DEF ReadRequests
<1>4. CASE ReadCard(r)
  <2>1. PICK place \in New..Failed : Goto(r, place) /\ (place = 6 \/ place = pc[r] + 1)
    BY <1>4, <1>0 DEF ReadCard
  <2>. QED
    BY <1>4, <2>1, <1>0, Moves, Notes DEF ReadCard
<1>5. CASE ReadRegister(r)
  BY <1>5, <1>0, Moves, Notes DEF ReadRegister
<1>. QED
  BY <1>1, <1>2, <1>3, <1>4, <1>5 DEF Reads

\* The sets that make up the registers, and the places of the calls.
LEMMA NextTypeOK == TypeInv /\ [Next]_vars => TypeOK'
<1>. SUFFICES ASSUME TypeInv, [Next]_vars
              PROVE  TypeOK'
  OBVIOUS
<1>0. /\ TypeOK /\ Shape /\ DOMAIN pc = Active /\ pc \in [Active -> New..Failed]
      /\ \A r \in Active : r \in Calls
  BY DEF TypeInv, TypeOK, Shape, Active
<1>. USE <1>0 DEF At, New, Ok, NotFound, Failed
<1>1. ASSUME NEW r \in Active, Arrive(r)
      PROVE  TypeOK'
  BY <1>1, Moves DEF Arrive, TypeOK
<1>2. ASSUME NEW r \in Active, ImportSubject(r)
      PROVE  TypeOK'
  BY <1>2, Moves, AskAssumption DEF ImportSubject, TypeOK
<1>3. CASE Midnight
  BY <1>3, DaysAssumption DEF Midnight, TypeOK, Active
<1>4. ASSUME NEW r \in Active, SyncInsert(r)
      PROVE  TypeOK'
  <2>1. \A q \in Active : q # r => inserts'[q] = inserts[q]
    BY <1>4 DEF SyncInsert, Shape
  <2>. QED
    BY <1>4, <2>1, Moves DEF SyncInsert, TypeOK
<1>5. ASSUME NEW r \in Active, SyncCommit(r)
      PROVE  TypeOK'
  <2>1. inserts'[r] = {} /\ \A q \in Active : q # r => inserts'[q] = inserts[q]
    BY <1>5 DEF SyncCommit, Shape
  <2>2. consents' \subseteq Active \X subjects
    BY <1>5 DEF SyncCommit, Shape, TypeOK
  <2>. QED
    BY <1>5, <2>1, <2>2, Moves DEF SyncCommit, TypeOK
<1>6. ASSUME NEW r \in Active, SyncLost(r)
      PROVE  TypeOK'
  <2>1. inserts'[r] = {} /\ \A q \in Active : q # r => inserts'[q] = inserts[q]
    BY <1>6 DEF SyncLost, Shape
  <2>. QED
    BY <1>6, <2>1, Moves DEF SyncLost, TypeOK
<1>7. ASSUME NEW r \in Active, Reads(r)
      PROVE  TypeOK'
  <2>1. PICK place \in New..Failed : Goto(r, place)
    BY <1>7, ReadsGoOn
  <2>2. pc'[r] = place /\ \A q \in Active : q # r => pc'[q] = pc[q]
    BY <2>1, Moves
  <2>3. Ask[r].kind # "sync"
    BY <1>7, ReadsGoOn
  <2>. QED
    BY <1>7, <2>1, <2>2, <2>3, Moves, ReadsGoOn DEF TypeOK
<1>8. ASSUME NEW r \in Active, Computes(r)
      PROVE  TypeOK'
  BY <1>8, Moves DEF Computes, ComputeDue, ResolveTime, TypeOK
<1>9. ASSUME NEW r \in Active, CreateRequest(r)
      PROVE  TypeOK'
  <2>. DEFINE row == [subject |-> Ask[r].subject, type |-> Ask[r].type, status |-> "new",
                      due |-> found[r].due, resolved |-> Never]
  <2>1. found[r].due \in DueDays..(LastDay + DueDays)
    BY <1>9 DEF CreateRequest, TypeInv, Computed
  <2>2. row \in Request /\ row.resolved = Never /\ row.status = "new"
    BY <1>9, <2>1, AskAssumption DEF CreateRequest, Request, Open
  <2>3. requests' = [q \in {r} \cup DOMAIN requests |-> IF q = r THEN row ELSE requests[q]]
    BY <1>9 DEF CreateRequest, Merge
  <2>4. DOMAIN requests' = {r} \cup DOMAIN requests
    BY <2>3
  <2>. HIDE DEF row
  <2>5. DOMAIN requests' \subseteq Active /\ requests' \in [DOMAIN requests' -> Request]
    BY <2>2, <2>3, <2>4 DEF TypeOK
  <2>6. \A q \in DOMAIN requests' : requests'[q].resolved # Never <=> requests'[q].status \in Resolved
    BY <2>2, <2>3, <2>4 DEF TypeOK, Resolved
  <2>. QED
    BY <1>9, <2>5, <2>6, Moves DEF CreateRequest, TypeOK
<1>10. ASSUME NEW r \in Active, UpdateStatus(r)
       PROVE  TypeOK'
  <2>1. /\ found[r].resolved \in {Never} \cup 0..LastDay
        /\ found[r].resolved # Never <=> Ask[r].status \in Resolved
        /\ Ask[r].status \in Open \cup Resolved
    BY <1>10, AskAssumption DEF UpdateStatus, TypeInv, Computed
  <2>2. \A row \in Request :
          /\ Updated(r, row) \in Request
          /\ Updated(r, row).resolved # Never <=> Updated(r, row).status \in Resolved
    BY <2>1 DEF Updated, Request
  <2>3. /\ DOMAIN requests' = DOMAIN requests
        /\ requests' = [q \in DOMAIN requests |->
                           IF q = Ask[r].request THEN Updated(r, requests[q]) ELSE requests[q]]
    BY <1>10 DEF UpdateStatus
  <2>4. DOMAIN requests' \subseteq Active /\ requests' \in [DOMAIN requests' -> Request]
    BY <2>2, <2>3 DEF TypeOK
  <2>5. \A q \in DOMAIN requests' : requests'[q].resolved # Never <=> requests'[q].status \in Resolved
    BY <2>2, <2>3 DEF TypeOK
  <2>6. PICK place \in New..Failed : Goto(r, place)
    BY <1>10 DEF UpdateStatus
  <2>. QED
    BY <1>10, <2>4, <2>5, <2>6, Moves DEF UpdateStatus, TypeOK
<1>11. CASE UNCHANGED vars
  BY <1>11 DEF vars, TypeOK, Active
<1>. QED
  BY <1>1, <1>2, <1>3, <1>4, <1>5, <1>6, <1>7, <1>8, <1>9, <1>10, <1>11
     DEF Next, Reads, Computes

LEMMA NextShape == TypeInv /\ [Next]_vars => Shape'
<1>. SUFFICES ASSUME TypeInv, [Next]_vars
              PROVE  Shape'
  OBVIOUS
<1>0. /\ Shape /\ DOMAIN pc = Active /\ pc \in [Active -> New..Failed]
      /\ \A r \in Active : r \in Calls
  BY DEF TypeInv, TypeOK, Shape, Active
<1>. USE <1>0 DEF At, New, Ok, NotFound, Failed
<1>1. ASSUME NEW r \in Active, Arrive(r)
      PROVE  Shape'
  <2>. DEFINE memory == [subjects |-> subjects, consents |-> consents, requests |-> DOMAIN requests,
                         answered |-> {q \in Active : pc[q] = Ok}]
  <2>1. past' = [past EXCEPT ![r] = memory]
    BY <1>1 DEF Arrive
  <2>2. DOMAIN past = Active
    BY DEF Shape
  <2>. HIDE DEF memory
  <2>3. past' = [q \in Active |-> past'[q]]
    BY <2>1, <2>2
  <2>4. Active' = Active /\ UNCHANGED <<subjects, inserts, found>>
    BY <1>1, Moves DEF Arrive
  <2>. QED
    BY <2>3, <2>4 DEF Shape
<1>2. ASSUME NEW r \in Active, ImportSubject(r)
      PROVE  Shape'
  BY <1>2, Moves DEF ImportSubject, Shape
<1>3. ASSUME NEW r \in Active, SyncInsert(r)
      PROVE  Shape'
  BY <1>3, Moves DEF SyncInsert, Shape, LackingConsent
<1>4. ASSUME NEW r \in Active, SyncCommit(r)
      PROVE  Shape'
  BY <1>4, Moves, Notes DEF SyncCommit, Shape
<1>5. ASSUME NEW r \in Active, SyncLost(r)
      PROVE  Shape'
  BY <1>5, Moves DEF SyncLost, Shape
<1>6. ASSUME NEW r \in Active, Reads(r)
      PROVE  Shape'
  BY <1>6, Moves, ReadsGoOn DEF Shape
<1>7. ASSUME NEW r \in Active, Computes(r)
      PROVE  Shape'
  BY <1>7, Moves, Notes DEF Computes, ComputeDue, ResolveTime, Shape
<1>8. ASSUME NEW r \in Active, CreateRequest(r)
      PROVE  Shape'
  BY <1>8, Moves DEF CreateRequest, Shape
<1>9. ASSUME NEW r \in Active, UpdateStatus(r)
      PROVE  Shape'
  BY <1>9, Moves DEF UpdateStatus, Shape
<1>10. CASE UNCHANGED <<subjects, pc, inserts, found, past>>
  BY <1>10 DEF Shape, Active
<1>. QED
  BY <1>1, <1>2, <1>3, <1>4, <1>5, <1>6, <1>7, <1>8, <1>9, <1>10
     DEF Next, vars, Reads, Computes, Midnight

\* Only ComputeDue and ResolveTime bring a create or an update to its write.
LEMMA NextComputed == TypeInv /\ [Next]_vars => Computed'
<1>. SUFFICES ASSUME TypeInv, [Next]_vars
              PROVE  Computed'
  OBVIOUS
<1>0. /\ Computed /\ DOMAIN pc = Active /\ pc \in [Active -> New..Failed]
      /\ \A r \in Active : r \in Calls
  BY DEF TypeInv, TypeOK, Shape, Active
<1>1. CASE UNCHANGED <<pc, found>>
  BY <1>0, <1>1 DEF Computed, At, Active
<1>2. ASSUME NEW r \in Active,
             \E place \in New..Failed : Goto(r, place),
             \A q \in Active : q # r => found'[q] = found[q],
             pc'[r] = 2 => Ask[r].kind \notin {"create", "update"}
      PROVE  Computed'
  BY <1>0, <1>2, Moves DEF Computed, At
<1>. USE <1>0 DEF At, New, Ok, NotFound, Failed
<1>3. ASSUME NEW r \in Active, Arrive(r) \/ ImportSubject(r) \/ SyncInsert(r) \/ SyncLost(r)
                              \/ CreateRequest(r) \/ UpdateStatus(r)
      PROVE  Computed'
  <2>1. PICK place \in New..Failed : Goto(r, place) /\ (place = 2 => At(r, "sync", 1))
    BY <1>3 DEF Arrive, ImportSubject, SyncInsert, SyncLost, CreateRequest, UpdateStatus
  <2>2. UNCHANGED found
    BY <1>3 DEF Arrive, ImportSubject, SyncInsert, SyncLost, CreateRequest, UpdateStatus
  <2>. QED
    BY <1>2, <2>1, <2>2, Moves
<1>4. ASSUME NEW r \in Active, SyncCommit(r)
      PROVE  Computed'
  BY <1>2, <1>4, Moves, Notes DEF SyncCommit
<1>5. ASSUME NEW r \in Active, Reads(r)
      PROVE  Computed'
  BY <1>2, <1>5, ReadsGoOn
<1>6. ASSUME NEW r \in Active, ComputeDue(r)
      PROVE  Computed'
  <2>1. found'[r].due = day + DueDays /\ \A q \in Active : q # r => found'[q] = found[q]
    BY <1>6, Notes DEF ComputeDue
  <2>2. day + DueDays \in DueDays..(LastDay + DueDays)
    BY DaysAssumption DEF TypeInv, TypeOK
  <2>. QED
    BY <1>6, <2>1, <2>2, Moves DEF ComputeDue, Computed
<1>7. ASSUME NEW r \in Active, ResolveTime(r)
      PROVE  Computed'
  <2>1. /\ found'[r].resolved = IF Ask[r].status \in Resolved THEN day ELSE Never
        /\ \A q \in Active : q # r => found'[q] = found[q]
    BY <1>7, Notes DEF ResolveTime
  <2>2. day \in 0..LastDay /\ day # Never
    BY DaysAssumption DEF TypeInv, TypeOK, Never
  <2>. QED
    BY <1>7, <2>1, <2>2, Moves DEF ResolveTime, Computed
<1>. QED
  BY <1>1, <1>3, <1>4, <1>5, <1>6, <1>7 DEF Next, vars, Reads, Midnight

THEOREM TypeInvHolds == Spec => []TypeInv
<1>1. TypeInv /\ [Next]_vars => TypeInv'
  BY NextTypeOK, NextShape, NextComputed DEF TypeInv
<1>. QED
  BY InitTypeInv, <1>1, PTL DEF Spec

\* Consents name people there are, and a request has a resolution date exactly while
\* it is resolved, however updates, reopenings and imports interleave.
THEOREM RegistersTyped == Spec => []TypeOK
BY TypeInvHolds, PTL DEF TypeInv

----------------------------------------------------------------------------
(* The consent sync *)

\* What a call remembers is still there.
PastKept ==
    \A r \in Active : pc[r] # New =>
        past[r].subjects \subseteq subjects /\ past[r].consents \subseteq consents

\* Consents are rows of syncs that committed.
ConsentsCommitted ==
    \A c \in consents : Ask[c[1]].kind = "sync" /\ pc[c[1]] = Ok

\* An open sync has a row for everyone it found without a consent, and for nobody
\* whose consent was there before it.
InsertsComplete ==
    \A r \in Active : At(r, "sync", 2) =>
        /\ past[r].subjects \subseteq Covered \cup {c[2] : c \in inserts[r]}
        /\ \A c \in inserts[r] : c[1] = r /\ \A d \in past[r].consents : d[2] # c[2]

ConsentInv == PastKept /\ ConsentsCommitted /\ InsertsComplete /\ ConsentsCover

LEMMA InitConsentInv == Init => ConsentInv
<1>. SUFFICES ASSUME Init
              PROVE  ConsentInv
  OBVIOUS
<1>1. consents = {} /\ \A r \in Active : pc[r] = New
  BY DEF Init, Active
<1>. QED
  BY <1>1 DEF ConsentInv, PastKept, ConsentsCommitted, InsertsComplete, ConsentsCover, Answered,
              At, New, Ok

LEMMA NextConsentInv == TypeInv /\ ConsentInv /\ [Next]_vars => ConsentInv'
<1>. SUFFICES ASSUME TypeInv, ConsentInv, [Next]_vars
              PROVE  ConsentInv'
  OBVIOUS
<1>0. /\ DOMAIN pc = Active /\ pc \in [Active -> New..Failed]
      /\ consents \subseteq Active \X subjects
      /\ Shape
  BY DEF TypeInv, TypeOK, Active
<1>. USE <1>0 DEF ConsentInv
<1>1. CASE UNCHANGED <<subjects, consents, pc, inserts, found, past>>
  <2>1. PastKept' /\ ConsentsCommitted' /\ InsertsComplete'
    BY <1>1 DEF PastKept, ConsentsCommitted, InsertsComplete, Covered, At, Active
  <2>2. Answered("sync")' = Answered("sync") /\ Covered' = Covered
    BY <1>1 DEF Answered, Covered, Active
  <2>. QED
    BY <1>1, <2>1, <2>2 DEF ConsentsCover
\* Steps that do not touch the consents.
<1>2. ASSUME NEW r \in Active,
             Ask[r].kind # "sync", pc[r] # New,
             \E place \in New..Failed : Goto(r, place),
             \A q \in Active : q # r => found'[q] = found[q],
             subjects \subseteq subjects', UNCHANGED <<consents, inserts, past>>
      PROVE  ConsentInv'
  <2>1. Active' = Active /\ \A q \in Active : q # r => pc'[q] = pc[q]
    BY <1>2, Moves
  <2>2. PastKept'
    BY <1>2, <2>1 DEF PastKept
  <2>3. ConsentsCommitted'
    BY <1>2, <2>1 DEF ConsentsCommitted
  <2>4. InsertsComplete'
    BY <1>2, <2>1 DEF InsertsComplete, At, Covered
  <2>5. ConsentsCover'
    BY <1>2, <2>1 DEF ConsentsCover, Answered, Covered
  <2>. QED
    BY <2>2, <2>3, <2>4, <2>5
<1>3. ASSUME NEW r \in Active, Reads(r)
      PROVE  ConsentInv'
  BY <1>2, <1>3, ReadsGoOn
<1>4. ASSUME NEW r \in Active, ImportSubject(r) \/ Computes(r) \/ CreateRequest(r) \/ UpdateStatus(r)
      PROVE  ConsentInv'
  <2>1. Ask[r].kind # "sync" /\ pc[r] # New
    BY <1>4 DEF ImportSubject, Computes, ComputeDue, ResolveTime, CreateRequest, UpdateStatus, At, New
  <2>2. \E place \in New..Failed : Goto(r, place)
    BY <1>4 DEF ImportSubject, Computes, ComputeDue, ResolveTime, CreateRequest, UpdateStatus,
                New, Ok, NotFound, Failed
  <2>3. \A q \in Active : q # r => found'[q] = found[q]
    BY <1>4, Notes DEF ImportSubject, Computes, ComputeDue, ResolveTime, CreateRequest, UpdateStatus
  <2>4. subjects \subseteq subjects' /\ UNCHANGED <<consents, inserts, past>>
    BY <1>4 DEF ImportSubject, Computes, ComputeDue, ResolveTime, CreateRequest, UpdateStatus
  <2>. QED
    BY <1>2, <2>1, <2>2, <2>3, <2>4
<1>5. ASSUME NEW r \in Active, Arrive(r)
      PROVE  ConsentInv'
  <2>1. /\ Active' = Active /\ pc[r] = 0 /\ pc'[r] = 1
        /\ \A q \in Active : q # r => pc'[q] = pc[q]
        /\ UNCHANGED <<subjects, consents, inserts, found>>
    BY <1>5, Moves DEF Arrive, New, Failed
  <2>2. /\ past'[r].subjects = subjects /\ past'[r].consents = consents
        /\ \A q \in Active : q # r => past'[q] = past[q]
    BY <1>5 DEF Arrive, Shape
  <2>3. \A c \in consents : c[1] # r
    BY <2>1 DEF ConsentsCommitted, Ok
  <2>4. PastKept'
    BY <2>1, <2>2 DEF PastKept
  <2>5. ConsentsCommitted'
    BY <2>1, <2>3 DEF ConsentsCommitted
  <2>6. InsertsComplete'
    BY <2>1, <2>2 DEF InsertsComplete, At, Covered
  <2>7. ConsentsCover'
    <3>1. \A c \in consents : past'[c[1]] = past[c[1]]
      BY <2>2, <2>3
    <3>2. Answered("sync")' = Answered("sync") /\ r \notin Answered("sync")
      BY <2>1 DEF Answered, Ok
    <3>. QED
      BY <2>1, <2>2, <3>1, <3>2 DEF ConsentsCover, Covered, Answered
  <2>. QED
    BY <2>4, <2>5, <2>6, <2>7
<1>6. ASSUME NEW r \in Active, SyncInsert(r)
      PROVE  ConsentInv'
  <2>1. /\ Active' = Active /\ At(r, "sync", 1) /\ pc'[r] = 2
        /\ \A q \in Active : q # r => pc'[q] = pc[q]
        /\ UNCHANGED <<subjects, consents, found, past>>
    BY <1>6, Moves DEF SyncInsert, New, Failed
  <2>2. /\ inserts'[r] = {<<r, s>> : s \in LackingConsent}
        /\ \A q \in Active : q # r => inserts'[q] = inserts[q]
    BY <1>6 DEF SyncInsert, Shape
  <2>3. past[r].subjects \subseteq subjects /\ past[r].consents \subseteq consents
    BY <2>1 DEF PastKept, At, New
  <2>4. \A s \in subjects : s \in Covered \/ \E c \in inserts'[r] : c[2] = s
    <3>1. ASSUME NEW s \in subjects, s \notin Covered
          PROVE  \E c \in inserts'[r] : c[2] = s
      <4>1. <<r, s>> \in inserts'[r] /\ <<r, s>>[2] = s
        BY <2>2, <3>1 DEF LackingConsent
      <4>. QED
        BY <4>1
    <3>. QED
      BY <3>1
  <2>5. \A c \in inserts'[r] : c[1] = r /\ c[2] \notin Covered
    BY <2>2 DEF LackingConsent
  <2>6. InsertsComplete'
    <3>1. ASSUME NEW q \in Active, q # r, At(q, "sync", 2)'
          PROVE  /\ past'[q].subjects \subseteq Covered' \cup {c[2] : c \in inserts'[q]}
                 /\ \A c \in inserts'[q] : c[1] = q /\ \A d \in past'[q].consents : d[2] # c[2]
      BY <2>1, <2>2, <3>1 DEF InsertsComplete, At, Covered
    <3>2. /\ past'[r].subjects \subseteq Covered' \cup {c[2] : c \in inserts'[r]}
          /\ \A c \in inserts'[r] : c[1] = r /\ \A d \in past'[r].consents : d[2] # c[2]
      BY <2>1, <2>3, <2>4, <2>5 DEF Covered
    <3>. QED
      BY <2>1, <3>1, <3>2 DEF InsertsComplete
  <2>7. PastKept' /\ ConsentsCommitted'
    BY <2>1 DEF PastKept, ConsentsCommitted, At, New, Ok
  <2>8. ConsentsCover'
    <3>1. Answered("sync")' = Answered("sync")
      BY <2>1 DEF Answered, At, Ok
    <3>. QED
      BY <2>1, <3>1 DEF ConsentsCover, Covered
  <2>. QED
    BY <2>6, <2>7, <2>8
<1>7. ASSUME NEW r \in Active, SyncLost(r)
      PROVE  ConsentInv'
  <2>1. /\ Active' = Active /\ At(r, "sync", 2) /\ pc'[r] = 8
        /\ \A q \in Active : q # r => pc'[q] = pc[q] /\ inserts'[q] = inserts[q]
        /\ UNCHANGED <<subjects, consents, found, past>>
    BY <1>7, Moves DEF SyncLost, Shape, New, Failed
  <2>2. InsertsComplete'
    BY <2>1 DEF InsertsComplete, At, Covered
  <2>3. PastKept' /\ ConsentsCommitted'
    BY <2>1 DEF PastKept, ConsentsCommitted, At, New, Ok
  <2>4. ConsentsCover'
    <3>1. Answered("sync")' = Answered("sync")
      BY <2>1 DEF Answered, At, Ok
    <3>. QED
      BY <2>1, <3>1 DEF ConsentsCover, Covered
  <2>. QED
    BY <2>2, <2>3, <2>4
<1>8. ASSUME NEW r \in Active, SyncCommit(r)
      PROVE  ConsentInv'
  <2>1. /\ Active' = Active /\ At(r, "sync", 2) /\ pc'[r] = 6
        /\ \A q \in Active : q # r => pc'[q] = pc[q]
        /\ \A q \in Active : q # r => inserts'[q] = inserts[q]
        /\ consents' = consents \cup inserts[r]
        /\ UNCHANGED <<subjects, past>>
    BY <1>8, Moves DEF SyncCommit, Shape, New, Ok, Failed
  <2>2. /\ found'[r].created = Cardinality(inserts[r])
        /\ \A q \in Active : q # r => found'[q] = found[q]
    BY <1>8, Notes DEF SyncCommit
  <2>3. \A c \in consents : c[1] # r
    BY <2>1 DEF ConsentsCommitted, At, Ok
  <2>4. \A c \in inserts[r] : c[1] = r /\ \A d \in past[r].consents : d[2] # c[2]
    BY <2>1 DEF InsertsComplete
  <2>5. Covered' = Covered \cup {c[2] : c \in inserts[r]}
    BY <2>1 DEF Covered
  <2>6. PastKept'
    BY <2>1 DEF PastKept, At, New
  <2>7. ConsentsCommitted'
    BY <2>1, <2>3, <2>4 DEF ConsentsCommitted, At, Ok
  <2>8. InsertsComplete'
    BY <2>1, <2>5 DEF InsertsComplete, At
  <2>9. ASSUME NEW q \in Answered("sync")'
        PROVE  /\ past'[q].subjects \subseteq Covered'
               /\ found'[q].created = Cardinality({c \in consents' : c[1] = q})
    <3>1. CASE q = r
      <4>1. {c \in consents' : c[1] = r} = inserts[r]
        BY <2>1, <2>3, <2>4
      <4>2. past[r].subjects \subseteq Covered'
        BY <2>1, <2>5 DEF InsertsComplete
      <4>. QED
        BY <2>1, <2>2, <3>1, <4>1, <4>2
    <3>2. CASE q # r
      <4>1. q \in Answered("sync")
        BY <2>1, <3>2 DEF Answered
      <4>2. {c \in consents' : c[1] = q} = {c \in consents : c[1] = q}
        BY <2>1, <2>4, <3>2
      <4>3. q \in Active
        BY <4>1 DEF Answered
      <4>. QED
        BY <2>1, <2>2, <2>5, <3>2, <4>1, <4>2, <4>3 DEF ConsentsCover
    <3>. QED
      BY <3>1, <3>2
  <2>10. ASSUME NEW c \in consents', NEW d \in consents', c # d, c[2] = d[2]
         PROVE  c \notin past[d[1]].consents
    <3>1. CASE c \in consents /\ d \in consents
      BY <2>10, <3>1 DEF ConsentsCover
    <3>2. CASE d \in inserts[r]
      BY <2>4, <2>10, <3>2
    <3>3. CASE c \in inserts[r] /\ d \in consents
      <4>1. d[1] \in Active /\ pc[d[1]] # New
        BY <3>3 DEF ConsentsCommitted, Ok, New
      <4>2. past[d[1]].consents \subseteq consents
        BY <4>1 DEF PastKept
      <4>. QED
        BY <2>3, <2>4, <3>3, <4>2
    <3>. QED
      BY <2>1, <3>1, <3>2, <3>3
  <2>11. ConsentsCover'
    BY <2>1, <2>9, <2>10 DEF ConsentsCover
  <2>. QED
    BY <2>6, <2>7, <2>8, <2>11
<1>. QED
  BY <1>1, <1>3, <1>4, <1>5, <1>6, <1>7, <1>8 DEF Next, vars, Reads, Computes, Midnight

THEOREM ConsentInvHolds == Spec => []ConsentInv
<1>1. TypeInv /\ ConsentInv /\ [Next]_vars => ConsentInv'
  BY NextConsentInv
<1>. QED
  BY TypeInvHolds, InitConsentInv, <1>1, PTL DEF Spec

\* sync_consents is idempotent: whatever syncs and imports run at once, everyone a
\* finished sync found has a consent, it reports exactly the rows it made, and two
\* consents of one person come only from syncs that overlapped.
THEOREM SyncCoversEveryone == Spec => []ConsentsCover
BY ConsentInvHolds, PTL DEF ConsentInv

----------------------------------------------------------------------------
(* Answers made of several statements *)

\* A request is there once its call has written it, about whom the call named.
OwnRequest(q) ==
    /\ Ask[q].kind = "create" /\ pc[q] \in {3, Ok}
    /\ requests[q].subject = Ask[q].subject

\* What was there when the call arrived still is.
PastTrue(r) ==
    pc[r] # New =>
        past[r].requests \subseteq DOMAIN requests /\ past[r].answered \subseteq {q \in Active : pc[q] = Ok}

\* The figures of the KPI follow each other: consents only grow.
KpiTrue(r) ==
    LET f == found[r]
    IN  /\ pc[r] \in 2..5 =>
            /\ {"total", "missing"} \subseteq DOMAIN f
            /\ f.total \in Nat /\ f.missing \in Nat
            /\ f.missing <= f.total /\ f.total - f.missing <= Cardinality(Covered)
        /\ pc[r] \in 3..5 =>
            "consents" \in DOMAIN f /\ f.consents \in Nat /\ f.consents <= Cardinality(consents)
        /\ pc[r] \in 4..5 =>
            "granted" \in DOMAIN f /\ f.granted \in Nat /\ f.consents <= f.granted
        /\ pc[r] = 5 => "revoked" \in DOMAIN f /\ f.revoked = 0
        /\ pc[r] = Ok =>
            /\ 0 <= f.without /\ f.without <= f.missing
            /\ f.consents + f.revoked <= f.granted

\* The status some update that was not over when r came gives r's request.
Given(r, status) ==
    \E q \in Active \ past[r].answered :
        Ask[q].kind = "update" /\ Ask[q].request = Ask[r].request /\ Ask[q].status = status

UpdateTrue(r) ==
    LET id == Ask[r].request
    IN  /\ pc[r] = 3 => id \in DOMAIN requests /\ Given(r, requests[id].status)
        /\ pc[r] = Ok => \A item \in found[r].items : Given(r, item.status)

CardTrue(r) ==
    /\ pc[r] \in {3, Ok} =>
        {c \in past[r].consents : c[2] = Ask[r].subject} \subseteq found[r].consents
    /\ pc[r] = 3 => "consents" \in DOMAIN found[r]
    /\ pc[r] = Ok =>
        {q \in past[r].requests : Ask[q].subject = Ask[r].subject}
            \subseteq {item.id : item \in found[r].items}

ItemsTrue(r) == pc[r] = Ok => \A item \in found[r].items : Deadline(item)

TruthInv ==
    /\ \A q \in DOMAIN requests : OwnRequest(q)
    /\ \A r \in Active :
        /\ PastTrue(r)
        /\ Ask[r].kind = "kpi" => KpiTrue(r)
        /\ Ask[r].kind = "update" => UpdateTrue(r)
        /\ Ask[r].kind = "card" => CardTrue(r)
        /\ Ask[r].kind \in {"update", "requests", "card"} => ItemsTrue(r)

LEMMA TruthInvSuffices == TypeInv /\ TruthInv => AnswersTruthful
<1>. SUFFICES ASSUME TypeInv, TruthInv
              PROVE  AnswersTruthful
  OBVIOUS
<1>. USE DEF Answered, TruthInv, New, Ok
<1>1. ASSUME NEW r \in Answered("kpi")
      PROVE  /\ 0 <= found[r].without /\ found[r].without <= found[r].missing
             /\ found[r].consents + found[r].revoked <= found[r].granted
  BY DEF KpiTrue
<1>2. ASSUME NEW r \in Answered("update"), NEW item \in found[r].items
      PROVE  Given(r, item.status)
  BY DEF UpdateTrue
<1>3. ASSUME NEW r \in Answered("card")
      PROVE  /\ {c \in past[r].consents : c[2] = Ask[r].subject} \subseteq found[r].consents
             /\ {q \in past[r].requests : requests[q].subject = Ask[r].subject}
                    \subseteq {item.id : item \in found[r].items}
  <2>1. \A q \in past[r].requests : requests[q].subject = Ask[q].subject
    BY DEF PastTrue, OwnRequest
  <2>. QED
    BY <2>1 DEF CardTrue
<1>4. ASSUME NEW r \in Answered("update") \cup Answered("requests") \cup Answered("card"),
             NEW item \in found[r].items
      PROVE  Deadline(item)
  BY DEF ItemsTrue
<1>. QED
  BY <1>1, <1>2, <1>3, <1>4 DEF AnswersTruthful, Given

LEMMA InitTruthInv == Init => TruthInv
<1>. SUFFICES ASSUME Init
              PROVE  TruthInv
  OBVIOUS
<1>1. requests = Empty /\ DOMAIN requests = {} /\ \A r \in Active : pc[r] = New
  BY DEF Init, Empty, Active
<1>. QED
  BY <1>1 DEF TruthInv, PastTrue, KpiTrue, UpdateTrue, CardTrue, ItemsTrue, New, Ok

\* A call stands still, or takes a step of its own.
Stands(r) == pc'[r] = pc[r] /\ found'[r] = found[r] /\ past'[r] = past[r]

Acts(r) ==
    \/ Arrive(r) \/ ImportSubject(r)
    \/ SyncInsert(r) \/ SyncCommit(r) \/ SyncLost(r) \/ KpiRead(r)
    \/ ComputeDue(r) \/ CreateRequest(r) \/ AnswerCreate(r)
    \/ ResolveTime(r) \/ UpdateStatus(r) \/ ReadRequests(r)
    \/ ReadCard(r) \/ ReadRegister(r)

LEMMA ActsAlone ==
    ASSUME TypeInv, NEW r \in Active, Acts(r)
    PROVE  /\ Active' = Active /\ \A q \in Active : q # r => Stands(q)
           /\ pc[r] # Ok /\ pc'[r] # New
           /\ pc[r] # New => past'[r] = past[r]
<1>. USE DEF At, New, Ok, NotFound, Failed
<1>0. DOMAIN pc = Active /\ pc \in [Active -> 0..8] /\ Shape
  BY DEF TypeInv, TypeOK, Active
<1>1. CASE Arrive(r)
  <2>1. pc[r] = 0 /\ pc'[r] = 1 /\ Active' = Active /\ \A q \in Active : q # r => pc'[q] = pc[q]
    BY <1>1, Moves DEF Arrive
  <2>2. found' = found /\ \A q \in Active : q # r => past'[q] = past[q]
    BY <1>0, <1>1 DEF Arrive, Shape
  <2>. QED
    BY <2>1, <2>2 DEF Stands
<1>2. CASE Reads(r)
  <2>1. PICK place \in 1..6 : Goto(r, place)
    BY <1>0, <1>2 DEF Reads, KpiRead, AnswerCreate, ReadRequests, ReadCard, ReadRegister
  <2>2. pc[r] # 6
    BY <1>2 DEF Reads, KpiRead, AnswerCreate, ReadRequests, ReadCard, ReadRegister
  <2>. QED
    BY <1>2, <2>1, <2>2, Moves, ReadsGoOn DEF Stands
<1>3. CASE ComputeDue(r) \/ ResolveTime(r) \/ SyncCommit(r)
  BY <1>0, <1>3, Moves, Notes DEF Stands, ComputeDue, ResolveTime, SyncCommit
<1>4. CASE ImportSubject(r) \/ SyncInsert(r) \/ SyncLost(r) \/ CreateRequest(r)
  BY <1>0, <1>4, Moves DEF Stands, ImportSubject, SyncInsert, SyncLost, CreateRequest
<1>5. CASE UpdateStatus(r)
  <2>1. PICK place \in {3, 7} : Goto(r, place)
    BY <1>5 DEF UpdateStatus
  <2>. QED
    BY <1>0, <1>5, <2>1, Moves DEF Stands, UpdateStatus
<1>. QED
  BY <1>1, <1>2, <1>3, <1>4, <1>5 DEF Acts, Reads

LEMMA OneActs ==
    ASSUME TypeInv, [Next]_vars
    PROVE  Active' = Active /\ \A r \in Active : Stands(r) \/ Acts(r)
<1>1. CASE Midnight \/ UNCHANGED vars
  BY <1>1 DEF Midnight, vars, Stands, Active
<1>2. ASSUME NEW r \in Active, Acts(r)
      PROVE  Active' = Active /\ \A q \in Active : Stands(q) \/ Acts(q)
  BY <1>2, ActsAlone
<1>. QED
  BY <1>1, <1>2 DEF Next, Acts

\* The registers only grow, and a request keeps its subject.
LEMMA RegistersGrow ==
    ASSUME TypeInv, TruthInv, [Next]_vars
    PROVE  /\ consents \subseteq consents' /\ DOMAIN requests \subseteq DOMAIN requests'
           /\ \A q \in DOMAIN requests' : OwnRequest(q)'
<1>. USE DEF At, New, Ok, NotFound, Failed
<1>0. /\ DOMAIN requests \subseteq Active /\ Active' = Active
      /\ \A q \in DOMAIN requests : OwnRequest(q)
      /\ \A r \in Active : Stands(r) \/ Acts(r)
  BY OneActs DEF TypeInv, TypeOK, TruthInv
<1>1. ASSUME NEW q \in DOMAIN requests
      PROVE  pc'[q] \in {3, 6} /\ Ask[q].kind = "create"
  <2>1. Ask[q].kind = "create" /\ pc[q] \in {3, 6} /\ q \in Active
    BY <1>0 DEF OwnRequest
  <2>2. CASE Stands(q)
    BY <2>1, <2>2 DEF Stands
  <2>3. CASE Acts(q)
    <3>1. AnswerCreate(q)
      BY <2>1, <2>3 DEF Acts, Arrive, ImportSubject, SyncInsert, SyncCommit, SyncLost, KpiRead,
                        ComputeDue, CreateRequest, ResolveTime, UpdateStatus, ReadRequests,
                        ReadCard, ReadRegister
    <3>. QED
      BY <2>1, <3>1, Moves DEF AnswerCreate
  <2>. QED
    BY <1>0, <2>1, <2>2, <2>3
<1>2. ASSUME UNCHANGED requests
      PROVE  DOMAIN requests \subseteq DOMAIN requests' /\ \A q \in DOMAIN requests' : OwnRequest(q)'
  BY <1>0, <1>1, <1>2 DEF OwnRequest
<1>3. ASSUME NEW r \in Active, CreateRequest(r)
      PROVE  DOMAIN requests \subseteq DOMAIN requests' /\ \A q \in DOMAIN requests' : OwnRequest(q)'
  <2>. DEFINE row == [subject |-> Ask[r].subject, type |-> Ask[r].type, status |-> "new",
                      due |-> found[r].due, resolved |-> Never]
  <2>1. requests' = [q \in {r} \cup DOMAIN requests |-> IF q = r THEN row ELSE requests[q]]
    BY <1>3 DEF CreateRequest, Merge
  <2>2. row.subject = Ask[r].subject
    OBVIOUS
  <2>. HIDE DEF row
  <2>3. Ask[r].kind = "create" /\ pc'[r] = 3
    BY <1>3, Moves DEF CreateRequest
  <2>. QED
    BY <1>0, <1>1, <2>1, <2>2, <2>3 DEF OwnRequest
<1>4. ASSUME NEW r \in Active, UpdateStatus(r)
      PROVE  DOMAIN requests \subseteq DOMAIN requests' /\ \A q \in DOMAIN requests' : OwnRequest(q)'
  <2>1. /\ DOMAIN requests' = DOMAIN requests
        /\ \A q \in DOMAIN requests : requests'[q] = requests[q] \/ requests'[q] = Updated(r, requests[q])
    BY <1>4 DEF UpdateStatus
  <2>2. \A row \in Request : Updated(r, row).subject = row.subject
    BY DEF Updated, Request
  <2>3. \A q \in DOMAIN requests : requests'[q].subject = requests[q].subject
    BY <2>1, <2>2 DEF TypeInv, TypeOK
  <2>. QED
    BY <1>0, <1>1, <2>1, <2>3 DEF OwnRequest
<1>5. consents \subseteq consents'
  BY DEF Next, vars, Midnight, Arrive, ImportSubject, SyncInsert, SyncCommit, SyncLost, KpiRead,
         ComputeDue, CreateRequest, AnswerCreate, ResolveTime, UpdateStatus, ReadRequests,
         ReadCard, ReadRegister
<1>6. UNCHANGED requests \/ \E r \in Active : CreateRequest(r) \/ UpdateStatus(r)
  BY DEF Next, vars, Midnight, Arrive, ImportSubject, SyncInsert, SyncCommit, SyncLost, KpiRead,
         ComputeDue, AnswerCreate, ResolveTime, ReadRequests, ReadCard, ReadRegister
<1>. QED
  BY <1>2, <1>3, <1>4, <1>5, <1>6

LEMMA PastStays ==
    ASSUME TypeInv, TruthInv, [Next]_vars, NEW r \in Active
    PROVE  PastTrue(r)'
<1>1. /\ Active' = Active /\ \A q \in Active : Stands(q) \/ Acts(q)
      /\ DOMAIN requests \subseteq DOMAIN requests' /\ PastTrue(r)
  BY OneActs, RegistersGrow DEF TruthInv
<1>2. {q \in Active : pc[q] = Ok} \subseteq {q \in Active : pc'[q] = Ok}
  BY <1>1, ActsAlone DEF Stands
<1>3. CASE Arrive(r)
  <2>1. past'[r].requests = DOMAIN requests /\ past'[r].answered = {q \in Active : pc[q] = Ok}
    BY <1>3 DEF Arrive, TypeInv, Shape
  <2>. QED
    BY <1>1, <1>2, <2>1 DEF PastTrue
<1>4. CASE pc[r] # New
  <2>1. past'[r] = past[r]
    BY <1>1, <1>4, ActsAlone DEF Stands
  <2>. QED
    BY <1>1, <1>2, <1>4, <2>1 DEF PastTrue
<1>5. CASE pc[r] = New /\ ~Arrive(r)
  <2>1. ~KpiRead(r) /\ ~ReadCard(r)
    BY <1>5 DEF KpiRead, ReadCard, New
  <2>2. ~Acts(r)
    BY <1>5, <2>1 DEF Acts, ImportSubject, SyncInsert, SyncCommit, SyncLost, ComputeDue,
         CreateRequest, AnswerCreate, ResolveTime, UpdateStatus, ReadRequests, ReadRegister, At, New
  <2>. QED
    BY <1>1, <1>5, <2>2 DEF Stands, PastTrue
<1>. QED
  BY <1>3, <1>4, <1>5

\* What a call noted before it still has, unless it notes it anew.
LEMMA OldNotes ==
    ASSUME TypeInv, NEW r \in Active, NEW data, Found(r, data),
           NEW x \in DOMAIN found[r], x \notin DOMAIN data
    PROVE  x \in DOMAIN found'[r] /\ found'[r][x] = found[r][x]
<1>1. found'[r] = Merge(data, found[r])
  BY DEF TypeInv, Shape, Found
<1>. QED
  BY <1>1 DEF Merge

LEMMA NewNotes ==
    ASSUME TypeInv, NEW r \in Active, NEW data, Found(r, data), NEW x \in DOMAIN data
    PROVE  x \in DOMAIN found'[r] /\ found'[r][x] = data[x]
<1>1. found'[r] = Merge(data, found[r])
  BY DEF TypeInv, Shape, Found
<1>. QED
  BY <1>1 DEF Merge

LEMMA RegistersFinite ==
    ASSUME NEW S \in SUBSET Subjects, NEW C \in SUBSET (Calls \X S)
    PROVE  /\ IsFiniteSet(S) /\ IsFiniteSet(C) /\ IsFiniteSet({c[2] : c \in C})
           /\ {c[2] : c \in C} \subseteq S
<1>1. IsFiniteSet(S) /\ {c[2] : c \in C} \subseteq S
  BY FiniteAssumption, FS_Subset
<1>2. IsFiniteSet(Calls \X S)
  BY <1>1, FiniteAssumption, FS_Product
<1>. QED
  BY <1>1, <1>2, FS_Subset

LEMMA CountsGrow ==
    ASSUME TypeInv, TypeInv', TruthInv, [Next]_vars
    PROVE  /\ Cardinality(consents) \in Nat /\ Cardinality(consents') \in Nat
           /\ Cardinality(consents) <= Cardinality(consents')
           /\ Cardinality(Covered) \in Nat /\ Cardinality(Covered') \in Nat
           /\ Cardinality(Covered) <= Cardinality(Covered')
<1>1. IsFiniteSet(consents) /\ IsFiniteSet(Covered)
  <2>1. subjects \in SUBSET Subjects /\ consents \in SUBSET (Calls \X subjects)
    BY DEF TypeInv, TypeOK, Shape
  <2>. QED
    BY <2>1, RegistersFinite DEF Covered
<1>2. IsFiniteSet(consents') /\ IsFiniteSet(Covered')
  <2>1. subjects' \in SUBSET Subjects /\ consents' \in SUBSET (Calls \X subjects')
    BY DEF TypeInv, TypeOK, Shape
  <2>. QED
    BY <2>1, RegistersFinite DEF Covered
<1>3. consents \subseteq consents' /\ Covered \subseteq Covered'
  BY RegistersGrow DEF Covered
<1>. QED
  BY <1>1, <1>2, <1>3, FS_Subset, FS_CardinalityType

\* Whoever has a consent is somebody.
LEMMA LackingCount ==
    ASSUME TypeInv
    PROVE  /\ Cardinality(subjects) \in Nat /\ Cardinality(LackingConsent) \in Nat
           /\ Cardinality(LackingConsent) = Cardinality(subjects) - Cardinality(Covered)
           /\ Cardinality(Covered) \in Nat
<1>1. subjects \cap Covered = Covered /\ IsFiniteSet(subjects) /\ IsFiniteSet(Covered)
  <2>1. subjects \in SUBSET Subjects /\ consents \in SUBSET (Calls \X subjects)
    BY DEF TypeInv, TypeOK, Shape
  <2>. QED
    BY <2>1, RegistersFinite DEF Covered
<1>. QED
  BY <1>1, FS_Difference, FS_CardinalityType DEF LackingConsent

LEMMA KpiStays ==
    ASSUME TypeInv, TypeInv', TruthInv, [Next]_vars, NEW r \in Active, Ask[r].kind = "kpi"
    PROVE  KpiTrue(r)'
<1>. USE DEF New, Ok
<1>1. KpiTrue(r) /\ (Stands(r) \/ Acts(r))
  BY OneActs DEF TruthInv
<1>2. CASE Stands(r)
  BY <1>1, <1>2, CountsGrow DEF Stands, KpiTrue
<1>3. CASE Arrive(r)
  <2>1. pc'[r] = 1
    BY <1>3, Moves DEF Arrive, Failed
  <2>. QED
    BY <2>1 DEF KpiTrue
<1>4. ASSUME KpiRead(r)
      PROVE  KpiTrue(r)'
  <2>0. /\ pc[r] \in 1..5 /\ pc'[r] = IF pc[r] = 5 THEN 6 ELSE pc[r] + 1
        /\ consents' = consents /\ Covered' = Covered
    BY <1>4, Moves DEF KpiRead, Failed, Covered
  <2>1. CASE pc[r] = 1
    <3>1. Found(r, [total |-> Cardinality(subjects), missing |-> Cardinality(LackingConsent)])
      BY <1>4, <2>1 DEF KpiRead
    <3>2. /\ {"total", "missing"} \subseteq DOMAIN found'[r]
          /\ found'[r].total = Cardinality(subjects)
          /\ found'[r].missing = Cardinality(LackingConsent)
      BY <3>1, NewNotes
    <3>. QED
      BY <2>0, <2>1, <3>2, LackingCount DEF KpiTrue
  <2>2. CASE pc[r] = 2
    <3>1. Found(r, [consents |-> Cardinality(consents)])
      BY <1>4, <2>2 DEF KpiRead
    <3>2. "consents" \in DOMAIN found'[r] /\ found'[r].consents = Cardinality(consents)
      BY <3>1, NewNotes
    <3>3. /\ {"total", "missing"} \subseteq DOMAIN found'[r]
          /\ found'[r].total = found[r].total /\ found'[r].missing = found[r].missing
      BY <1>1, <2>2, <3>1, OldNotes DEF KpiTrue
    <3>. QED
      BY <1>1, <2>0, <2>2, <3>2, <3>3, CountsGrow DEF KpiTrue
  <2>3. CASE pc[r] = 3
    <3>1. Found(r, [granted |-> Cardinality(consents)])
      BY <1>4, <2>3 DEF KpiRead
    <3>2. "granted" \in DOMAIN found'[r] /\ found'[r].granted = Cardinality(consents)
      BY <3>1, NewNotes
    <3>3. /\ {"total", "missing", "consents"} \subseteq DOMAIN found'[r]
          /\ found'[r].total = found[r].total /\ found'[r].missing = found[r].missing
          /\ found'[r].consents = found[r].consents
      BY <1>1, <2>3, <3>1, OldNotes DEF KpiTrue
    <3>. QED
      BY <1>1, <2>0, <2>3, <3>2, <3>3, CountsGrow DEF KpiTrue
  <2>4. CASE pc[r] = 4
    <3>1. Found(r, [revoked |-> 0])
      BY <1>4, <2>4 DEF KpiRead
    <3>2. "revoked" \in DOMAIN found'[r] /\ found'[r].revoked = 0
      BY <3>1, NewNotes
    <3>3. /\ {"total", "missing", "consents", "granted"} \subseteq DOMAIN found'[r]
          /\ found'[r].total = found[r].total /\ found'[r].missing = found[r].missing
          /\ found'[r].consents = found[r].consents /\ found'[r].granted = found[r].granted
      BY <1>1, <2>4, <3>1, OldNotes DEF KpiTrue
    <3>. QED
      BY <1>1, <2>0, <2>4, <3>2, <3>3, CountsGrow DEF KpiTrue
  <2>5. CASE pc[r] = 5
    <3>1. Found(r, [without |-> SubjectsWithout(found[r].total, Cardinality(Covered))])
      BY <1>4, <2>5 DEF KpiRead
    <3>2. found'[r].without = SubjectsWithout(found[r].total, Cardinality(Covered))
      BY <3>1, NewNotes
    <3>3. /\ found'[r].missing = found[r].missing /\ found'[r].granted = found[r].granted
          /\ found'[r].consents = found[r].consents /\ found'[r].revoked = found[r].revoked
      BY <1>1, <2>5, <3>1, OldNotes DEF KpiTrue
    <3>. QED
      BY <1>1, <2>0, <2>5, <3>2, <3>3, LackingCount DEF KpiTrue, SubjectsWithout
  <2>. QED
    BY <2>0, <2>1, <2>2, <2>3, <2>4, <2>5
<1>. QED
  BY <1>1, <1>2, <1>3, <1>4
     DEF Acts, ImportSubject, SyncInsert, SyncCommit, SyncLost, ComputeDue, CreateRequest,
         AnswerCreate, ResolveTime, UpdateStatus, ReadRequests, ReadCard, ReadRegister, At

\* What an answer says of a request: a resolved one is never overdue.
LEMMA ItemShows ==
    ASSUME TypeInv, NEW id \in DOMAIN requests
    PROVE  /\ Item(id).id = id /\ Item(id).status = requests[id].status
           /\ Deadline(Item(id))
<1>. DEFINE row  == requests[id]
            head == [id |-> id, read |-> day, named |-> Named(row.type, row.subject),
                     overdue |-> row.resolved = Never /\ row.due < day /\ row.status \in Open]
<1>1. row \in Request /\ DOMAIN row = {"subject", "type", "status", "due", "resolved"}
  BY DEF TypeInv, TypeOK, Request
<1>2. row.resolved # Never <=> row.status \in Resolved
  BY DEF TypeInv, TypeOK
<1>3. Item(id) = Merge(head, row)
  BY DEF Item
<1>4. /\ DOMAIN head = {"id", "read", "named", "overdue"}
      /\ head.id = id /\ head.read = day
      /\ head.overdue = (row.resolved = Never /\ row.due < day /\ row.status \in Open)
  OBVIOUS
<1>. HIDE DEF head, row
<1>5. /\ Item(id).id = id /\ Item(id).read = day /\ Item(id).overdue = head.overdue
      /\ Item(id).status = row.status /\ Item(id).due = row.due
  BY <1>1, <1>3, <1>4 DEF Merge
<1>6. day \in Int /\ row.due \in Int
  BY <1>1, DaysAssumption DEF TypeInv, TypeOK, Request
<1>7. Deadline(Item(id))
  BY <1>2, <1>4, <1>5, <1>6 DEF Deadline, Open, Resolved
<1>. QED
  BY <1>5, <1>7 DEF row

LEMMA UpdateStays ==
    ASSUME TypeInv, TruthInv, [Next]_vars, NEW r \in Active, Ask[r].kind = "update"
    PROVE  UpdateTrue(r)'
<1>. USE DEF New, Ok, NotFound, Failed
<1>0. /\ Active' = Active /\ UpdateTrue(r) /\ PastTrue(r) /\ (Stands(r) \/ Acts(r))
      /\ DOMAIN requests \subseteq DOMAIN requests'
      /\ \A q \in DOMAIN requests : OwnRequest(q)
  BY OneActs, RegistersGrow DEF TruthInv
<1>1. ASSUME NEW status, Given(r, status), past'[r] = past[r]
      PROVE  Given(r, status)'
  BY <1>0, <1>1 DEF Given
\* Whoever writes the request meanwhile is not over yet.
<1>2. ASSUME NEW id \in DOMAIN requests, id = Ask[r].request, pc[r] # New, past'[r] = past[r]
      PROVE  requests'[id].status = requests[id].status \/ Given(r, requests[id].status)'
  <2>1. ASSUME NEW q \in Active, UpdateStatus(q)
        PROVE  requests'[id].status = requests[id].status \/ Given(r, requests[id].status)'
    <3>1. CASE Ask[q].request = id
      <4>1. requests'[id] = Updated(q, requests[id]) /\ requests[id] \in Request
        BY <2>1, <3>1 DEF UpdateStatus, TypeInv, TypeOK
      <4>2. requests'[id].status = Ask[q].status
        BY <4>1 DEF Updated, Request
      <4>3. q \notin past[r].answered /\ Ask[q].kind = "update"
        BY <1>0, <1>2, <2>1 DEF UpdateStatus, At, PastTrue
      <4>. QED
        BY <1>0, <1>2, <3>1, <4>2, <4>3 DEF Given
    <3>2. CASE Ask[q].request # id
      BY <2>1, <3>2 DEF UpdateStatus
    <3>. QED
      BY <3>1, <3>2
  <2>2. ASSUME NEW q \in Active, CreateRequest(q)
        PROVE  requests'[id] = requests[id]
    <3>1. q # id
      BY <1>0, <2>2 DEF CreateRequest, OwnRequest, At
    <3>2. DOMAIN [x \in {q} |-> Ask[x]] = {q}
      OBVIOUS
    <3>. QED
      BY <2>2, <3>1 DEF CreateRequest, Merge
  <2>3. UNCHANGED requests \/ \E q \in Active : CreateRequest(q) \/ UpdateStatus(q)
    BY DEF Next, vars, Midnight, Arrive, ImportSubject, SyncInsert, SyncCommit, SyncLost, KpiRead,
           ComputeDue, AnswerCreate, ResolveTime, ReadRequests, ReadCard, ReadRegister
  <2>. QED
    BY <2>1, <2>2, <2>3
<1>3. CASE Stands(r)
  <2>1. CASE pc[r] = 3
    BY <1>0, <1>1, <1>2, <1>3, <2>1 DEF UpdateTrue, Stands
  <2>2. CASE pc[r] = 6
    BY <1>0, <1>1, <1>3, <2>2 DEF UpdateTrue, Stands
  <2>. QED
    BY <1>3, <2>1, <2>2 DEF UpdateTrue, Stands
<1>4. CASE Arrive(r) \/ ResolveTime(r)
  <2>1. pc'[r] \in {1, 2}
    BY <1>4, Moves DEF Arrive, ResolveTime
  <2>. QED
    BY <2>1 DEF UpdateTrue
<1>5. CASE UpdateStatus(r)
  <2>1. pc[r] = 2 /\ past'[r] = past[r]
    BY <1>5 DEF UpdateStatus, At
  <2>2. CASE Ask[r].request \in DOMAIN requests
    <3>1. /\ requests'[Ask[r].request] = Updated(r, requests[Ask[r].request])
          /\ requests[Ask[r].request] \in Request
      BY <1>5, <2>2 DEF UpdateStatus, TypeInv, TypeOK
    <3>2. requests'[Ask[r].request].status = Ask[r].status
      BY <3>1 DEF Updated, Request
    <3>3. r \notin past[r].answered
      BY <1>0, <2>1 DEF PastTrue
    <3>4. pc'[r] = 3
      BY <1>5, <2>2, Moves DEF UpdateStatus
    <3>. QED
      BY <1>0, <2>1, <2>2, <3>2, <3>3, <3>4 DEF UpdateTrue, Given
  <2>3. CASE Ask[r].request \notin DOMAIN requests
    <3>1. pc'[r] = 7
      BY <1>5, <2>3, Moves DEF UpdateStatus
    <3>. QED
      BY <3>1 DEF UpdateTrue
  <2>. QED
    BY <2>2, <2>3
<1>6. CASE ReadRequests(r)
  <2>1. /\ pc[r] = 3 /\ pc'[r] = 6 /\ past'[r] = past[r]
        /\ Found(r, [items |-> {Item(id) : id \in {Ask[r].request}}])
    BY <1>6, Moves DEF ReadRequests, At
  <2>2. found'[r].items = {Item(Ask[r].request)}
    BY <2>1, NewNotes
  <2>3. Ask[r].request \in DOMAIN requests /\ Given(r, requests[Ask[r].request].status)
    BY <1>0, <2>1 DEF UpdateTrue
  <2>4. Item(Ask[r].request).status = requests[Ask[r].request].status
    BY <2>3, ItemShows
  <2>. QED
    BY <1>1, <2>1, <2>2, <2>3, <2>4 DEF UpdateTrue
<1>. QED
  BY <1>0, <1>3, <1>4, <1>5, <1>6
     DEF Acts, ImportSubject, SyncInsert, SyncCommit, SyncLost, KpiRead, ComputeDue,
         CreateRequest, AnswerCreate, ReadCard, ReadRegister, At

LEMMA CardStays ==
    ASSUME TypeInv, ConsentInv, TruthInv, [Next]_vars, NEW r \in Active, Ask[r].kind = "card"
    PROVE  CardTrue(r)'
<1>. USE DEF New, Ok, Failed
<1>0. /\ CardTrue(r) /\ PastTrue(r) /\ (Stands(r) \/ Acts(r))
      /\ \A q \in DOMAIN requests : OwnRequest(q)
  BY OneActs DEF TruthInv
<1>1. CASE Stands(r)
  BY <1>0, <1>1 DEF CardTrue, Stands
<1>2. CASE Arrive(r)
  <2>1. pc'[r] = 1
    BY <1>2, Moves DEF Arrive
  <2>. QED
    BY <2>1 DEF CardTrue
<1>3. CASE ReadCard(r)
  <2>. DEFINE s == Ask[r].subject
  <2>0. /\ pc[r] \in 1..3 /\ pc'[r] = IF pc[r] = 3 THEN 6 ELSE pc[r] + 1
        /\ past'[r] = past[r]
    BY <1>3, Moves DEF ReadCard
  <2>1. CASE pc[r] = 1
    BY <2>0, <2>1 DEF CardTrue
  <2>2. CASE pc[r] = 2
    <3>1. Found(r, [consents |-> {c \in consents : c[2] = s}])
      BY <1>3, <2>2 DEF ReadCard
    <3>2. "consents" \in DOMAIN found'[r] /\ found'[r].consents = {c \in consents : c[2] = s}
      BY <3>1, NewNotes
    <3>3. past[r].consents \subseteq consents
      BY <2>2 DEF ConsentInv, PastKept
    <3>. QED
      BY <2>0, <2>2, <3>2, <3>3 DEF CardTrue
  <2>3. CASE pc[r] = 3
    <3>. DEFINE ids == {q \in DOMAIN requests : requests[q].subject = s}
    <3>1. Found(r, [items |-> {Item(id) : id \in ids}])
      BY <1>3, <2>3 DEF ReadCard
    <3>2. found'[r].items = {Item(id) : id \in ids}
      BY <3>1, NewNotes
    <3>3. found'[r].consents = found[r].consents
      BY <1>0, <2>3, <3>1, OldNotes DEF CardTrue
    <3>4. \A q \in past[r].requests : Ask[q].subject = s => q \in ids
      BY <1>0, <2>3 DEF PastTrue, OwnRequest
    <3>5. \A id \in ids : Item(id).id = id
      BY ItemShows
    <3>. HIDE DEF ids
    <3>6. \A id \in ids : id \in {item.id : item \in found'[r].items}
      BY <3>2, <3>5
    <3>. QED
      BY <1>0, <2>0, <2>3, <3>3, <3>4, <3>6 DEF CardTrue
  <2>. QED
    BY <2>0, <2>1, <2>2, <2>3
<1>. QED
  BY <1>0, <1>1, <1>2, <1>3
     DEF Acts, ImportSubject, SyncInsert, SyncCommit, SyncLost, KpiRead, ComputeDue, CreateRequest,
         AnswerCreate, ResolveTime, UpdateStatus, ReadRequests, ReadRegister, At

LEMMA ItemsStay ==
    ASSUME TypeInv, TruthInv, [Next]_vars, NEW r \in Active,
           Ask[r].kind \in {"update", "requests", "card"}
    PROVE  ItemsTrue(r)'
<1>. USE DEF New, Ok, NotFound, Failed
<1>0. /\ ItemsTrue(r) /\ (Stands(r) \/ Acts(r))
      /\ Ask[r].kind = "update" => UpdateTrue(r)
  BY OneActs DEF TruthInv
<1>1. ASSUME NEW ids \in SUBSET DOMAIN requests, Found(r, [items |-> {Item(id) : id \in ids}])
      PROVE  ItemsTrue(r)'
  <2>1. found'[r].items = {Item(id) : id \in ids}
    BY <1>1, NewNotes
  <2>2. \A item \in found'[r].items : Deadline(item)
    BY <2>1, ItemShows
  <2>. QED
    BY <2>2 DEF ItemsTrue
<1>2. CASE Stands(r)
  BY <1>0, <1>2 DEF ItemsTrue, Stands
<1>3. CASE ReadRequests(r)
  <2>. DEFINE ids == IF Ask[r].kind = "update" THEN {Ask[r].request} ELSE DOMAIN requests
  <2>1. Found(r, [items |-> {Item(id) : id \in ids}])
    BY <1>3 DEF ReadRequests
  <2>2. ids \in SUBSET DOMAIN requests
    BY <1>0, <1>3 DEF ReadRequests, At, UpdateTrue
  <2>. QED
    BY <1>1, <2>1, <2>2
<1>4. CASE ReadCard(r)
  <2>1. CASE pc[r] = 3
    <3>. DEFINE ids == {q \in DOMAIN requests : requests[q].subject = Ask[r].subject}
    <3>1. Found(r, [items |-> {Item(id) : id \in ids}])
      BY <1>4, <2>1 DEF ReadCard
    <3>. QED
      BY <1>1, <3>1
  <2>2. CASE pc[r] # 3
    <3>1. pc'[r] \in 2..3
      BY <1>4, <2>2, Moves DEF ReadCard
    <3>. QED
      BY <3>1 DEF ItemsTrue
  <2>. QED
    BY <2>1, <2>2
<1>5. CASE Arrive(r) \/ ResolveTime(r) \/ UpdateStatus(r)
  <2>1. PICK place \in {1, 2, 3, 7} : Goto(r, place)
    BY <1>5 DEF Arrive, ResolveTime, UpdateStatus
  <2>2. pc'[r] # 6
    BY <2>1, Moves
  <2>. QED
    BY <2>2 DEF ItemsTrue
<1>. QED
  BY <1>0, <1>2, <1>3, <1>4, <1>5
     DEF Acts, ImportSubject, SyncInsert, SyncCommit, SyncLost, KpiRead, ComputeDue, CreateRequest,
         AnswerCreate, ReadRegister, At

LEMMA NextTruthInv == TypeInv /\ TypeInv' /\ ConsentInv /\ TruthInv /\ [Next]_vars => TruthInv'
<1>. SUFFICES ASSUME TypeInv, TypeInv', ConsentInv, TruthInv, [Next]_vars
              PROVE  TruthInv'
  OBVIOUS
<1>1. Active' = Active /\ \A q \in DOMAIN requests' : OwnRequest(q)'
  BY OneActs, RegistersGrow
<1>. QED
  BY <1>1, PastStays, KpiStays, UpdateStays, CardStays, ItemsStay DEF TruthInv

\* Whatever syncs, updates and imports commit between its statements, no KPI figure is
\* negative or above what was read before, an update is answered with its own status or
\* a later one, a card shows all that was there, and overdue means open and past due.
THEOREM AnswersAreTruthful == Spec => []AnswersTruthful
BY TypeInvHolds, ConsentInvHolds, InitTruthInv, NextTruthInv, TruthInvSuffices, PTL DEF Spec
============================================================================
