-------------------------- MODULE AnonymizerProofs --------------------------
(***************************************************************************)
(* Theorems about Anonymizer, for any people, runs and threshold: the map  *)
(* keeps one token per field, and generalization never lowers k.           *)
(***************************************************************************)
EXTENDS Anonymizer, FiniteSetTheorems, WellFoundedInduction, TLAPS

----------------------------------------------------------------------------
(* Minima *)

LEMMA NatMinimum ==
    ASSUME NEW T \in SUBSET Nat, T # {}
    PROVE  \E x \in T : \A y \in T : x <= y
<1> DEFINE R == OpToRel(<, Nat)
<1>1. IsWellFoundedOn(R, Nat)
  BY NatLessThanWellFounded
<1> HIDE DEF R
<1>2. \E x \in T : \A y \in T : ~ (<<y, x>> \in R)
  BY <1>1, WFMin
<1>3. \A x, y \in Nat : <<y, x>> \notin R => x <= y
  BY DEF R, OpToRel
<1> QED
  BY <1>2, <1>3

LEMMA MinOfNaturals ==
    ASSUME NEW T \in SUBSET Nat, T # {}
    PROVE  Min(T) \in T /\ \A y \in T : Min(T) <= y
BY NatMinimum DEF Min

\* The cell a run takes next is one of those it has to do.
LEMMA FirstIsOne ==
    ASSUME NEW cells \in SUBSET Filled, cells # {}
    PROVE  First(cells) \in cells
<1> DEFINE people == {c[1] : c \in cells}
<1>1. /\ cells \in SUBSET (People \X Fields)
      /\ People \in SUBSET Nat
      /\ Fields \in SUBSET Nat
  BY PeopleAssumption DEF Fields
<1> HIDE DEF people
<1>2. PICK p \in people : \A q \in people : p <= q
  <2>1. people \in SUBSET Nat /\ people # {}
    BY <1>1 DEF people
  <2> QED
    BY <2>1, NatMinimum
<1> DEFINE fields == {c[2] : c \in {d \in cells : d[1] = p}}
<1> HIDE DEF fields
<1>3. PICK f \in fields : \A g \in fields : f <= g
  <2>1. fields \in SUBSET Nat /\ fields # {}
    BY <1>1, <1>2 DEF fields, people
  <2> QED
    BY <2>1, NatMinimum
<1>4. PICK c \in cells : c[1] = p /\ c[2] = f
  BY <1>3 DEF fields
<1>5. \A d \in cells : p < d[1] \/ (p = d[1] /\ f <= d[2])
  <2> TAKE d \in cells
  <2>1. d[1] \in people /\ d[1] \in Nat /\ p \in Nat
    BY <1>1, <1>2 DEF people
  <2>2. d[1] = p => d[2] \in fields
    BY DEF fields
  <2> QED
    BY <1>2, <1>3, <2>1, <2>2
<1> QED
  BY <1>4, <1>5 DEF First, Before

----------------------------------------------------------------------------
(* k-anonymity *)

LEMMA ClassSize ==
    ASSUME NEW records \in SUBSET People, NEW key, NEW p
    PROVE  /\ IsFiniteSet(Class(records, key, p))
           /\ Cardinality(Class(records, key, p)) \in Nat
<1>1. IsFiniteSet(records)
  BY PeopleAssumption, FS_Subset
<1>2. Class(records, key, p) \subseteq records
  BY DEF Class
<1> QED
  BY <1>1, <1>2, FS_Subset, FS_CardinalityType

\* k is the size of some record's class and of no record's class more.
LEMMA KIsSmallestClass ==
    ASSUME NEW records \in SUBSET People, NEW key, records # {}
    PROVE  /\ \E p \in records : ComputeK(records, key) = Cardinality(Class(records, key, p))
           /\ \A p \in records : ComputeK(records, key) <= Cardinality(Class(records, key, p))
<1> DEFINE sizes == {Cardinality(Class(records, key, p)) : p \in records}
<1>1. sizes \in SUBSET Nat /\ sizes # {}
  BY ClassSize
<1>2. ComputeK(records, key) = Min(sizes)
  BY DEF ComputeK
<1>3. Min(sizes) \in sizes /\ \A y \in sizes : Min(sizes) <= y
  BY <1>1, MinOfNaturals
<1> QED
  BY <1>2, <1>3

LEMMA KIsNatural ==
    ASSUME NEW records \in SUBSET People, NEW key
    PROVE  ComputeK(records, key) \in Nat
<1>1. CASE records = {}
  BY <1>1 DEF ComputeK
<1>2. CASE records # {}
  BY <1>2, KIsSmallestClass, ClassSize
<1> QED
  BY <1>1, <1>2

\* computeK over a coarser key is never less: every class only grows.
LEMMA CoarserKeyNeverLowersK ==
    ASSUME NEW records \in SUBSET People, NEW fine, NEW coarse,
           \A p, q \in records : fine[p] = fine[q] => coarse[p] = coarse[q]
    PROVE  ComputeK(records, fine) <= ComputeK(records, coarse)
<1>1. CASE records = {}
  BY <1>1 DEF ComputeK
<1>2. CASE records # {}
  <2>1. PICK p \in records :
          ComputeK(records, coarse) = Cardinality(Class(records, coarse, p))
    BY <1>2, KIsSmallestClass
  <2>2. Class(records, fine, p) \subseteq Class(records, coarse, p)
    BY DEF Class
  <2>3. Cardinality(Class(records, fine, p)) <= Cardinality(Class(records, coarse, p))
    BY <2>2, ClassSize, FS_Subset
  <2>4. ComputeK(records, fine) <= Cardinality(Class(records, fine, p))
    BY <1>2, KIsSmallestClass
  <2> QED
    BY <2>1, <2>3, <2>4, KIsNatural, ClassSize
<1> QED
  BY <1>1, <1>2

\* The five-year bands of generalizeBirth are coarser than the dates, so the k of
\* an anonymized file is at least the k of the exact dates.
THEOREM GeneralizationNeverLowersK ==
    \A records \in SUBSET People : ComputeK(records, Birth) <= ComputeK(records, Bands)
<1> TAKE records \in SUBSET People
<1>1. \A p, q \in records : Birth[p] = Birth[q] => Bands[p] = Bands[q]
  BY DEF Bands
<1> QED
  BY <1>1, CoarserKeyNeverLowersK
----------------------------------------------------------------------------
(* Types *)

LEMMA TokenTyped ==
    ASSUME NEW r \in Runs, NEW cell \in Filled
    PROVE  <<r, cell>> \in Tokens /\ <<r, cell>> # None
BY NoneAssumption DEF Tokens

LEMMA UpsertType ==
    ASSUME TypeOK, NEW cell \in Filled, NEW token \in Tokens, UpsertPseudonym(cell, token)
    PROVE  map' \in [Filled -> Tokens \cup {None}]
BY DEF TypeOK, UpsertPseudonym

LEMMA ReportTyped ==
    ASSUME TypeOK, NEW r \in Runs
    PROVE  KAnonReport(r) \in [k : Nat, before : Nat]
<1>1. snapshot[r] \in SUBSET People
  BY DEF TypeOK
<1>2. /\ ComputeK(snapshot[r], QuasiIdentifier(r)) \in Nat
      /\ ComputeK(snapshot[r], Birth) \in Nat
  BY <1>1, KIsNatural
<1> QED
  BY <1>2 DEF KAnonReport

LEMMA InitType == Init => TypeOK
BY DEF Init, TypeOK, NothingOut

LEMMA RunType ==
    ASSUME TypeOK, NEW r \in Runs,
           Load(r) \/ Tokenize(r) \/ WriteCSV(r) \/ Finish(r) \/ Fails(r)
    PROVE  TypeOK'
<1>1. CASE Load(r)
  BY <1>1 DEF Load, TypeOK, CellsOf
<1>2. CASE Tokenize(r)
  <2> DEFINE cell == First(todo[r])
  <2>1. cell \in Filled
    BY <1>2, FirstIsOne DEF Tokenize, TypeOK
  <2> HIDE DEF cell
  <2>2. map' \in [Filled -> Tokens \cup {None}]
    BY <1>2, <2>1, TokenTyped, UpsertType DEF Tokenize, cell
  <2> QED
    BY <1>2, <2>1, <2>2 DEF Tokenize, TypeOK, cell
<1>3. CASE WriteCSV(r)
  BY <1>3 DEF WriteCSV, TypeOK
<1>4. CASE Finish(r)
  <2>1. VerifyReversible(r) \subseteq {"none", "ok", "missing", "mismatch", "error"}
    BY DEF VerifyReversible
  <2> QED
    BY <1>4, <2>1, ReportTyped DEF Finish, TypeOK
<1>5. CASE Fails(r)
  <2>1. map' \in [Filled -> Tokens \cup {None}]
    <3>1. CASE UNCHANGED map
      BY <3>1 DEF TypeOK
    <3>2. CASE todo[r] # {} /\ UpsertPseudonym(First(todo[r]), <<r, First(todo[r])>>)
      <4>1. First(todo[r]) \in Filled
        BY <3>2, FirstIsOne DEF TypeOK
      <4> QED
        BY <3>2, <4>1, TokenTyped, UpsertType
    <3> QED
      BY <1>5, <3>1, <3>2 DEF Fails
  <2> QED
    BY <1>5, <2>1 DEF Fails, TypeOK, NothingOut
<1> QED
  BY <1>1, <1>2, <1>3, <1>4, <1>5

LEMMA NextType == TypeOK /\ [Next]_vars => TypeOK'
<1> SUFFICES ASSUME TypeOK, [Next]_vars PROVE TypeOK'
  OBVIOUS
<1>1. CASE UNCHANGED vars
  BY <1>1 DEF vars, TypeOK
<1>2. ASSUME NEW batch \in SUBSET (People \ rows), Import(batch) PROVE TypeOK'
  BY <1>2 DEF Import, TypeOK
<1> QED
  BY <1>1, <1>2, RunType DEF Next

\* For any people and runs, every reachable state is well typed; in particular
\* every k that is reported is a natural number, for an empty dataset, too.
THEOREM TypeCorrect == Spec => []TypeOK
<1> QED
  BY InitType, NextType, PTL DEF Spec
----------------------------------------------------------------------------
(* The inductive invariant *)

\* The map holds, for each cell, a token drawn for that very cell.
MapNamesCell == \A c \in Filled : map[c] # None => map[c][2] = c

\* What a run has loaded, has still to do and has put out.
RunState(r) ==
    /\ pc[r] \in {"new", "failed"} => snapshot[r] = {}
    /\ \A p \in snapshot[r] : Kind[p] = Dataset[r]
    /\ todo[r] \subseteq CellsOf(snapshot[r])
    /\ Mode[r] = "anonymize" => todo[r] = {}
    /\ Written(r) => todo[r] = {}
    /\ \A c \in Filled :
          out[r][c] # None <=>
              Mode[r] = "pseudonymize" /\ c \in CellsOf(snapshot[r]) /\ c \notin todo[r]

Inv ==
    /\ TypeOK
    /\ MapNamesCell
    /\ OneTokenForever
    /\ \A r \in Runs : RunState(r)

\* The step of one run: every other run keeps its state.
RunStep(r) == Load(r) \/ Tokenize(r) \/ WriteCSV(r) \/ Finish(r) \/ Fails(r)

LEMMA OthersKeep ==
    ASSUME TypeOK, NEW r \in Runs, RunStep(r), NEW q \in Runs, q # r
    PROVE  /\ pc'[q] = pc[q] /\ snapshot'[q] = snapshot[q] /\ todo'[q] = todo[q]
           /\ out'[q] = out[q] /\ check'[q] = check[q] /\ report'[q] = report[q]
BY DEF TypeOK, RunStep, Load, Tokenize, WriteCSV, Finish, Fails

\* An upsert gives a cell its token once and for all.
LEMMA UpsertKeepsTokens ==
    ASSUME TypeOK, MapNamesCell, NEW r \in Runs, NEW cell \in Filled,
           UpsertPseudonym(cell, <<r, cell>>)
    PROVE  /\ MapNamesCell'
           /\ \A c \in Filled : map[c] # None => map'[c] = map[c]
           /\ map'[cell] # None
BY TokenTyped DEF TypeOK, MapNamesCell, UpsertPseudonym

LEMMA MapGrows ==
    ASSUME Inv, NEW r \in Runs, RunStep(r)
    PROVE  MapNamesCell' /\ \A c \in Filled : map[c] # None => map'[c] = map[c]
<1>1. CASE UNCHANGED map
  BY <1>1 DEF Inv, MapNamesCell
<1>2. CASE todo[r] # {} /\ UpsertPseudonym(First(todo[r]), <<r, First(todo[r])>>)
  <2>1. First(todo[r]) \in Filled
    BY <1>2, FirstIsOne DEF Inv, TypeOK
  <2> QED
    BY <1>2, <2>1, UpsertKeepsTokens DEF Inv
<1> QED
  BY <1>1, <1>2 DEF RunStep, Load, Tokenize, WriteCSV, Finish, Fails

LEMMA InitInv == Init => Inv
BY InitType DEF Init, Inv, MapNamesCell, OneTokenForever, RunState, NothingOut, CellsOf, Written

\* The run that takes the step keeps its part of the invariant.
LEMMA RunKeeps ==
    ASSUME Inv, NEW r \in Runs, RunStep(r)
    PROVE  RunState(r)' /\ \A c \in Filled : out'[r][c] # None => out'[r][c] = map'[c]
<1> USE DEF Inv, TypeOK, RunState, Written
<1>1. CASE Load(r)
  <2>1. /\ pc'[r] = "transform" /\ UNCHANGED <<map, out>>
        /\ snapshot'[r] = {p \in rows : Kind[p] = Dataset[r]}
        /\ todo'[r] = IF Mode[r] = "pseudonymize" THEN CellsOf(snapshot'[r]) ELSE {}
    BY <1>1 DEF Load
  <2>2. \A c \in Filled : out[r][c] = None
    BY <1>1 DEF Load, CellsOf
  <2> QED
    BY <2>1, <2>2, RunsAssumption DEF CellsOf, Modes
<1>2. CASE Tokenize(r)
  <2> DEFINE cell == First(todo[r])
  <2>1. cell \in todo[r] /\ cell \in Filled
    BY <1>2, FirstIsOne DEF Tokenize
  <2>2. /\ UpsertPseudonym(cell, <<r, cell>>)
        /\ out' = [out EXCEPT ![r][cell] = map'[cell]]
        /\ todo' = [todo EXCEPT ![r] = @ \ {cell}]
        /\ UNCHANGED <<pc, snapshot>> /\ pc[r] = "transform"
    BY <1>2 DEF Tokenize
  <2> HIDE DEF cell
  <2>3. map'[cell] # None /\ \A c \in Filled : map[c] # None => map'[c] = map[c]
    BY <2>1, <2>2, UpsertKeepsTokens
  <2>4. /\ out'[r][cell] = map'[cell]
        /\ \A c \in Filled : c # cell => out'[r][c] = out[r][c]
        /\ todo'[r] = todo[r] \ {cell}
    BY <2>1, <2>2
  <2>5. \A c \in Filled : out'[r][c] # None => out'[r][c] = map'[c]
    BY <2>3, <2>4 DEF OneTokenForever
  <2>6. Mode[r] = "pseudonymize" /\ cell \in CellsOf(snapshot[r])
    BY <2>1, RunsAssumption DEF Modes
  <2>7. RunState(r)'
    BY <2>1, <2>2, <2>3, <2>4, <2>6 DEF CellsOf
  <2> QED
    BY <2>5, <2>7
<1>3. CASE WriteCSV(r)
  BY <1>3 DEF WriteCSV, OneTokenForever, CellsOf
<1>4. CASE Finish(r)
  BY <1>4 DEF Finish, OneTokenForever, CellsOf
<1>5. CASE Fails(r)
  <2>1. pc'[r] = "failed" /\ snapshot'[r] = {} /\ todo'[r] = {} /\ out'[r] = NothingOut
    BY <1>5 DEF Fails
  <2> QED
    BY <2>1 DEF NothingOut, CellsOf
<1> QED
  BY <1>1, <1>2, <1>3, <1>4, <1>5 DEF RunStep

LEMMA NextInv == Inv /\ [Next]_vars => Inv'
<1> SUFFICES ASSUME Inv, [Next]_vars PROVE Inv'
  OBVIOUS
<1>1. TypeOK'
  BY NextType DEF Inv
<1>2. CASE UNCHANGED <<map, pc, snapshot, todo, out>>
  BY <1>1, <1>2 DEF Inv, MapNamesCell, OneTokenForever, RunState, CellsOf, Written
<1>3. ASSUME NEW r \in Runs, RunStep(r) PROVE Inv'
  <2>1. MapNamesCell' /\ \A c \in Filled : map[c] # None => map'[c] = map[c]
    BY <1>3, MapGrows
  <2>2. RunState(r)' /\ \A c \in Filled : out'[r][c] # None => out'[r][c] = map'[c]
    BY <1>3, RunKeeps
  <2>3. ASSUME NEW q \in Runs, q # r
        PROVE  RunState(q)' /\ \A c \in Filled : out'[q][c] # None => out'[q][c] = map'[c]
    BY <1>3, <2>1, <2>3, OthersKeep DEF Inv, RunState, OneTokenForever, CellsOf, Written
  <2> QED
    BY <1>1, <2>1, <2>2, <2>3 DEF Inv, OneTokenForever
<1> QED
  BY <1>2, <1>3 DEF Next, RunStep, Import, vars

LEMMA InvHolds == Spec => []Inv
<1> QED
  BY InitInv, NextInv, PTL DEF Spec

\* Runs that overlap, fail half-way or are repeated agree on the token of every
\* field, and what they wrote can be restored from the map.
THEOREM TokensAreStable == Spec => []OneTokenForever
<1> QED
  BY InvHolds, PTL DEF Inv

\* A pseudonymized file has a token in each filled cell, an anonymized one none.
THEOREM OutputsAreComplete == Spec => []OutputComplete
<1>1. Inv => OutputComplete
  BY DEF Inv, RunState, OutputComplete, Written
<1> QED
  BY <1>1, InvHolds, PTL

----------------------------------------------------------------------------
(* The reports *)

\* The sampled token belongs to its own cell and to no other.
LEMMA SampleRestores ==
    ASSUME Inv, NEW r \in Runs, Finish(r)
    PROVE  VerifyReversible(r) \subseteq {"none", "ok", "error"}
<1>1. CASE Mode[r] = "anonymize" \/ Dataset[r] = "guardians" \/ Sampled(r) = {}
  BY <1>1 DEF VerifyReversible
<1>2. CASE ~(Mode[r] = "anonymize" \/ Dataset[r] = "guardians" \/ Sampled(r) = {})
  <2> DEFINE sample == First(Sampled(r))
  <2>1. sample \in CellsOf(snapshot[r]) /\ sample \in Filled
    BY <1>2, FirstIsOne DEF Sampled, CellsOf
  <2> HIDE DEF sample
  <2>2. out[r][sample] # None
    BY <1>2, <2>1, RunsAssumption DEF Finish, Inv, RunState, Written, Modes
  <2>3. out[r][sample] = map[sample]
    BY <2>1, <2>2 DEF Inv, OneTokenForever
  <2>4. Kind[sample[1]] = "students"
    BY <1>2, <2>1, RunsAssumption DEF Inv, RunState, CellsOf, Datasets
  <2>5. RestorePseudonym(out[r][sample]) = {sample}
    BY <2>1, <2>2, <2>3, <2>4 DEF RestorePseudonym, Inv, MapNamesCell
  <2> QED
    BY <1>2, <2>5 DEF VerifyReversible, sample
<1> QED
  BY <1>1, <1>2

LEMMA NextSelfCheck == Inv /\ SelfCheckPasses /\ [Next]_vars => SelfCheckPasses'
<1> SUFFICES ASSUME Inv, SelfCheckPasses, [Next]_vars PROVE SelfCheckPasses'
  OBVIOUS
<1>1. CASE UNCHANGED check
  BY <1>1 DEF SelfCheckPasses
<1>2. ASSUME NEW r \in Runs, Finish(r) PROVE SelfCheckPasses'
  BY <1>2, SampleRestores DEF Finish, SelfCheckPasses, Inv, TypeOK
<1> QED
  BY <1>1, <1>2 DEF Next, vars, Import, Load, Tokenize, WriteCSV, Fails

\* No run finds its own token missing or restored to something else, whatever the
\* other runs have done to the map in between.
THEOREM SelfCheckNeverFails == Spec => []SelfCheckPasses
<1>1. Init => SelfCheckPasses
  BY DEF Init, SelfCheckPasses
<1> QED
  BY <1>1, NextSelfCheck, InvHolds, PTL DEF Spec

\* A report describes exactly the records of its file.
LEMMA ReportDescribes ==
    ASSUME Inv, NEW r \in Runs, Mode[r] = "anonymize"
    PROVE  LET made == KAnonReport(r)
           IN  /\ made.before <= made.k
               /\ made.k >= KThreshold <=>
                    /\ snapshot[r] # {}
                    /\ \A p \in snapshot[r] :
                        Cardinality(Class(snapshot[r], QuasiIdentifier(r), p)) >= KThreshold
<1> DEFINE records == snapshot[r]
           key     == QuasiIdentifier(r)
           made    == KAnonReport(r)
<1>1. records \in SUBSET People
  BY DEF Inv, TypeOK
<1>2. /\ made.k = ComputeK(records, key)
      /\ made.before = IF Generalizes(r) THEN ComputeK(records, Birth) ELSE 0
  BY DEF KAnonReport
<1>3. Generalizes(r) => key = Bands
  BY DEF Generalizes, QuasiIdentifier
<1> HIDE DEF made, key
<1>4. made.before <= made.k
  BY <1>1, <1>2, <1>3, GeneralizationNeverLowersK, KIsNatural
<1>5. CASE records = {}
  BY <1>2, <1>4, <1>5, ThresholdAssumption DEF ComputeK, made, key
<1>6. CASE records # {}
  <2>1. /\ \E p \in records : made.k = Cardinality(Class(records, key, p))
        /\ \A p \in records : made.k <= Cardinality(Class(records, key, p))
    BY <1>1, <1>2, <1>6, KIsSmallestClass
  <2>2. made.k \in Nat /\ \A p \in records : Cardinality(Class(records, key, p)) \in Nat
    BY <1>1, <1>2, KIsNatural, ClassSize
  <2> QED
    BY <1>4, <1>6, <2>1, <2>2, ThresholdAssumption DEF made, key
<1> QED
  BY <1>5, <1>6

LEMMA NextReports == Inv /\ AnonymityReported /\ [Next]_vars => AnonymityReported'
<1> SUFFICES ASSUME Inv, AnonymityReported, [Next]_vars,
                    NEW q \in Runs, pc'[q] = "done", Mode[q] = "anonymize"
             PROVE  /\ report'[q].before <= report'[q].k
                    /\ report'[q].k >= KThreshold <=>
                         /\ snapshot'[q] # {}
                         /\ \A p \in snapshot'[q] :
                             Cardinality(Class(snapshot'[q], QuasiIdentifier(q), p)) >= KThreshold
  BY DEF AnonymityReported, Compliant, QuasiIdentifier, Class, Bands, GeneralizeBirth
<1>1. CASE pc[q] = "done" /\ UNCHANGED <<snapshot[q], report[q]>>
  BY <1>1 DEF AnonymityReported, Compliant
<1>2. CASE Finish(q)
  <2>1. report'[q] = KAnonReport(q) /\ snapshot'[q] = snapshot[q]
    BY <1>2 DEF Finish, Inv, TypeOK
  <2> QED
    BY <2>1, ReportDescribes
<1>3. CASE UNCHANGED <<pc, snapshot, report>>
  BY <1>1, <1>3
<1>4. ASSUME NEW r \in Runs, RunStep(r), r # q
      PROVE  pc[q] = "done" /\ UNCHANGED <<snapshot[q], report[q]>>
  BY <1>4, OthersKeep DEF Inv
<1>5. CASE Load(q) \/ Tokenize(q) \/ WriteCSV(q) \/ Fails(q)
  BY <1>5 DEF Load, Tokenize, WriteCSV, Fails, Inv, TypeOK
<1> QED
  BY <1>1, <1>2, <1>3, <1>4, <1>5 DEF Next, RunStep, Import, vars

\* The k of an anonymized file is the k of that file, and at least the k of the
\* exact dates.
THEOREM ReportsAreTrue == Spec => []AnonymityReported
<1>1. Init => AnonymityReported
  BY DEF Init, AnonymityReported
<1> QED
  BY <1>1, NextReports, InvHolds, PTL DEF Spec
============================================================================
