--------------------------- MODULE DeploymentProofs ---------------------------
(***************************************************************************)
(* Safety of Deployment for any containers, seeds, calls and crashes.      *)
(*                                                                         *)
(* What a migration does to a database is proved operation by operation,   *)
(* then revision by revision (Level), then for a run of any revisions up   *)
(* or down.  On that rest four invariants: where actors are and what they  *)
(* have open (Typed), the revision they found (Levels), accounts and roles *)
(* (Accounts), and what seeds have written so far (Seeded).                *)
(***************************************************************************)
EXTENDS Deployment, FiniteSetTheorems, WellFoundedInduction, TLAPS

----------------------------------------------------------------------------
(* Migrations: one operation *)

Fields == {"revision", "ok", "tables", "refs", "parts", "execute", "key", "keys", "vault", "data"}

Rest(rel, t)  == {r \in rel : r[1] # t}
From(t, on)   == {<<t, u>> : u \in on}

\* A database that refused nothing: its tables, keys, parts, vault, functions.
Has(d, T, R, P, V, F) ==
    /\ DOMAIN d = Fields /\ d.ok = TRUE
    /\ d.tables = T /\ d.refs = R /\ d.parts = P /\ d.vault = V
    /\ DOMAIN d.execute = F /\ DOMAIN d.data = T

\* The tables d and e share keep their rows, those only e has are empty.
SameRows(d, e) ==
    /\ \A t \in DOMAIN d.data \cap DOMAIN e.data : e.data[t] = d.data[t]
    /\ \A t \in DOMAIN e.data \ DOMAIN d.data : e.data[t] = {}
RowsGrow(d, e)   == DOMAIN d.data \subseteq DOMAIN e.data /\ SameRows(d, e)
RowsShrink(d, e) == DOMAIN e.data \subseteq DOMAIN d.data /\ SameRows(d, e)
RowsStay(d, e)   == RowsGrow(d, e) /\ RowsShrink(d, e)
KeysStay(d, e)   == e.key = d.key /\ e.keys = d.keys
RightsStay(d, e) == e.execute = d.execute
CryptoStays(d, e) == KeysStay(d, e) /\ RightsStay(d, e)

LEMMA CreateStep ==
    ASSUME NEW d, NEW T, NEW R, NEW P, NEW V, NEW F, Has(d, T, R, P, V, F),
           NEW t, NEW on, t \notin T, on \subseteq T,
           NEW U, U = T \cup {t}, NEW S, S = R \cup From(t, on),
           NEW e, e = RunOp(d, Create(t, on))
    PROVE  /\ Has(e, U, S, P, V, F)
           /\ RowsGrow(d, e) /\ CryptoStays(d, e)
<1>1. Possible(Create(t, on), d)
  BY DEF Possible, Create, Op, Has
<1>2. e = [d EXCEPT !.tables = @ \cup {t}, !.refs = @ \cup {<<t, u>> : u \in on},
                    !.data = [u \in DOMAIN @ \cup {t} |-> IF u = t THEN {} ELSE @[u]]]
  BY <1>1 DEF RunOp, Effect, Create, Op, Has
<1>. QED
  BY <1>2 DEF Has, RowsGrow, RowsShrink, RowsStay, SameRows, KeysStay, RightsStay, CryptoStays, Fields, From

LEMMA DropStep ==
    ASSUME NEW d, NEW T, NEW R, NEW P, NEW V, NEW F, Has(d, T, R, P, V, F),
           NEW t, t \in T, \A u \in T : <<u, t>> \notin R, t # "encryption_keys",
           NEW U, U = T \ {t}, NEW S, S = Rest(R, t), NEW Q, Q = Rest(P, t), NEW W, W = V \ {t},
           NEW e, e = RunOp(d, Drop(t))
    PROVE  /\ Has(e, U, S, Q, W, F)
           /\ RowsShrink(d, e) /\ CryptoStays(d, e)
<1>1. Possible(Drop(t), d)
  BY DEF Possible, Drop, Op, Has
<1>2. e = [d EXCEPT !.tables = @ \ {t}, !.refs = {r \in @ : r[1] # t},
                    !.parts = {p \in @ : p[1] # t}, !.vault = @ \ {t},
                    !.key = @, !.data = [u \in DOMAIN @ \ {t} |-> @[u]]]
  BY <1>1 DEF RunOp, Effect, Drop, Op, Has
<1>. QED
  BY <1>2 DEF Has, RowsGrow, RowsShrink, RowsStay, SameRows, KeysStay, RightsStay, CryptoStays, Fields, Rest

LEMMA DropKeysStep ==
    ASSUME NEW d, NEW T, NEW R, NEW P, NEW V, NEW F, Has(d, T, R, P, V, F),
           "encryption_keys" \in T, \A u \in T : <<u, "encryption_keys">> \notin R,
           NEW U, U = T \ {"encryption_keys"}, NEW S, S = Rest(R, "encryption_keys"),
           NEW Q, Q = Rest(P, "encryption_keys"), NEW W, W = V \ {"encryption_keys"},
           NEW e, e = RunOp(d, Drop("encryption_keys"))
    PROVE  /\ Has(e, U, S, Q, W, F)
           /\ RowsShrink(d, e) /\ RightsStay(d, e) /\ e.key = 0 /\ e.keys = d.keys
<1>1. Possible(Drop("encryption_keys"), d)
  BY DEF Possible, Drop, Op, Has
<1>2. e = [d EXCEPT !.tables = @ \ {"encryption_keys"}, !.refs = {r \in @ : r[1] # "encryption_keys"},
                    !.parts = {p \in @ : p[1] # "encryption_keys"}, !.vault = @ \ {"encryption_keys"},
                    !.key = 0, !.data = [u \in DOMAIN @ \ {"encryption_keys"} |-> @[u]]]
  BY <1>1 DEF RunOp, Effect, Drop, Op, Has
<1>3. DOMAIN e = Fields /\ e.ok = TRUE /\ RightsStay(d, e) /\ e.key = 0 /\ e.keys = d.keys
  BY <1>2 DEF Has, Fields, RightsStay
<1>4. e.tables = U /\ e.refs = S /\ e.parts = Q /\ e.vault = W
  BY <1>2 DEF Has, Fields, Rest
<1>5. e.data = [u \in DOMAIN d.data \ {"encryption_keys"} |-> d.data[u]]
  BY <1>2 DEF Has, Fields
<1>6. DOMAIN e.data = U /\ RowsShrink(d, e)
  BY <1>5 DEF Has, SameRows, RowsShrink
<1>. QED
  BY <1>3, <1>4, <1>6 DEF Has, RightsStay

LEMMA AddStep ==
    ASSUME NEW d, NEW T, NEW R, NEW P, NEW V, NEW F, Has(d, T, R, P, V, F),
           NEW t, NEW part, t \in T, <<t, part>> \notin P, NEW Q, Q = P \cup {<<t, part>>},
           NEW e, e = RunOp(d, AddPart(t, part))
    PROVE  /\ Has(e, T, R, Q, V, F)
           /\ RowsStay(d, e) /\ CryptoStays(d, e)
<1>1. Possible(AddPart(t, part), d)
  BY DEF Possible, AddPart, Op, Has
<1>2. e = [d EXCEPT !.parts = @ \cup {<<t, part>>}]
  BY <1>1 DEF RunOp, Effect, AddPart, Op, Has
<1>. QED
  BY <1>2 DEF Has, RowsGrow, RowsShrink, RowsStay, SameRows, KeysStay, RightsStay, CryptoStays, Fields

LEMMA RemoveStep ==
    ASSUME NEW d, NEW T, NEW R, NEW P, NEW V, NEW F, Has(d, T, R, P, V, F),
           NEW t, NEW part, <<t, part>> \in P, part # "user_id", NEW Q, Q = P \ {<<t, part>>},
           NEW e, e = RunOp(d, DropPart(t, part))
    PROVE  /\ Has(e, T, R, Q, V, F)
           /\ RowsStay(d, e) /\ CryptoStays(d, e)
<1>1. Possible(DropPart(t, part), d)
  BY DEF Possible, DropPart, Op, Has
<1>2. e = [d EXCEPT !.parts = @ \ {<<t, part>>}, !.data[t] = @]
  BY <1>1 DEF RunOp, Effect, DropPart, Op, Has
<1>. QED
  BY <1>2 DEF Has, RowsGrow, RowsShrink, RowsStay, SameRows, KeysStay, RightsStay, CryptoStays, Fields

LEMMA ReferenceStep ==
    ASSUME NEW d, NEW T, NEW R, NEW P, NEW V, NEW F, Has(d, T, R, P, V, F),
           NEW t, NEW other, t \in T /\ other \in T, NEW S, S = R \cup {<<t, other>>},
           NEW e, e = RunOp(d, Reference(t, other))
    PROVE  /\ Has(e, T, S, P, V, F)
           /\ RowsStay(d, e) /\ CryptoStays(d, e)
<1>1. Possible(Reference(t, other), d)
  BY DEF Possible, Reference, Op, Has
<1>2. e = [d EXCEPT !.refs = @ \cup {<<t, other>>}]
  BY <1>1 DEF RunOp, Effect, Reference, Op, Has
<1>. QED
  BY <1>2 DEF Has, RowsGrow, RowsShrink, RowsStay, SameRows, KeysStay, RightsStay, CryptoStays, Fields

LEMMA UnlinkStep ==
    ASSUME NEW d, NEW T, NEW R, NEW P, NEW V, NEW F, Has(d, T, R, P, V, F),
           NEW t, NEW other, <<t, other>> \in R, NEW S, S = R \ {<<t, other>>},
           NEW e, e = RunOp(d, Unlink(t, other))
    PROVE  /\ Has(e, T, S, P, V, F)
           /\ RowsStay(d, e) /\ CryptoStays(d, e)
<1>1. Possible(Unlink(t, other), d)
  BY DEF Possible, Unlink, Op, Has
<1>2. e = [d EXCEPT !.refs = @ \ {<<t, other>>}]
  BY <1>1 DEF RunOp, Effect, Unlink, Op, Has
<1>. QED
  BY <1>2 DEF Has, RowsGrow, RowsShrink, RowsStay, SameRows, KeysStay, RightsStay, CryptoStays, Fields

LEMMA VaultGrantStep ==
    ASSUME NEW d, NEW T, NEW R, NEW P, NEW V, NEW F, Has(d, T, R, P, V, F),
           NEW t, t \in T, NEW W, W = V \cup {t},
           NEW e, e = RunOp(d, VaultGrant(t))
    PROVE  /\ Has(e, T, R, P, W, F)
           /\ RowsStay(d, e) /\ CryptoStays(d, e)
<1>1. Possible(VaultGrant(t), d)
  BY DEF Possible, VaultGrant, Op, Has
<1>2. e = [d EXCEPT !.vault = @ \cup {t}]
  BY <1>1 DEF RunOp, Effect, VaultGrant, Op, Has
<1>. QED
  BY <1>2 DEF Has, RowsGrow, RowsShrink, RowsStay, SameRows, KeysStay, RightsStay, CryptoStays, Fields

LEMMA VaultRevokeStep ==
    ASSUME NEW d, NEW T, NEW R, NEW P, NEW V, NEW F, Has(d, T, R, P, V, F),
           NEW t, t \in T, NEW W, W = V \ {t},
           NEW e, e = RunOp(d, VaultRevoke(t))
    PROVE  /\ Has(e, T, R, P, W, F)
           /\ RowsStay(d, e) /\ CryptoStays(d, e)
<1>1. Possible(VaultRevoke(t), d)
  BY DEF Possible, VaultRevoke, Op, Has
<1>2. e = [d EXCEPT !.vault = @ \ {t}]
  BY <1>1 DEF RunOp, Effect, VaultRevoke, Op, Has
<1>. QED
  BY <1>2 DEF Has, RowsGrow, RowsShrink, RowsStay, SameRows, KeysStay, RightsStay, CryptoStays, Fields

LEMMA FunctionStep ==
    ASSUME NEW d, NEW T, NEW R, NEW P, NEW V, NEW F, Has(d, T, R, P, V, F),
           NEW f, NEW H, H = F \cup {f},
           NEW e, e = RunOp(d, Function(f))
    PROVE  /\ Has(e, T, R, P, V, H)
           /\ RowsStay(d, e) /\ KeysStay(d, e)
           /\ Executable(e, f) /\ \A g : Executable(d, g) => Executable(e, g)
<1>1. Possible(Function(f), d)
  BY DEF Possible, Function, Op, Has
<1>2. e = [d EXCEPT !.execute = [g \in DOMAIN @ \cup {f} |-> IF g = f THEN {"PUBLIC", "CURRENT_USER"} ELSE @[g]]]
  BY <1>1 DEF RunOp, Effect, Function, Op, Has
<1>. QED
  BY <1>2 DEF Has, RowsGrow, RowsShrink, RowsStay, SameRows, KeysStay, RightsStay, CryptoStays, Fields, Executable

LEMMA DropFunctionStep ==
    ASSUME NEW d, NEW T, NEW R, NEW P, NEW V, NEW F, Has(d, T, R, P, V, F),
           NEW f, NEW H, H = F \ {f},
           NEW e, e = RunOp(d, DropFunction(f))
    PROVE  /\ Has(e, T, R, P, V, H)
           /\ RowsStay(d, e) /\ KeysStay(d, e)
<1>1. Possible(DropFunction(f), d)
  BY DEF Possible, DropFunction, Op, Has
<1>2. e = [d EXCEPT !.execute = [g \in DOMAIN @ \ {f} |-> @[g]]]
  BY <1>1 DEF RunOp, Effect, DropFunction, Op, Has
<1>. QED
  BY <1>2 DEF Has, RowsGrow, RowsShrink, RowsStay, SameRows, KeysStay, RightsStay, CryptoStays, Fields

LEMMA GrantStep ==
    ASSUME NEW d, NEW T, NEW R, NEW P, NEW V, NEW F, Has(d, T, R, P, V, F),
           NEW f, NEW role, f \in F,
           NEW e, e = RunOp(d, Grant(f, role))
    PROVE  /\ Has(e, T, R, P, V, F)
           /\ RowsStay(d, e) /\ KeysStay(d, e)
           /\ role \in {"PUBLIC", "CURRENT_USER"} => Executable(e, f)
           /\ \A g : Executable(d, g) => Executable(e, g)
<1>1. Possible(Grant(f, role), d)
  BY DEF Possible, Grant, Op, Has
<1>2. e = [d EXCEPT !.execute[f] = @ \cup {role}]
  BY <1>1 DEF RunOp, Effect, Grant, Op, Has
<1>. QED
  BY <1>2 DEF Has, RowsGrow, RowsShrink, RowsStay, SameRows, KeysStay, RightsStay, CryptoStays, Fields, Executable

LEMMA RevokeStep ==
    ASSUME NEW d, NEW T, NEW R, NEW P, NEW V, NEW F, Has(d, T, R, P, V, F),
           NEW f, NEW role, f \in F,
           NEW e, e = RunOp(d, Revoke(f, role))
    PROVE  /\ Has(e, T, R, P, V, F)
           /\ RowsStay(d, e) /\ KeysStay(d, e)
<1>1. Possible(Revoke(f, role), d)
  BY DEF Possible, Revoke, Op, Has
<1>2. e = [d EXCEPT !.execute[f] = @ \ {role}]
  BY <1>1 DEF RunOp, Effect, Revoke, Op, Has
<1>. QED
  BY <1>2 DEF Has, RowsGrow, RowsShrink, RowsStay, SameRows, KeysStay, RightsStay, CryptoStays, Fields

LEMMA NewKeyStep ==
    ASSUME NEW d, NEW T, NEW R, NEW P, NEW V, NEW F, Has(d, T, R, P, V, F),
           "encryption_keys" \in T,
           NEW e, e = RunOp(d, NewKey)
    PROVE  /\ Has(e, T, R, P, V, F)
           /\ RowsStay(d, e) /\ RightsStay(d, e)
           /\ e.key = d.keys + 1 /\ e.keys = d.keys + 1
<1>1. Possible(NewKey, d)
  BY DEF Possible, NewKey, Op, Has
<1>2. e = [d EXCEPT !.key = d.keys + 1, !.keys = @ + 1]
  BY <1>1 DEF RunOp, Effect, NewKey, Op, Has
<1>. QED
  BY <1>2 DEF Has, RowsGrow, RowsShrink, RowsStay, SameRows, KeysStay, RightsStay, CryptoStays, Fields

LEMMA EncryptStep ==
    ASSUME NEW d, NEW T, NEW R, NEW P, NEW V, NEW F, Has(d, T, R, P, V, F),
           NEW t, t \in T, Executable(d, "encrypt_pii"), \A row \in d.data[t] : row.key = 0,
           NEW Q, Q = P \cup {<<t, "bytea">>},
           NEW e, e = RunOp(d, Encrypt(t))
    PROVE  /\ Has(e, T, R, Q, V, F) /\ CryptoStays(d, e)
           /\ e.data[t] = Keyed(d.data[t], d.key)
           /\ \A u \in T \ {t} : e.data[u] = d.data[u]
<1>1. Possible(Encrypt(t), d)
  BY DEF Possible, Encrypt, Op, Has
<1>2. e = [d EXCEPT !.data[t] = Keyed(@, d.key), !.parts = @ \cup {<<t, "bytea">>}]
  BY <1>1 DEF RunOp, Effect, Encrypt, Op, Has
<1>. QED
  BY <1>2 DEF Has, RowsGrow, RowsShrink, RowsStay, SameRows, KeysStay, RightsStay, CryptoStays, Fields

LEMMA DecryptStep ==
    ASSUME NEW d, NEW T, NEW R, NEW P, NEW V, NEW F, Has(d, T, R, P, V, F),
           NEW t, t \in T, Executable(d, "decrypt_pii"), \A row \in d.data[t] : row.key = d.key,
           NEW Q, Q = P \ {<<t, "bytea">>},
           NEW e, e = RunOp(d, Decrypt(t))
    PROVE  /\ Has(e, T, R, Q, V, F) /\ CryptoStays(d, e)
           /\ e.data[t] = Keyed(d.data[t], 0)
           /\ \A u \in T \ {t} : e.data[u] = d.data[u]
<1>1. Possible(Decrypt(t), d)
  BY DEF Possible, Decrypt, Op, Has
<1>2. e = [d EXCEPT !.data[t] = Keyed(@, 0), !.parts = @ \ {<<t, "bytea">>}]
  BY <1>1 DEF RunOp, Effect, Decrypt, Op, Has
<1>. QED
  BY <1>2 DEF Has, RowsGrow, RowsShrink, RowsStay, SameRows, KeysStay, RightsStay, CryptoStays, Fields

LEMMA RemoveUserStep ==
    ASSUME NEW d, NEW T, NEW R, NEW P, NEW V, NEW F, Has(d, T, R, P, V, F),
           NEW t, t \in T, <<t, "user_id">> \in P, NEW Q, Q = P \ {<<t, "user_id">>},
           NEW e, e = RunOp(d, DropPart(t, "user_id"))
    PROVE  /\ Has(e, T, R, Q, V, F) /\ CryptoStays(d, e)
           /\ e.data[t] = {[row EXCEPT !.user = "none"] : row \in d.data[t]}
           /\ \A u \in T \ {t} : e.data[u] = d.data[u]
<1>1. Possible(DropPart(t, "user_id"), d)
  BY DEF Possible, DropPart, Op, Has
<1>2. e = [d EXCEPT !.parts = @ \ {<<t, "user_id">>}, !.data[t] = {[row EXCEPT !.user = "none"] : row \in @}]
  BY <1>1 DEF RunOp, Effect, DropPart, Op, Has
<1>3. /\ DOMAIN e = Fields /\ e.ok = TRUE /\ RightsStay(d, e) /\ KeysStay(d, e)
      /\ e.tables = T /\ e.refs = R /\ e.parts = Q /\ e.vault = V
  BY <1>2 DEF Has, Fields, RightsStay, KeysStay
<1>4. e.data = [d.data EXCEPT ![t] = {[row EXCEPT !.user = "none"] : row \in d.data[t]}]
  BY <1>2 DEF Has, Fields
<1>5. /\ DOMAIN e.data = T /\ e.data[t] = {[row EXCEPT !.user = "none"] : row \in d.data[t]}
      /\ \A u \in T \ {t} : e.data[u] = d.data[u]
  BY <1>4 DEF Has
<1>. QED
  BY <1>3, <1>5 DEF Has, RightsStay, CryptoStays

LEMMA StaysExecutable ==
    ASSUME NEW d, NEW e, RightsStay(d, e), NEW g, Executable(d, g)
    PROVE  Executable(e, g)
  BY DEF RightsStay, Executable
LEMMA SetInduction ==
    ASSUME NEW F, 0 \in F, \A n \in Nat : n \in F => n + 1 \in F
    PROVE  Nat \subseteq F
<1>. DEFINE T == Nat \ F
            R == OpToRel(<, Nat)
<1>1. SUFFICES ASSUME T # {}
               PROVE  FALSE
  OBVIOUS
<1>2. IsWellFoundedOn(R, Nat)
  BY NatLessThanWellFounded
<1>3. \A m, n \in Nat : m < n => <<m, n>> \in R
  BY DEF OpToRel
<1>. HIDE DEF R
<1>4. PICK m \in T : \A n \in T : ~(<<n, m>> \in R)
  BY <1>1, <1>2, WFMin
<1>5. m \in Nat /\ m \notin F /\ m # 0
  OBVIOUS
<1>6. m - 1 \in Nat /\ m - 1 < m /\ (m - 1) + 1 = m
  BY <1>5
<1>7. m - 1 \in F
  BY <1>3, <1>4, <1>5, <1>6
<1>. QED
  BY <1>5, <1>6, <1>7

----------------------------------------------------------------------------
(* Migrations: a run of operations *)

RunOf(f, ops, d) ==
    f = [k \in 0..Len(ops) |-> IF k = 0 THEN d ELSE TheOne({RunOp(x, ops[k]) : x \in {f[k - 1]}})]
RunUpTo(n, f, ops, d) ==
    f = [k \in 0..n |-> IF k = 0 THEN d ELSE TheOne({RunOp(x, ops[k]) : x \in {f[k - 1]}})]

LEMMA RunsExist ==
    ASSUME NEW ops, NEW d, Len(ops) \in Nat
    PROVE  \E f : RunOf(f, ops, d)
<1>. DEFINE G == {n \in Nat : \E f : RunUpTo(n, f, ops, d)}
<1>1. 0 \in G
  <2>1. RunUpTo(0, [k \in 0..0 |-> d], ops, d)
    BY DEF RunUpTo
  <2>. QED
    BY <2>1
<1>2. ASSUME NEW n \in Nat, n \in G
      PROVE  n + 1 \in G
  <2>1. PICK f : RunUpTo(n, f, ops, d)
    BY <1>2
  <2>. DEFINE After(k, x) == TheOne({RunOp(y, ops[k]) : y \in {x}})
              h == [k \in 0..(n + 1) |-> IF k = n + 1 THEN After(n + 1, f[n]) ELSE f[k]]
  <2>2. \A k \in 0..n : f[k] = IF k = 0 THEN d ELSE After(k, f[k - 1])
    BY <2>1 DEF RunUpTo
  <2>. HIDE DEF After
  <2>3. h = [k \in 0..(n + 1) |-> IF k = 0 THEN d ELSE After(k, h[k - 1])]
    BY <2>2
  <2>4. RunUpTo(n + 1, h, ops, d)
    BY <2>3 DEF RunUpTo, After
  <2>. QED
    BY <2>4
<1>. HIDE DEF G
<1>3. Len(ops) \in G
  BY <1>1, <1>2, SetInduction
<1>. QED
  BY <1>3 DEF G, RunUpTo, RunOf

\* f is what a run of ops leaves of d, operation by operation.
Trace(f, ops, d) ==
    /\ f[0] = d /\ RunOps(ops, d) = f[Len(ops)]
    /\ \A k \in 1..Len(ops) : f[k] = RunOp(f[k - 1], ops[k])

LEMMA RunOpsTraced ==
    ASSUME NEW ops, NEW d, Len(ops) \in Nat
    PROVE  \E f : Trace(f, ops, d)
<1>1. \E f : RunOf(f, ops, d)
  BY RunsExist
<1>2. PICK f : RunOf(f, ops, d) /\ RunOps(ops, d) = f[Len(ops)]
  BY <1>1 DEF RunOps, RunOf
<1>3. \A x : TheOne({x}) = x
  BY DEF TheOne
<1>4. ASSUME NEW k \in 1..Len(ops)
      PROVE  f[k] = RunOp(f[k - 1], ops[k])
  <2>1. {RunOp(x, ops[k]) : x \in {f[k - 1]}} = {RunOp(f[k - 1], ops[k])}
    OBVIOUS
  <2>2. f[k] = TheOne({RunOp(x, ops[k]) : x \in {f[k - 1]}})
    <3>. DEFINE After(j, y) == TheOne({RunOp(x, ops[j]) : x \in {y}})
    <3>1. f = [j \in 0..Len(ops) |-> IF j = 0 THEN d ELSE After(j, f[j - 1])]
      BY <1>2, Zenon DEF RunOf
    <3>. HIDE DEF After
    <3>2. f[k] = After(k, f[k - 1])
      BY <3>1
    <3>. QED
      BY <3>2 DEF After
  <2>3. TheOne({RunOp(f[k - 1], ops[k])}) = RunOp(f[k - 1], ops[k])
    BY <1>3
  <2>4. TheOne({RunOp(x, ops[k]) : x \in {f[k - 1]}}) = TheOne({RunOp(f[k - 1], ops[k])})
    BY <2>1, Zenon
  <2>. QED
    BY <2>2, <2>3, <2>4
<1>5. f[0] = d
  BY <1>2 DEF RunOf
<1>6. Trace(f, ops, d)
  BY <1>2, <1>4, <1>5 DEF Trace
<1>. QED
  BY <1>6

LEMMA GrowOn ==
    ASSUME NEW b, NEW d, NEW e, RowsGrow(b, d), RowsGrow(d, e)
    PROVE  RowsGrow(b, e)
  BY DEF RowsGrow, SameRows

LEMMA ShrinkOn ==
    ASSUME NEW b, NEW d, NEW e, RowsShrink(b, d), RowsShrink(d, e)
    PROVE  RowsShrink(b, e)
  BY DEF RowsShrink, SameRows

LEMMA GrowAlong ==
    ASSUME NEW f, NEW i \in Nat, NEW n \in Nat, i <= n,
           \A k \in (i + 1)..n : RowsGrow(f[k - 1], f[k])
    PROVE  RowsGrow(f[i], f[n])
<1>. DEFINE G == {k \in Nat : i + k <= n => RowsGrow(f[i], f[i + k])}
<1>1. 0 \in G
  BY DEF RowsGrow, SameRows
<1>2. ASSUME NEW k \in Nat, k \in G
      PROVE  k + 1 \in G
  <2>1. CASE i + (k + 1) <= n
    <3>1. RowsGrow(f[i], f[i + k])
      BY <1>2, <2>1
    <3>2. RowsGrow(f[i + (k + 1) - 1], f[i + (k + 1)]) /\ i + (k + 1) - 1 = i + k
      BY <2>1
    <3>. QED
      BY <3>1, <3>2, GrowOn
  <2>. QED
    BY <2>1
<1>. HIDE DEF G
<1>3. n - i \in G
  BY <1>1, <1>2, SetInduction
<1>4. i + (n - i) = n
  OBVIOUS
<1>. QED
  BY <1>3, <1>4 DEF G

LEMMA ShrinkAlong ==
    ASSUME NEW f, NEW i \in Nat, NEW n \in Nat, i <= n,
           \A k \in (i + 1)..n : RowsShrink(f[k - 1], f[k])
    PROVE  RowsShrink(f[i], f[n])
<1>. DEFINE G == {k \in Nat : i + k <= n => RowsShrink(f[i], f[i + k])}
<1>1. 0 \in G
  BY DEF RowsShrink, SameRows
<1>2. ASSUME NEW k \in Nat, k \in G
      PROVE  k + 1 \in G
  <2>1. CASE i + (k + 1) <= n
    <3>1. RowsShrink(f[i], f[i + k])
      BY <1>2, <2>1
    <3>2. RowsShrink(f[i + (k + 1) - 1], f[i + (k + 1)]) /\ i + (k + 1) - 1 = i + k
      BY <2>1
    <3>. QED
      BY <3>1, <3>2, ShrinkOn
  <2>. QED
    BY <2>1
<1>. HIDE DEF G
<1>3. n - i \in G
  BY <1>1, <1>2, SetInduction
<1>4. i + (n - i) = n
  OBVIOUS
<1>. QED
  BY <1>3, <1>4 DEF G
----------------------------------------------------------------------------
(* Migrations: the revisions *)

T1 == {"jobs", "students", "guardians", "student_guardian", "pseudonym_map"}
R1 == {<<"student_guardian", "students">>, <<"student_guardian", "guardians">>}
P1 == {<<"jobs", "idx_jobs_status">>}
V1 == {"pseudonym_map"}
T2 == T1 \cup {"roles", "users", "user_roles", "courses", "groups", "enrollments", "activities",
      "encryption_keys", "consent"}
R2 == R1 \cup {<<"user_roles", "users">>, <<"user_roles", "roles">>, <<"students", "users">>, <<"guardians",
      "users">>, <<"courses", "users">>, <<"groups", "courses">>, <<"groups", "users">>, <<"enrollments",
      "students">>, <<"enrollments", "groups">>}
P2 == P1 \cup {<<"students", "user_id">>, <<"guardians", "user_id">>, <<"students", "bytea">>, <<"guardians",
      "bytea">>}
V2 == V1 \cup {"encryption_keys", "consent"}
T4 == T2 \cup {"subject_request"}
P4 == P2 \cup {<<"subject_request", "idx_subject_request_status">>}
V4 == V2 \cup {"subject_request"}
T5 == T4 \cup {"modules", "lessons", "schedule_slots", "student_stats", "badges", "student_badges"}
R5 == R2 \cup {<<"modules", "courses">>, <<"lessons", "modules">>, <<"schedule_slots", "groups">>,
      <<"student_stats", "students">>, <<"student_badges", "students">>, <<"student_badges", "badges">>}
P5 == P4 \cup {<<"modules", "ix_modules_course_id">>, <<"lessons", "ix_lessons_module_id">>, <<"enrollments",
      "progress">>, <<"enrollments", "ck_enrollments_progress">>, <<"schedule_slots",
      "ix_schedule_slots_group_id">>}
None == {}
Functions == {"encrypt_pii", "decrypt_pii"}

LEMMA InitialComes ==
    ASSUME NEW d, Has(d, None, None, None, None, None)
    PROVE  LET e == RunOps(InitialUp, d)
           IN  Has(e, T1, R1, P1, V1, None) /\ RowsGrow(d, e) /\ CryptoStays(d, e)
<1>. DEFINE Ta == {"jobs"}
            Tb == {"jobs", "students"}
            Tc == {"jobs", "students", "guardians"}
            Td == {"jobs", "students", "guardians", "student_guardian"}
<1>. HIDE DEF Ta, Tb, Tc, Td
<1>1. Len(InitialUp) = 7 /\ Len(InitialUp) \in Nat
  BY DEF InitialUp
<1>2. PICK f : Trace(f, InitialUp, d)
  BY <1>1, RunOpsTraced
<1>3. /\ f[0] = d /\ RunOps(InitialUp, d) = f[7]
      /\ f[1] = RunOp(f[0], Create("jobs", {}))
      /\ f[2] = RunOp(f[1], AddPart("jobs", "idx_jobs_status"))
      /\ f[3] = RunOp(f[2], Create("students", {}))
      /\ f[4] = RunOp(f[3], Create("guardians", {}))
      /\ f[5] = RunOp(f[4], Create("student_guardian", {"students", "guardians"}))
      /\ f[6] = RunOp(f[5], Create("pseudonym_map", {}))
      /\ f[7] = RunOp(f[6], VaultGrant("pseudonym_map"))
  BY <1>1, <1>2 DEF Trace, InitialUp
<1>4. Has(f[0], None, None, None, None, None)
  BY <1>3
<1>5. Has(f[1], Ta, None, None, None, None) /\ RowsGrow(f[0], f[1]) /\ CryptoStays(f[0], f[1])
  <2>1. f[1] = RunOp(f[0], Create("jobs", {}))
    BY <1>3
  <2>2. "jobs" \notin None
    BY DEF T1, R1, P1, V1, None
  <2>3. Ta = None \cup {"jobs"}
    BY DEF Ta, T1, R1, P1, V1, None
  <2>4. None = None \cup From("jobs", {})
    BY DEF T1, R1, P1, V1, None, From
  <2>. QED
    BY ONLY <1>4, <2>1, <2>2, <2>3, <2>4, CreateStep DEF RowsStay
<1>6. Has(f[2], Ta, None, P1, None, None) /\ RowsGrow(f[1], f[2]) /\ CryptoStays(f[1], f[2])
  <2>1. f[2] = RunOp(f[1], AddPart("jobs", "idx_jobs_status"))
    BY <1>3
  <2>2. "jobs" \in Ta
    BY DEF Ta, T1, R1, P1, V1, None
  <2>3. <<"jobs", "idx_jobs_status">> \notin None
    BY DEF T1, R1, P1, V1, None
  <2>4. P1 = None \cup {<<"jobs", "idx_jobs_status">>}
    BY DEF T1, R1, P1, V1, None
  <2>. QED
    BY ONLY <1>5, <2>1, <2>2, <2>3, <2>4, AddStep DEF RowsStay
<1>7. Has(f[3], Tb, None, P1, None, None) /\ RowsGrow(f[2], f[3]) /\ CryptoStays(f[2], f[3])
  <2>1. f[3] = RunOp(f[2], Create("students", {}))
    BY <1>3
  <2>2. "students" \notin Ta
    BY DEF Ta, T1, R1, P1, V1, None
  <2>3. Tb = Ta \cup {"students"}
    BY DEF Ta, Tb, T1, R1, P1, V1, None
  <2>4. None = None \cup From("students", {})
    BY DEF T1, R1, P1, V1, None, From
  <2>. QED
    BY ONLY <1>6, <2>1, <2>2, <2>3, <2>4, CreateStep DEF RowsStay
<1>8. Has(f[4], Tc, None, P1, None, None) /\ RowsGrow(f[3], f[4]) /\ CryptoStays(f[3], f[4])
  <2>1. f[4] = RunOp(f[3], Create("guardians", {}))
    BY <1>3
  <2>2. "guardians" \notin Tb
    BY DEF Tb, T1, R1, P1, V1, None
  <2>3. Tc = Tb \cup {"guardians"}
    BY DEF Tb, Tc, T1, R1, P1, V1, None
  <2>4. None = None \cup From("guardians", {})
    BY DEF T1, R1, P1, V1, None, From
  <2>. QED
    BY ONLY <1>7, <2>1, <2>2, <2>3, <2>4, CreateStep DEF RowsStay
<1>9. Has(f[5], Td, R1, P1, None, None) /\ RowsGrow(f[4], f[5]) /\ CryptoStays(f[4], f[5])
  <2>1. f[5] = RunOp(f[4], Create("student_guardian", {"students", "guardians"}))
    BY <1>3
  <2>2. "student_guardian" \notin Tc
    BY DEF Tc, T1, R1, P1, V1, None
  <2>3. {"students", "guardians"} \subseteq Tc
    BY DEF Tc, T1, R1, P1, V1, None
  <2>4. Td = Tc \cup {"student_guardian"}
    BY DEF Tc, Td, T1, R1, P1, V1, None
  <2>5. R1 = None \cup From("student_guardian", {"students", "guardians"})
    BY DEF T1, R1, P1, V1, None, From
  <2>. QED
    BY ONLY <1>8, <2>1, <2>2, <2>3, <2>4, <2>5, CreateStep DEF RowsStay
<1>10. Has(f[6], T1, R1, P1, None, None) /\ RowsGrow(f[5], f[6]) /\ CryptoStays(f[5], f[6])
  <2>1. f[6] = RunOp(f[5], Create("pseudonym_map", {}))
    BY <1>3
  <2>2. "pseudonym_map" \notin Td
    BY DEF Td, T1, R1, P1, V1, None
  <2>3. T1 = Td \cup {"pseudonym_map"}
    BY DEF Td, T1, R1, P1, V1, None
  <2>4. R1 = R1 \cup From("pseudonym_map", {})
    BY DEF T1, R1, P1, V1, None, From
  <2>. QED
    BY ONLY <1>9, <2>1, <2>2, <2>3, <2>4, CreateStep DEF RowsStay
<1>11. Has(f[7], T1, R1, P1, V1, None) /\ RowsGrow(f[6], f[7]) /\ CryptoStays(f[6], f[7])
  <2>1. f[7] = RunOp(f[6], VaultGrant("pseudonym_map"))
    BY <1>3
  <2>2. "pseudonym_map" \in T1
    BY DEF T1, R1, P1, V1, None
  <2>3. V1 = None \cup {"pseudonym_map"}
    BY DEF T1, R1, P1, V1, None
  <2>. QED
    BY ONLY <1>10, <2>1, <2>2, <2>3, VaultGrantStep DEF RowsStay
<1>12. RowsGrow(f[0], f[7])
  <2>1. \A k \in (0 + 1)..7 : RowsGrow(f[k - 1], f[k])
    BY <1>5, <1>6, <1>7, <1>8, <1>9, <1>10, <1>11
  <2>2. 0 \in Nat /\ 7 \in Nat /\ 0 <= 7
    OBVIOUS
  <2>. QED
    BY ONLY <2>1, <2>2, GrowAlong
<1>13. CryptoStays(f[0], f[7])
  BY <1>5, <1>6, <1>7, <1>8, <1>9, <1>10, <1>11 DEF CryptoStays, KeysStay, RightsStay
<1>. QED
  BY <1>3, <1>11, <1>12, <1>13

LEMMA InitialGoes ==
    ASSUME NEW d, Has(d, T1, R1, P1, V1, None)
    PROVE  LET e == RunOps(InitialDown, d)
           IN  Has(e, None, None, None, None, None) /\ RowsShrink(d, e) /\ CryptoStays(d, e)
<1>. DEFINE Ta == {"jobs", "students", "guardians", "student_guardian"}
            Tb == {"jobs", "students", "guardians"}
            Tc == {"jobs", "students"}
            Td == {"jobs"}
<1>. HIDE DEF Ta, Tb, Tc, Td
<1>1. Len(InitialDown) = 7 /\ Len(InitialDown) \in Nat
  BY DEF InitialDown
<1>2. PICK f : Trace(f, InitialDown, d)
  BY <1>1, RunOpsTraced
<1>3. /\ f[0] = d /\ RunOps(InitialDown, d) = f[7]
      /\ f[1] = RunOp(f[0], VaultRevoke("pseudonym_map"))
      /\ f[2] = RunOp(f[1], Drop("pseudonym_map"))
      /\ f[3] = RunOp(f[2], Drop("student_guardian"))
      /\ f[4] = RunOp(f[3], Drop("guardians"))
      /\ f[5] = RunOp(f[4], Drop("students"))
      /\ f[6] = RunOp(f[5], DropPart("jobs", "idx_jobs_status"))
      /\ f[7] = RunOp(f[6], Drop("jobs"))
  BY <1>1, <1>2 DEF Trace, InitialDown
<1>4. Has(f[0], T1, R1, P1, V1, None)
  BY <1>3
<1>5. Has(f[1], T1, R1, P1, None, None) /\ RowsShrink(f[0], f[1]) /\ CryptoStays(f[0], f[1])
  <2>1. f[1] = RunOp(f[0], VaultRevoke("pseudonym_map"))
    BY <1>3
  <2>2. "pseudonym_map" \in T1
    BY DEF T1, R1, P1, V1, None
  <2>3. None = V1 \ {"pseudonym_map"}
    BY DEF T1, R1, P1, V1, None
  <2>. QED
    BY ONLY <1>4, <2>1, <2>2, <2>3, VaultRevokeStep DEF RowsStay
<1>6. Has(f[2], Ta, R1, P1, None, None) /\ RowsShrink(f[1], f[2]) /\ CryptoStays(f[1], f[2])
  <2>1. f[2] = RunOp(f[1], Drop("pseudonym_map"))
    BY <1>3
  <2>2. "pseudonym_map" \in T1
    BY DEF T1, R1, P1, V1, None
  <2>3. \A u \in T1 : <<u, "pseudonym_map">> \notin R1
    BY DEF T1, R1, P1, V1, None
  <2>4. Ta = T1 \ {"pseudonym_map"}
    BY DEF Ta, T1, R1, P1, V1, None
  <2>5. R1 = Rest(R1, "pseudonym_map")
    BY DEF T1, R1, P1, V1, None, Rest
  <2>6. P1 = Rest(P1, "pseudonym_map")
    BY DEF T1, R1, P1, V1, None, Rest
  <2>7. None = None \ {"pseudonym_map"}
    BY DEF T1, R1, P1, V1, None
  <2>. QED
    BY ONLY <1>5, <2>1, <2>2, <2>3, <2>4, <2>5, <2>6, <2>7, DropStep
<1>7. Has(f[3], Tb, None, P1, None, None) /\ RowsShrink(f[2], f[3]) /\ CryptoStays(f[2], f[3])
  <2>1. f[3] = RunOp(f[2], Drop("student_guardian"))
    BY <1>3
  <2>2. "student_guardian" \in Ta
    BY DEF Ta, T1, R1, P1, V1, None
  <2>3. \A u \in Ta : <<u, "student_guardian">> \notin R1
    BY DEF Ta, T1, R1, P1, V1, None
  <2>4. Tb = Ta \ {"student_guardian"}
    BY DEF Ta, Tb, T1, R1, P1, V1, None
  <2>5. None = Rest(R1, "student_guardian")
    BY DEF T1, R1, P1, V1, None, Rest
  <2>6. P1 = Rest(P1, "student_guardian")
    BY DEF T1, R1, P1, V1, None, Rest
  <2>7. None = None \ {"student_guardian"}
    BY DEF T1, R1, P1, V1, None
  <2>. QED
    BY ONLY <1>6, <2>1, <2>2, <2>3, <2>4, <2>5, <2>6, <2>7, DropStep
<1>8. Has(f[4], Tc, None, P1, None, None) /\ RowsShrink(f[3], f[4]) /\ CryptoStays(f[3], f[4])
  <2>1. f[4] = RunOp(f[3], Drop("guardians"))
    BY <1>3
  <2>2. "guardians" \in Tb
    BY DEF Tb, T1, R1, P1, V1, None
  <2>3. \A u \in Tb : <<u, "guardians">> \notin None
    BY DEF Tb, T1, R1, P1, V1, None
  <2>4. Tc = Tb \ {"guardians"}
    BY DEF Tb, Tc, T1, R1, P1, V1, None
  <2>5. None = Rest(None, "guardians")
    BY DEF T1, R1, P1, V1, None, Rest
  <2>6. P1 = Rest(P1, "guardians")
    BY DEF T1, R1, P1, V1, None, Rest
  <2>7. None = None \ {"guardians"}
    BY DEF T1, R1, P1, V1, None
  <2>. QED
    BY ONLY <1>7, <2>1, <2>2, <2>3, <2>4, <2>5, <2>6, <2>7, DropStep
<1>9. Has(f[5], Td, None, P1, None, None) /\ RowsShrink(f[4], f[5]) /\ CryptoStays(f[4], f[5])
  <2>1. f[5] = RunOp(f[4], Drop("students"))
    BY <1>3
  <2>2. "students" \in Tc
    BY DEF Tc, T1, R1, P1, V1, None
  <2>3. \A u \in Tc : <<u, "students">> \notin None
    BY DEF Tc, T1, R1, P1, V1, None
  <2>4. Td = Tc \ {"students"}
    BY DEF Tc, Td, T1, R1, P1, V1, None
  <2>5. None = Rest(None, "students")
    BY DEF T1, R1, P1, V1, None, Rest
  <2>6. P1 = Rest(P1, "students")
    BY DEF T1, R1, P1, V1, None, Rest
  <2>7. None = None \ {"students"}
    BY DEF T1, R1, P1, V1, None
  <2>. QED
    BY ONLY <1>8, <2>1, <2>2, <2>3, <2>4, <2>5, <2>6, <2>7, DropStep
<1>10. Has(f[6], Td, None, None, None, None) /\ RowsShrink(f[5], f[6]) /\ CryptoStays(f[5], f[6])
  <2>1. f[6] = RunOp(f[5], DropPart("jobs", "idx_jobs_status"))
    BY <1>3
  <2>2. <<"jobs", "idx_jobs_status">> \in P1
    BY DEF T1, R1, P1, V1, None
  <2>3. None = P1 \ {<<"jobs", "idx_jobs_status">>}
    BY DEF T1, R1, P1, V1, None
  <2>. QED
    BY ONLY <1>9, <2>1, <2>2, <2>3, RemoveStep DEF RowsStay
<1>11. Has(f[7], None, None, None, None, None) /\ RowsShrink(f[6], f[7]) /\ CryptoStays(f[6], f[7])
  <2>1. f[7] = RunOp(f[6], Drop("jobs"))
    BY <1>3
  <2>2. "jobs" \in Td
    BY DEF Td, T1, R1, P1, V1, None
  <2>3. \A u \in Td : <<u, "jobs">> \notin None
    BY DEF Td, T1, R1, P1, V1, None
  <2>4. None = Td \ {"jobs"}
    BY DEF Td, T1, R1, P1, V1, None
  <2>5. None = Rest(None, "jobs")
    BY DEF T1, R1, P1, V1, None, Rest
  <2>6. None = Rest(None, "jobs")
    BY DEF T1, R1, P1, V1, None, Rest
  <2>7. None = None \ {"jobs"}
    BY DEF T1, R1, P1, V1, None
  <2>. QED
    BY ONLY <1>10, <2>1, <2>2, <2>3, <2>4, <2>5, <2>6, <2>7, DropStep
<1>12. RowsShrink(f[0], f[7])
  <2>1. \A k \in (0 + 1)..7 : RowsShrink(f[k - 1], f[k])
    BY <1>5, <1>6, <1>7, <1>8, <1>9, <1>10, <1>11
  <2>2. 0 \in Nat /\ 7 \in Nat /\ 0 <= 7
    OBVIOUS
  <2>. QED
    BY ONLY <2>1, <2>2, ShrinkAlong
<1>13. CryptoStays(f[0], f[7])
  BY <1>5, <1>6, <1>7, <1>8, <1>9, <1>10, <1>11 DEF CryptoStays, KeysStay, RightsStay
<1>. QED
  BY <1>3, <1>11, <1>12, <1>13

LEMMA GrantsCome ==
    ASSUME NEW d, Has(d, T2, R2, P2, V2, Functions)
    PROVE  LET e == RunOps(GrantsUp, d)
           IN  Has(e, T2, R2, P2, V2, Functions) /\ RowsGrow(d, e) /\ KeysStay(d, e)
               /\ Executable(e, "encrypt_pii") /\ Executable(e, "decrypt_pii")
<1>1. Len(GrantsUp) = 4 /\ Len(GrantsUp) \in Nat
  BY DEF GrantsUp
<1>2. PICK f : Trace(f, GrantsUp, d)
  BY <1>1, RunOpsTraced
<1>3. /\ f[0] = d /\ RunOps(GrantsUp, d) = f[4]
      /\ f[1] = RunOp(f[0], Revoke("encrypt_pii", "PUBLIC"))
      /\ f[2] = RunOp(f[1], Revoke("decrypt_pii", "PUBLIC"))
      /\ f[3] = RunOp(f[2], Grant("encrypt_pii", "CURRENT_USER"))
      /\ f[4] = RunOp(f[3], Grant("decrypt_pii", "CURRENT_USER"))
  BY <1>1, <1>2 DEF Trace, GrantsUp
<1>4. Has(f[0], T2, R2, P2, V2, Functions)
  BY <1>3
<1>5. Has(f[1], T2, R2, P2, V2, Functions) /\ RowsGrow(f[0], f[1]) /\ KeysStay(f[0], f[1])
  <2>1. f[1] = RunOp(f[0], Revoke("encrypt_pii", "PUBLIC"))
    BY <1>3
  <2>2. "encrypt_pii" \in Functions
    BY DEF Functions
  <2>. QED
    BY ONLY <1>4, <2>1, <2>2, RevokeStep DEF RowsStay
<1>6. Has(f[2], T2, R2, P2, V2, Functions) /\ RowsGrow(f[1], f[2]) /\ KeysStay(f[1], f[2])
  <2>1. f[2] = RunOp(f[1], Revoke("decrypt_pii", "PUBLIC"))
    BY <1>3
  <2>2. "decrypt_pii" \in Functions
    BY DEF Functions
  <2>. QED
    BY ONLY <1>5, <2>1, <2>2, RevokeStep DEF RowsStay
<1>7. /\ Has(f[3], T2, R2, P2, V2, Functions)
      /\ RowsGrow(f[2], f[3]) /\ KeysStay(f[2], f[3])
      /\ Executable(f[3], "encrypt_pii") /\ \A g : Executable(f[2], g) => Executable(f[3], g)
  <2>1. f[3] = RunOp(f[2], Grant("encrypt_pii", "CURRENT_USER"))
    BY <1>3
  <2>2. "encrypt_pii" \in Functions
    BY DEF Functions
  <2>. QED
    BY ONLY <1>6, <2>1, <2>2, GrantStep DEF RowsStay
<1>8. /\ Has(f[4], T2, R2, P2, V2, Functions)
      /\ RowsGrow(f[3], f[4]) /\ KeysStay(f[3], f[4])
      /\ Executable(f[4], "decrypt_pii") /\ \A g : Executable(f[3], g) => Executable(f[4], g)
  <2>1. f[4] = RunOp(f[3], Grant("decrypt_pii", "CURRENT_USER"))
    BY <1>3
  <2>2. "decrypt_pii" \in Functions
    BY DEF Functions
  <2>. QED
    BY ONLY <1>7, <2>1, <2>2, GrantStep DEF RowsStay
<1>9. RowsGrow(f[0], f[4])
  <2>1. \A k \in (0 + 1)..4 : RowsGrow(f[k - 1], f[k])
    BY <1>5, <1>6, <1>7, <1>8
  <2>2. 0 \in Nat /\ 4 \in Nat /\ 0 <= 4
    OBVIOUS
  <2>. QED
    BY ONLY <2>1, <2>2, GrowAlong
<1>10. KeysStay(f[0], f[4])
  BY <1>5, <1>6, <1>7, <1>8 DEF KeysStay
<1>11. Executable(f[4], "encrypt_pii") /\ Executable(f[4], "decrypt_pii")
  BY <1>5, <1>6, <1>7, <1>8
<1>. QED
  BY <1>3, <1>8, <1>9, <1>10, <1>11

LEMMA GrantsGo ==
    ASSUME NEW d, Has(d, T2, R2, P2, V2, Functions)
    PROVE  LET e == RunOps(GrantsDown, d)
           IN  Has(e, T2, R2, P2, V2, Functions) /\ RowsShrink(d, e) /\ KeysStay(d, e)
               /\ Executable(e, "encrypt_pii") /\ Executable(e, "decrypt_pii")
<1>1. Len(GrantsDown) = 4 /\ Len(GrantsDown) \in Nat
  BY DEF GrantsDown
<1>2. PICK f : Trace(f, GrantsDown, d)
  BY <1>1, RunOpsTraced
<1>3. /\ f[0] = d /\ RunOps(GrantsDown, d) = f[4]
      /\ f[1] = RunOp(f[0], Revoke("encrypt_pii", "CURRENT_USER"))
      /\ f[2] = RunOp(f[1], Revoke("decrypt_pii", "CURRENT_USER"))
      /\ f[3] = RunOp(f[2], Grant("encrypt_pii", "PUBLIC"))
      /\ f[4] = RunOp(f[3], Grant("decrypt_pii", "PUBLIC"))
  BY <1>1, <1>2 DEF Trace, GrantsDown
<1>4. Has(f[0], T2, R2, P2, V2, Functions)
  BY <1>3
<1>5. Has(f[1], T2, R2, P2, V2, Functions) /\ RowsShrink(f[0], f[1]) /\ KeysStay(f[0], f[1])
  <2>1. f[1] = RunOp(f[0], Revoke("encrypt_pii", "CURRENT_USER"))
    BY <1>3
  <2>2. "encrypt_pii" \in Functions
    BY DEF Functions
  <2>. QED
    BY ONLY <1>4, <2>1, <2>2, RevokeStep DEF RowsStay
<1>6. Has(f[2], T2, R2, P2, V2, Functions) /\ RowsShrink(f[1], f[2]) /\ KeysStay(f[1], f[2])
  <2>1. f[2] = RunOp(f[1], Revoke("decrypt_pii", "CURRENT_USER"))
    BY <1>3
  <2>2. "decrypt_pii" \in Functions
    BY DEF Functions
  <2>. QED
    BY ONLY <1>5, <2>1, <2>2, RevokeStep DEF RowsStay
<1>7. /\ Has(f[3], T2, R2, P2, V2, Functions)
      /\ RowsShrink(f[2], f[3]) /\ KeysStay(f[2], f[3])
      /\ Executable(f[3], "encrypt_pii") /\ \A g : Executable(f[2], g) => Executable(f[3], g)
  <2>1. f[3] = RunOp(f[2], Grant("encrypt_pii", "PUBLIC"))
    BY <1>3
  <2>2. "encrypt_pii" \in Functions
    BY DEF Functions
  <2>. QED
    BY ONLY <1>6, <2>1, <2>2, GrantStep DEF RowsStay
<1>8. /\ Has(f[4], T2, R2, P2, V2, Functions)
      /\ RowsShrink(f[3], f[4]) /\ KeysStay(f[3], f[4])
      /\ Executable(f[4], "decrypt_pii") /\ \A g : Executable(f[3], g) => Executable(f[4], g)
  <2>1. f[4] = RunOp(f[3], Grant("decrypt_pii", "PUBLIC"))
    BY <1>3
  <2>2. "decrypt_pii" \in Functions
    BY DEF Functions
  <2>. QED
    BY ONLY <1>7, <2>1, <2>2, GrantStep DEF RowsStay
<1>9. RowsShrink(f[0], f[4])
  <2>1. \A k \in (0 + 1)..4 : RowsShrink(f[k - 1], f[k])
    BY <1>5, <1>6, <1>7, <1>8
  <2>2. 0 \in Nat /\ 4 \in Nat /\ 0 <= 4
    OBVIOUS
  <2>. QED
    BY ONLY <2>1, <2>2, ShrinkAlong
<1>10. KeysStay(f[0], f[4])
  BY <1>5, <1>6, <1>7, <1>8 DEF KeysStay
<1>11. Executable(f[4], "encrypt_pii") /\ Executable(f[4], "decrypt_pii")
  BY <1>5, <1>6, <1>7, <1>8
<1>. QED
  BY <1>3, <1>8, <1>9, <1>10, <1>11

LEMMA RequestsCome ==
    ASSUME NEW d, Has(d, T2, R2, P2, V2, Functions)
    PROVE  LET e == RunOps(RequestsUp, d)
           IN  Has(e, T4, R2, P4, V4, Functions) /\ RowsGrow(d, e) /\ CryptoStays(d, e)
<1>1. Len(RequestsUp) = 3 /\ Len(RequestsUp) \in Nat
  BY DEF RequestsUp
<1>2. PICK f : Trace(f, RequestsUp, d)
  BY <1>1, RunOpsTraced
<1>3. /\ f[0] = d /\ RunOps(RequestsUp, d) = f[3]
      /\ f[1] = RunOp(f[0], Create("subject_request", {}))
      /\ f[2] = RunOp(f[1], AddPart("subject_request", "idx_subject_request_status"))
      /\ f[3] = RunOp(f[2], VaultGrant("subject_request"))
  BY <1>1, <1>2 DEF Trace, RequestsUp
<1>4. Has(f[0], T2, R2, P2, V2, Functions)
  BY <1>3
<1>5. Has(f[1], T4, R2, P2, V2, Functions) /\ RowsGrow(f[0], f[1]) /\ CryptoStays(f[0], f[1])
  <2>1. f[1] = RunOp(f[0], Create("subject_request", {}))
    BY <1>3
  <2>2. "subject_request" \notin T2
    BY DEF T1, R1, P1, V1, T2, R2, P2, V2, T4, P4, V4
  <2>3. T4 = T2 \cup {"subject_request"}
    BY DEF T1, R1, P1, V1, T2, R2, P2, V2, T4, P4, V4
  <2>4. R2 = R2 \cup From("subject_request", {})
    BY DEF T1, R1, P1, V1, T2, R2, P2, V2, T4, P4, V4, From
  <2>. QED
    BY ONLY <1>4, <2>1, <2>2, <2>3, <2>4, CreateStep DEF RowsStay
<1>6. Has(f[2], T4, R2, P4, V2, Functions) /\ RowsGrow(f[1], f[2]) /\ CryptoStays(f[1], f[2])
  <2>1. f[2] = RunOp(f[1], AddPart("subject_request", "idx_subject_request_status"))
    BY <1>3
  <2>2. "subject_request" \in T4
    BY DEF T1, R1, P1, V1, T2, R2, P2, V2, T4, P4, V4
  <2>3. <<"subject_request", "idx_subject_request_status">> \notin P2
    BY DEF T1, R1, P1, V1, T2, R2, P2, V2, T4, P4, V4
  <2>4. P4 = P2 \cup {<<"subject_request", "idx_subject_request_status">>}
    BY DEF T1, R1, P1, V1, T2, R2, P2, V2, T4, P4, V4
  <2>. QED
    BY ONLY <1>5, <2>1, <2>2, <2>3, <2>4, AddStep DEF RowsStay
<1>7. Has(f[3], T4, R2, P4, V4, Functions) /\ RowsGrow(f[2], f[3]) /\ CryptoStays(f[2], f[3])
  <2>1. f[3] = RunOp(f[2], VaultGrant("subject_request"))
    BY <1>3
  <2>2. "subject_request" \in T4
    BY DEF T1, R1, P1, V1, T2, R2, P2, V2, T4, P4, V4
  <2>3. V4 = V2 \cup {"subject_request"}
    BY DEF T1, R1, P1, V1, T2, R2, P2, V2, T4, P4, V4
  <2>. QED
    BY ONLY <1>6, <2>1, <2>2, <2>3, VaultGrantStep DEF RowsStay
<1>8. RowsGrow(f[0], f[3])
  <2>1. \A k \in (0 + 1)..3 : RowsGrow(f[k - 1], f[k])
    BY <1>5, <1>6, <1>7
  <2>2. 0 \in Nat /\ 3 \in Nat /\ 0 <= 3
    OBVIOUS
  <2>. QED
    BY ONLY <2>1, <2>2, GrowAlong
<1>9. CryptoStays(f[0], f[3])
  BY <1>5, <1>6, <1>7 DEF CryptoStays, KeysStay, RightsStay
<1>. QED
  BY <1>3, <1>7, <1>8, <1>9

LEMMA RequestsGo ==
    ASSUME NEW d, Has(d, T4, R2, P4, V4, Functions)
    PROVE  LET e == RunOps(RequestsDown, d)
           IN  Has(e, T2, R2, P2, V2, Functions) /\ RowsShrink(d, e) /\ CryptoStays(d, e)
<1>1. Len(RequestsDown) = 3 /\ Len(RequestsDown) \in Nat
  BY DEF RequestsDown
<1>2. PICK f : Trace(f, RequestsDown, d)
  BY <1>1, RunOpsTraced
<1>3. /\ f[0] = d /\ RunOps(RequestsDown, d) = f[3]
      /\ f[1] = RunOp(f[0], VaultRevoke("subject_request"))
      /\ f[2] = RunOp(f[1], DropPart("subject_request", "idx_subject_request_status"))
      /\ f[3] = RunOp(f[2], Drop("subject_request"))
  BY <1>1, <1>2 DEF Trace, RequestsDown
<1>4. Has(f[0], T4, R2, P4, V4, Functions)
  BY <1>3
<1>5. Has(f[1], T4, R2, P4, V2, Functions) /\ RowsShrink(f[0], f[1]) /\ CryptoStays(f[0], f[1])
  <2>1. f[1] = RunOp(f[0], VaultRevoke("subject_request"))
    BY <1>3
  <2>2. "subject_request" \in T4
    BY DEF T1, R1, P1, V1, T2, R2, P2, V2, T4, P4, V4
  <2>3. V2 = V4 \ {"subject_request"}
    BY DEF T1, R1, P1, V1, T2, R2, P2, V2, T4, P4, V4
  <2>. QED
    BY ONLY <1>4, <2>1, <2>2, <2>3, VaultRevokeStep DEF RowsStay
<1>6. Has(f[2], T4, R2, P2, V2, Functions) /\ RowsShrink(f[1], f[2]) /\ CryptoStays(f[1], f[2])
  <2>1. f[2] = RunOp(f[1], DropPart("subject_request", "idx_subject_request_status"))
    BY <1>3
  <2>2. <<"subject_request", "idx_subject_request_status">> \in P4
    BY DEF T1, R1, P1, V1, T2, R2, P2, V2, T4, P4, V4
  <2>3. P2 = P4 \ {<<"subject_request", "idx_subject_request_status">>}
    BY DEF T1, R1, P1, V1, T2, R2, P2, V2, T4, P4, V4
  <2>. QED
    BY ONLY <1>5, <2>1, <2>2, <2>3, RemoveStep DEF RowsStay
<1>7. Has(f[3], T2, R2, P2, V2, Functions) /\ RowsShrink(f[2], f[3]) /\ CryptoStays(f[2], f[3])
  <2>1. f[3] = RunOp(f[2], Drop("subject_request"))
    BY <1>3
  <2>2. "subject_request" \in T4
    BY DEF T1, R1, P1, V1, T2, R2, P2, V2, T4, P4, V4
  <2>3. \A u \in T4 : <<u, "subject_request">> \notin R2
    BY DEF T1, R1, P1, V1, T2, R2, P2, V2, T4, P4, V4
  <2>4. T2 = T4 \ {"subject_request"}
    BY DEF T1, R1, P1, V1, T2, R2, P2, V2, T4, P4, V4
  <2>5. R2 = Rest(R2, "subject_request")
    BY DEF T1, R1, P1, V1, T2, R2, P2, V2, T4, P4, V4, Rest
  <2>6. P2 = Rest(P2, "subject_request")
    BY DEF T1, R1, P1, V1, T2, R2, P2, V2, T4, P4, V4, Rest
  <2>7. V2 = V2 \ {"subject_request"}
    BY DEF T1, R1, P1, V1, T2, R2, P2, V2, T4, P4, V4
  <2>. QED
    BY ONLY <1>6, <2>1, <2>2, <2>3, <2>4, <2>5, <2>6, <2>7, DropStep
<1>8. RowsShrink(f[0], f[3])
  <2>1. \A k \in (0 + 1)..3 : RowsShrink(f[k - 1], f[k])
    BY <1>5, <1>6, <1>7
  <2>2. 0 \in Nat /\ 3 \in Nat /\ 0 <= 3
    OBVIOUS
  <2>. QED
    BY ONLY <2>1, <2>2, ShrinkAlong
<1>9. CryptoStays(f[0], f[3])
  BY <1>5, <1>6, <1>7 DEF CryptoStays, KeysStay, RightsStay
<1>. QED
  BY <1>3, <1>7, <1>8, <1>9

LEMMA PortalComes ==
    ASSUME NEW d, Has(d, T4, R2, P4, V4, Functions)
    PROVE  LET e == RunOps(PortalUp, d)
           IN  Has(e, T5, R5, P5, V4, Functions) /\ RowsGrow(d, e) /\ CryptoStays(d, e)
<1>. DEFINE Ta == T4 \cup {"modules"}
            Ra == R2 \cup {<<"modules", "courses">>}
            Pa == P4 \cup {<<"modules", "ix_modules_course_id">>}
            Tb == T4 \cup {"modules", "lessons"}
            Rb == R2 \cup {<<"modules", "courses">>, <<"lessons", "modules">>}
            Pb == P4 \cup {<<"modules", "ix_modules_course_id">>, <<"lessons", "ix_lessons_module_id">>}
            Pc == P4 \cup {<<"modules", "ix_modules_course_id">>, <<"lessons", "ix_lessons_module_id">>, <<"enrollments",
                  "progress">>}
            Pd == P4 \cup {<<"modules", "ix_modules_course_id">>, <<"lessons", "ix_lessons_module_id">>, <<"enrollments",
                  "progress">>, <<"enrollments", "ck_enrollments_progress">>}
            Tc == T4 \cup {"modules", "lessons", "schedule_slots"}
            Rc == R2 \cup {<<"modules", "courses">>, <<"lessons", "modules">>, <<"schedule_slots", "groups">>}
            Td == T4 \cup {"modules", "lessons", "schedule_slots", "student_stats"}
            Rd == R2 \cup {<<"modules", "courses">>, <<"lessons", "modules">>, <<"schedule_slots", "groups">>,
                  <<"student_stats", "students">>}
            Te == T4 \cup {"modules", "lessons", "schedule_slots", "student_stats", "badges"}
<1>. HIDE DEF Ta, Ra, Pa, Tb, Rb, Pb, Pc, Pd, Tc, Rc, Td, Rd, Te
<1>1. Len(PortalUp) = 11 /\ Len(PortalUp) \in Nat
  BY DEF PortalUp
<1>2. PICK f : Trace(f, PortalUp, d)
  BY <1>1, RunOpsTraced
<1>3. /\ f[0] = d /\ RunOps(PortalUp, d) = f[11]
      /\ f[1] = RunOp(f[0], Create("modules", {"courses"}))
      /\ f[2] = RunOp(f[1], AddPart("modules", "ix_modules_course_id"))
      /\ f[3] = RunOp(f[2], Create("lessons", {"modules"}))
      /\ f[4] = RunOp(f[3], AddPart("lessons", "ix_lessons_module_id"))
      /\ f[5] = RunOp(f[4], AddPart("enrollments", "progress"))
      /\ f[6] = RunOp(f[5], AddPart("enrollments", "ck_enrollments_progress"))
      /\ f[7] = RunOp(f[6], Create("schedule_slots", {"groups"}))
      /\ f[8] = RunOp(f[7], AddPart("schedule_slots", "ix_schedule_slots_group_id"))
      /\ f[9] = RunOp(f[8], Create("student_stats", {"students"}))
      /\ f[10] = RunOp(f[9], Create("badges", {}))
      /\ f[11] = RunOp(f[10], Create("student_badges", {"students", "badges"}))
  BY <1>1, <1>2 DEF Trace, PortalUp
<1>4. Has(f[0], T4, R2, P4, V4, Functions)
  BY <1>3
<1>5. Has(f[1], Ta, Ra, P4, V4, Functions) /\ RowsGrow(f[0], f[1]) /\ CryptoStays(f[0], f[1])
  <2>1. f[1] = RunOp(f[0], Create("modules", {"courses"}))
    BY <1>3
  <2>2. "modules" \notin T4
    BY DEF T1, R1, P1, V1, T2, R2, P2, V2, T4, P4, V4, T5, R5, P5
  <2>3. {"courses"} \subseteq T4
    BY DEF T1, R1, P1, V1, T2, R2, P2, V2, T4, P4, V4, T5, R5, P5
  <2>4. Ta = T4 \cup {"modules"}
    BY DEF Ta, T1, R1, P1, V1, T2, R2, P2, V2, T4, P4, V4, T5, R5, P5
  <2>5. Ra = R2 \cup From("modules", {"courses"})
    BY DEF Ra, T1, R1, P1, V1, T2, R2, P2, V2, T4, P4, V4, T5, R5, P5, From
  <2>. QED
    BY ONLY <1>4, <2>1, <2>2, <2>3, <2>4, <2>5, CreateStep DEF RowsStay
<1>6. Has(f[2], Ta, Ra, Pa, V4, Functions) /\ RowsGrow(f[1], f[2]) /\ CryptoStays(f[1], f[2])
  <2>1. f[2] = RunOp(f[1], AddPart("modules", "ix_modules_course_id"))
    BY <1>3
  <2>2. "modules" \in Ta
    BY DEF Ta, T1, R1, P1, V1, T2, R2, P2, V2, T4, P4, V4, T5, R5, P5
  <2>3. <<"modules", "ix_modules_course_id">> \notin P4
    BY DEF T1, R1, P1, V1, T2, R2, P2, V2, T4, P4, V4, T5, R5, P5
  <2>4. Pa = P4 \cup {<<"modules", "ix_modules_course_id">>}
    BY DEF Pa, T1, R1, P1, V1, T2, R2, P2, V2, T4, P4, V4, T5, R5, P5
  <2>. QED
    BY ONLY <1>5, <2>1, <2>2, <2>3, <2>4, AddStep DEF RowsStay
<1>7. Has(f[3], Tb, Rb, Pa, V4, Functions) /\ RowsGrow(f[2], f[3]) /\ CryptoStays(f[2], f[3])
  <2>1. f[3] = RunOp(f[2], Create("lessons", {"modules"}))
    BY <1>3
  <2>2. "lessons" \notin Ta
    BY DEF Ta, T1, R1, P1, V1, T2, R2, P2, V2, T4, P4, V4, T5, R5, P5
  <2>3. {"modules"} \subseteq Ta
    BY DEF Ta, T1, R1, P1, V1, T2, R2, P2, V2, T4, P4, V4, T5, R5, P5
  <2>4. Tb = Ta \cup {"lessons"}
    BY DEF Ta, Tb, T1, R1, P1, V1, T2, R2, P2, V2, T4, P4, V4, T5, R5, P5
  <2>5. Rb = Ra \cup From("lessons", {"modules"})
    BY DEF Ra, Rb, T1, R1, P1, V1, T2, R2, P2, V2, T4, P4, V4, T5, R5, P5, From
  <2>. QED
    BY ONLY <1>6, <2>1, <2>2, <2>3, <2>4, <2>5, CreateStep DEF RowsStay
<1>8. Has(f[4], Tb, Rb, Pb, V4, Functions) /\ RowsGrow(f[3], f[4]) /\ CryptoStays(f[3], f[4])
  <2>1. f[4] = RunOp(f[3], AddPart("lessons", "ix_lessons_module_id"))
    BY <1>3
  <2>2. "lessons" \in Tb
    BY DEF Tb, T1, R1, P1, V1, T2, R2, P2, V2, T4, P4, V4, T5, R5, P5
  <2>3. <<"lessons", "ix_lessons_module_id">> \notin Pa
    BY DEF Pa, T1, R1, P1, V1, T2, R2, P2, V2, T4, P4, V4, T5, R5, P5
  <2>4. Pb = Pa \cup {<<"lessons", "ix_lessons_module_id">>}
    BY DEF Pa, Pb, T1, R1, P1, V1, T2, R2, P2, V2, T4, P4, V4, T5, R5, P5
  <2>. QED
    BY ONLY <1>7, <2>1, <2>2, <2>3, <2>4, AddStep DEF RowsStay
<1>9. Has(f[5], Tb, Rb, Pc, V4, Functions) /\ RowsGrow(f[4], f[5]) /\ CryptoStays(f[4], f[5])
  <2>1. f[5] = RunOp(f[4], AddPart("enrollments", "progress"))
    BY <1>3
  <2>2. "enrollments" \in Tb
    BY DEF Tb, T1, R1, P1, V1, T2, R2, P2, V2, T4, P4, V4, T5, R5, P5
  <2>3. <<"enrollments", "progress">> \notin Pb
    BY DEF Pb, T1, R1, P1, V1, T2, R2, P2, V2, T4, P4, V4, T5, R5, P5
  <2>4. Pc = Pb \cup {<<"enrollments", "progress">>}
    BY DEF Pb, Pc, T1, R1, P1, V1, T2, R2, P2, V2, T4, P4, V4, T5, R5, P5
  <2>. QED
    BY ONLY <1>8, <2>1, <2>2, <2>3, <2>4, AddStep DEF RowsStay
<1>10. Has(f[6], Tb, Rb, Pd, V4, Functions) /\ RowsGrow(f[5], f[6]) /\ CryptoStays(f[5], f[6])
  <2>1. f[6] = RunOp(f[5], AddPart("enrollments", "ck_enrollments_progress"))
    BY <1>3
  <2>2. "enrollments" \in Tb
    BY DEF Tb, T1, R1, P1, V1, T2, R2, P2, V2, T4, P4, V4, T5, R5, P5
  <2>3. <<"enrollments", "ck_enrollments_progress">> \notin Pc
    BY DEF Pc, T1, R1, P1, V1, T2, R2, P2, V2, T4, P4, V4, T5, R5, P5
  <2>4. Pd = Pc \cup {<<"enrollments", "ck_enrollments_progress">>}
    BY DEF Pc, Pd, T1, R1, P1, V1, T2, R2, P2, V2, T4, P4, V4, T5, R5, P5
  <2>. QED
    BY ONLY <1>9, <2>1, <2>2, <2>3, <2>4, AddStep DEF RowsStay
<1>11. Has(f[7], Tc, Rc, Pd, V4, Functions) /\ RowsGrow(f[6], f[7]) /\ CryptoStays(f[6], f[7])
  <2>1. f[7] = RunOp(f[6], Create("schedule_slots", {"groups"}))
    BY <1>3
  <2>2. "schedule_slots" \notin Tb
    BY DEF Tb, T1, R1, P1, V1, T2, R2, P2, V2, T4, P4, V4, T5, R5, P5
  <2>3. {"groups"} \subseteq Tb
    BY DEF Tb, T1, R1, P1, V1, T2, R2, P2, V2, T4, P4, V4, T5, R5, P5
  <2>4. Tc = Tb \cup {"schedule_slots"}
    BY DEF Tb, Tc, T1, R1, P1, V1, T2, R2, P2, V2, T4, P4, V4, T5, R5, P5
  <2>5. Rc = Rb \cup From("schedule_slots", {"groups"})
    BY DEF Rb, Rc, T1, R1, P1, V1, T2, R2, P2, V2, T4, P4, V4, T5, R5, P5, From
  <2>. QED
    BY ONLY <1>10, <2>1, <2>2, <2>3, <2>4, <2>5, CreateStep DEF RowsStay
<1>12. Has(f[8], Tc, Rc, P5, V4, Functions) /\ RowsGrow(f[7], f[8]) /\ CryptoStays(f[7], f[8])
  <2>1. f[8] = RunOp(f[7], AddPart("schedule_slots", "ix_schedule_slots_group_id"))
    BY <1>3
  <2>2. "schedule_slots" \in Tc
    BY DEF Tc, T1, R1, P1, V1, T2, R2, P2, V2, T4, P4, V4, T5, R5, P5
  <2>3. <<"schedule_slots", "ix_schedule_slots_group_id">> \notin Pd
    BY DEF Pd, T1, R1, P1, V1, T2, R2, P2, V2, T4, P4, V4, T5, R5, P5
  <2>4. P5 = Pd \cup {<<"schedule_slots", "ix_schedule_slots_group_id">>}
    BY DEF Pd, T1, R1, P1, V1, T2, R2, P2, V2, T4, P4, V4, T5, R5, P5
  <2>. QED
    BY ONLY <1>11, <2>1, <2>2, <2>3, <2>4, AddStep DEF RowsStay
<1>13. Has(f[9], Td, Rd, P5, V4, Functions) /\ RowsGrow(f[8], f[9]) /\ CryptoStays(f[8], f[9])
  <2>1. f[9] = RunOp(f[8], Create("student_stats", {"students"}))
    BY <1>3
  <2>2. "student_stats" \notin Tc
    BY DEF Tc, T1, R1, P1, V1, T2, R2, P2, V2, T4, P4, V4, T5, R5, P5
  <2>3. {"students"} \subseteq Tc
    BY DEF Tc, T1, R1, P1, V1, T2, R2, P2, V2, T4, P4, V4, T5, R5, P5
  <2>4. Td = Tc \cup {"student_stats"}
    BY DEF Tc, Td, T1, R1, P1, V1, T2, R2, P2, V2, T4, P4, V4, T5, R5, P5
  <2>5. Rd = Rc \cup From("student_stats", {"students"})
    BY DEF Rc, Rd, T1, R1, P1, V1, T2, R2, P2, V2, T4, P4, V4, T5, R5, P5, From
  <2>. QED
    BY ONLY <1>12, <2>1, <2>2, <2>3, <2>4, <2>5, CreateStep DEF RowsStay
<1>14. Has(f[10], Te, Rd, P5, V4, Functions) /\ RowsGrow(f[9], f[10]) /\ CryptoStays(f[9], f[10])
  <2>1. f[10] = RunOp(f[9], Create("badges", {}))
    BY <1>3
  <2>2. "badges" \notin Td
    BY DEF Td, T1, R1, P1, V1, T2, R2, P2, V2, T4, P4, V4, T5, R5, P5
  <2>3. Te = Td \cup {"badges"}
    BY DEF Td, Te, T1, R1, P1, V1, T2, R2, P2, V2, T4, P4, V4, T5, R5, P5
  <2>4. Rd = Rd \cup From("badges", {})
    BY DEF Rd, T1, R1, P1, V1, T2, R2, P2, V2, T4, P4, V4, T5, R5, P5, From
  <2>. QED
    BY ONLY <1>13, <2>1, <2>2, <2>3, <2>4, CreateStep DEF RowsStay
<1>15. Has(f[11], T5, R5, P5, V4, Functions) /\ RowsGrow(f[10], f[11]) /\ CryptoStays(f[10], f[11])
  <2>1. f[11] = RunOp(f[10], Create("student_badges", {"students", "badges"}))
    BY <1>3
  <2>2. "student_badges" \notin Te
    BY DEF Te, T1, R1, P1, V1, T2, R2, P2, V2, T4, P4, V4, T5, R5, P5
  <2>3. {"students", "badges"} \subseteq Te
    BY DEF Te, T1, R1, P1, V1, T2, R2, P2, V2, T4, P4, V4, T5, R5, P5
  <2>4. T5 = Te \cup {"student_badges"}
    BY DEF Te, T1, R1, P1, V1, T2, R2, P2, V2, T4, P4, V4, T5, R5, P5
  <2>5. R5 = Rd \cup From("student_badges", {"students", "badges"})
    BY DEF Rd, T1, R1, P1, V1, T2, R2, P2, V2, T4, P4, V4, T5, R5, P5, From
  <2>. QED
    BY ONLY <1>14, <2>1, <2>2, <2>3, <2>4, <2>5, CreateStep DEF RowsStay
<1>16. RowsGrow(f[0], f[11])
  <2>1. \A k \in (0 + 1)..11 : RowsGrow(f[k - 1], f[k])
    BY <1>5, <1>6, <1>7, <1>8, <1>9, <1>10, <1>11, <1>12, <1>13, <1>14, <1>15
  <2>2. 0 \in Nat /\ 11 \in Nat /\ 0 <= 11
    OBVIOUS
  <2>. QED
    BY ONLY <2>1, <2>2, GrowAlong
<1>17. CryptoStays(f[0], f[11])
  BY <1>5, <1>6, <1>7, <1>8, <1>9, <1>10, <1>11, <1>12, <1>13, <1>14, <1>15 DEF CryptoStays, KeysStay, RightsStay
<1>. QED
  BY <1>3, <1>15, <1>16, <1>17

LEMMA PortalGoes ==
    ASSUME NEW d, Has(d, T5, R5, P5, V4, Functions)
    PROVE  LET e == RunOps(PortalDown, d)
           IN  Has(e, T4, R2, P4, V4, Functions) /\ RowsShrink(d, e) /\ CryptoStays(d, e)
<1>. DEFINE Ta == T4 \cup {"modules", "lessons", "schedule_slots", "student_stats", "badges"}
            Ra == R2 \cup {<<"modules", "courses">>, <<"lessons", "modules">>, <<"schedule_slots", "groups">>,
                  <<"student_stats", "students">>}
            Tb == T4 \cup {"modules", "lessons", "schedule_slots", "student_stats"}
            Tc == T4 \cup {"modules", "lessons", "schedule_slots"}
            Rb == R2 \cup {<<"modules", "courses">>, <<"lessons", "modules">>, <<"schedule_slots", "groups">>}
            Pa == P4 \cup {<<"modules", "ix_modules_course_id">>, <<"lessons", "ix_lessons_module_id">>, <<"enrollments",
                  "progress">>, <<"enrollments", "ck_enrollments_progress">>}
            Td == T4 \cup {"modules", "lessons"}
            Rc == R2 \cup {<<"modules", "courses">>, <<"lessons", "modules">>}
            Pb == P4 \cup {<<"modules", "ix_modules_course_id">>, <<"lessons", "ix_lessons_module_id">>, <<"enrollments",
                  "progress">>}
            Pc == P4 \cup {<<"modules", "ix_modules_course_id">>, <<"lessons", "ix_lessons_module_id">>}
            Pd == P4 \cup {<<"modules", "ix_modules_course_id">>}
            Te == T4 \cup {"modules"}
            Rd == R2 \cup {<<"modules", "courses">>}
<1>. HIDE DEF Ta, Ra, Tb, Tc, Rb, Pa, Td, Rc, Pb, Pc, Pd, Te, Rd
<1>1. Len(PortalDown) = 11 /\ Len(PortalDown) \in Nat
  BY DEF PortalDown
<1>2. PICK f : Trace(f, PortalDown, d)
  BY <1>1, RunOpsTraced
<1>3. /\ f[0] = d /\ RunOps(PortalDown, d) = f[11]
      /\ f[1] = RunOp(f[0], Drop("student_badges"))
      /\ f[2] = RunOp(f[1], Drop("badges"))
      /\ f[3] = RunOp(f[2], Drop("student_stats"))
      /\ f[4] = RunOp(f[3], DropPart("schedule_slots", "ix_schedule_slots_group_id"))
      /\ f[5] = RunOp(f[4], Drop("schedule_slots"))
      /\ f[6] = RunOp(f[5], DropPart("enrollments", "ck_enrollments_progress"))
      /\ f[7] = RunOp(f[6], DropPart("enrollments", "progress"))
      /\ f[8] = RunOp(f[7], DropPart("lessons", "ix_lessons_module_id"))
      /\ f[9] = RunOp(f[8], Drop("lessons"))
      /\ f[10] = RunOp(f[9], DropPart("modules", "ix_modules_course_id"))
      /\ f[11] = RunOp(f[10], Drop("modules"))
  BY <1>1, <1>2 DEF Trace, PortalDown
<1>4. Has(f[0], T5, R5, P5, V4, Functions)
  BY <1>3
<1>5. Has(f[1], Ta, Ra, P5, V4, Functions) /\ RowsShrink(f[0], f[1]) /\ CryptoStays(f[0], f[1])
  <2>1. f[1] = RunOp(f[0], Drop("student_badges"))
    BY <1>3
  <2>2. "student_badges" \in T5
    BY DEF T1, R1, P1, V1, T2, R2, P2, V2, T4, P4, V4, T5, R5, P5
  <2>3. \A u \in T5 : <<u, "student_badges">> \notin R5
    BY DEF T1, R1, P1, V1, T2, R2, P2, V2, T4, P4, V4, T5, R5, P5
  <2>4. Ta = T5 \ {"student_badges"}
    BY DEF Ta, T1, R1, P1, V1, T2, R2, P2, V2, T4, P4, V4, T5, R5, P5
  <2>5. Ra = Rest(R5, "student_badges")
    BY DEF Ra, T1, R1, P1, V1, T2, R2, P2, V2, T4, P4, V4, T5, R5, P5, Rest
  <2>6. P5 = Rest(P5, "student_badges")
    BY DEF T1, R1, P1, V1, T2, R2, P2, V2, T4, P4, V4, T5, R5, P5, Rest
  <2>7. V4 = V4 \ {"student_badges"}
    BY DEF T1, R1, P1, V1, T2, R2, P2, V2, T4, P4, V4, T5, R5, P5
  <2>. QED
    BY ONLY <1>4, <2>1, <2>2, <2>3, <2>4, <2>5, <2>6, <2>7, DropStep
<1>6. Has(f[2], Tb, Ra, P5, V4, Functions) /\ RowsShrink(f[1], f[2]) /\ CryptoStays(f[1], f[2])
  <2>1. f[2] = RunOp(f[1], Drop("badges"))
    BY <1>3
  <2>2. "badges" \in Ta
    BY DEF Ta, T1, R1, P1, V1, T2, R2, P2, V2, T4, P4, V4, T5, R5, P5
  <2>3. \A u \in Ta : <<u, "badges">> \notin Ra
    BY DEF Ra, Ta, T1, R1, P1, V1, T2, R2, P2, V2, T4, P4, V4, T5, R5, P5
  <2>4. Tb = Ta \ {"badges"}
    BY DEF Ta, Tb, T1, R1, P1, V1, T2, R2, P2, V2, T4, P4, V4, T5, R5, P5
  <2>5. Ra = Rest(Ra, "badges")
    BY DEF Ra, T1, R1, P1, V1, T2, R2, P2, V2, T4, P4, V4, T5, R5, P5, Rest
  <2>6. P5 = Rest(P5, "badges")
    BY DEF T1, R1, P1, V1, T2, R2, P2, V2, T4, P4, V4, T5, R5, P5, Rest
  <2>7. V4 = V4 \ {"badges"}
    BY DEF T1, R1, P1, V1, T2, R2, P2, V2, T4, P4, V4, T5, R5, P5
  <2>. QED
    BY ONLY <1>5, <2>1, <2>2, <2>3, <2>4, <2>5, <2>6, <2>7, DropStep
<1>7. Has(f[3], Tc, Rb, P5, V4, Functions) /\ RowsShrink(f[2], f[3]) /\ CryptoStays(f[2], f[3])
  <2>1. f[3] = RunOp(f[2], Drop("student_stats"))
    BY <1>3
  <2>2. "student_stats" \in Tb
    BY DEF Tb, T1, R1, P1, V1, T2, R2, P2, V2, T4, P4, V4, T5, R5, P5
  <2>3. \A u \in Tb : <<u, "student_stats">> \notin Ra
    BY DEF Ra, Tb, T1, R1, P1, V1, T2, R2, P2, V2, T4, P4, V4, T5, R5, P5
  <2>4. Tc = Tb \ {"student_stats"}
    BY DEF Tb, Tc, T1, R1, P1, V1, T2, R2, P2, V2, T4, P4, V4, T5, R5, P5
  <2>5. Rb = Rest(Ra, "student_stats")
    BY DEF Ra, Rb, T1, R1, P1, V1, T2, R2, P2, V2, T4, P4, V4, T5, R5, P5, Rest
  <2>6. P5 = Rest(P5, "student_stats")
    BY DEF T1, R1, P1, V1, T2, R2, P2, V2, T4, P4, V4, T5, R5, P5, Rest
  <2>7. V4 = V4 \ {"student_stats"}
    BY DEF T1, R1, P1, V1, T2, R2, P2, V2, T4, P4, V4, T5, R5, P5
  <2>. QED
    BY ONLY <1>6, <2>1, <2>2, <2>3, <2>4, <2>5, <2>6, <2>7, DropStep
<1>8. Has(f[4], Tc, Rb, Pa, V4, Functions) /\ RowsShrink(f[3], f[4]) /\ CryptoStays(f[3], f[4])
  <2>1. f[4] = RunOp(f[3], DropPart("schedule_slots", "ix_schedule_slots_group_id"))
    BY <1>3
  <2>2. <<"schedule_slots", "ix_schedule_slots_group_id">> \in P5
    BY DEF T1, R1, P1, V1, T2, R2, P2, V2, T4, P4, V4, T5, R5, P5
  <2>3. Pa = P5 \ {<<"schedule_slots", "ix_schedule_slots_group_id">>}
    BY DEF Pa, T1, R1, P1, V1, T2, R2, P2, V2, T4, P4, V4, T5, R5, P5
  <2>. QED
    BY ONLY <1>7, <2>1, <2>2, <2>3, RemoveStep DEF RowsStay
<1>9. Has(f[5], Td, Rc, Pa, V4, Functions) /\ RowsShrink(f[4], f[5]) /\ CryptoStays(f[4], f[5])
  <2>1. f[5] = RunOp(f[4], Drop("schedule_slots"))
    BY <1>3
  <2>2. "schedule_slots" \in Tc
    BY DEF Tc, T1, R1, P1, V1, T2, R2, P2, V2, T4, P4, V4, T5, R5, P5
  <2>3. \A u \in Tc : <<u, "schedule_slots">> \notin Rb
    BY DEF Rb, Tc, T1, R1, P1, V1, T2, R2, P2, V2, T4, P4, V4, T5, R5, P5
  <2>4. Td = Tc \ {"schedule_slots"}
    BY DEF Tc, Td, T1, R1, P1, V1, T2, R2, P2, V2, T4, P4, V4, T5, R5, P5
  <2>5. Rc = Rest(Rb, "schedule_slots")
    BY DEF Rb, Rc, T1, R1, P1, V1, T2, R2, P2, V2, T4, P4, V4, T5, R5, P5, Rest
  <2>6. Pa = Rest(Pa, "schedule_slots")
    BY DEF Pa, T1, R1, P1, V1, T2, R2, P2, V2, T4, P4, V4, T5, R5, P5, Rest
  <2>7. V4 = V4 \ {"schedule_slots"}
    BY DEF T1, R1, P1, V1, T2, R2, P2, V2, T4, P4, V4, T5, R5, P5
  <2>. QED
    BY ONLY <1>8, <2>1, <2>2, <2>3, <2>4, <2>5, <2>6, <2>7, DropStep
<1>10. Has(f[6], Td, Rc, Pb, V4, Functions) /\ RowsShrink(f[5], f[6]) /\ CryptoStays(f[5], f[6])
  <2>1. f[6] = RunOp(f[5], DropPart("enrollments", "ck_enrollments_progress"))
    BY <1>3
  <2>2. <<"enrollments", "ck_enrollments_progress">> \in Pa
    BY DEF Pa, T1, R1, P1, V1, T2, R2, P2, V2, T4, P4, V4, T5, R5, P5
  <2>3. Pb = Pa \ {<<"enrollments", "ck_enrollments_progress">>}
    BY DEF Pa, Pb, T1, R1, P1, V1, T2, R2, P2, V2, T4, P4, V4, T5, R5, P5
  <2>. QED
    BY ONLY <1>9, <2>1, <2>2, <2>3, RemoveStep DEF RowsStay
<1>11. Has(f[7], Td, Rc, Pc, V4, Functions) /\ RowsShrink(f[6], f[7]) /\ CryptoStays(f[6], f[7])
  <2>1. f[7] = RunOp(f[6], DropPart("enrollments", "progress"))
    BY <1>3
  <2>2. <<"enrollments", "progress">> \in Pb
    BY DEF Pb, T1, R1, P1, V1, T2, R2, P2, V2, T4, P4, V4, T5, R5, P5
  <2>3. Pc = Pb \ {<<"enrollments", "progress">>}
    BY DEF Pb, Pc, T1, R1, P1, V1, T2, R2, P2, V2, T4, P4, V4, T5, R5, P5
  <2>. QED
    BY ONLY <1>10, <2>1, <2>2, <2>3, RemoveStep DEF RowsStay
<1>12. Has(f[8], Td, Rc, Pd, V4, Functions) /\ RowsShrink(f[7], f[8]) /\ CryptoStays(f[7], f[8])
  <2>1. f[8] = RunOp(f[7], DropPart("lessons", "ix_lessons_module_id"))
    BY <1>3
  <2>2. <<"lessons", "ix_lessons_module_id">> \in Pc
    BY DEF Pc, T1, R1, P1, V1, T2, R2, P2, V2, T4, P4, V4, T5, R5, P5
  <2>3. Pd = Pc \ {<<"lessons", "ix_lessons_module_id">>}
    BY DEF Pc, Pd, T1, R1, P1, V1, T2, R2, P2, V2, T4, P4, V4, T5, R5, P5
  <2>. QED
    BY ONLY <1>11, <2>1, <2>2, <2>3, RemoveStep DEF RowsStay
<1>13. Has(f[9], Te, Rd, Pd, V4, Functions) /\ RowsShrink(f[8], f[9]) /\ CryptoStays(f[8], f[9])
  <2>1. f[9] = RunOp(f[8], Drop("lessons"))
    BY <1>3
  <2>2. "lessons" \in Td
    BY DEF Td, T1, R1, P1, V1, T2, R2, P2, V2, T4, P4, V4, T5, R5, P5
  <2>3. \A u \in Td : <<u, "lessons">> \notin Rc
    BY DEF Rc, Td, T1, R1, P1, V1, T2, R2, P2, V2, T4, P4, V4, T5, R5, P5
  <2>4. Te = Td \ {"lessons"}
    BY DEF Td, Te, T1, R1, P1, V1, T2, R2, P2, V2, T4, P4, V4, T5, R5, P5
  <2>5. Rd = Rest(Rc, "lessons")
    BY DEF Rc, Rd, T1, R1, P1, V1, T2, R2, P2, V2, T4, P4, V4, T5, R5, P5, Rest
  <2>6. Pd = Rest(Pd, "lessons")
    BY DEF Pd, T1, R1, P1, V1, T2, R2, P2, V2, T4, P4, V4, T5, R5, P5, Rest
  <2>7. V4 = V4 \ {"lessons"}
    BY DEF T1, R1, P1, V1, T2, R2, P2, V2, T4, P4, V4, T5, R5, P5
  <2>. QED
    BY ONLY <1>12, <2>1, <2>2, <2>3, <2>4, <2>5, <2>6, <2>7, DropStep
<1>14. Has(f[10], Te, Rd, P4, V4, Functions) /\ RowsShrink(f[9], f[10]) /\ CryptoStays(f[9], f[10])
  <2>1. f[10] = RunOp(f[9], DropPart("modules", "ix_modules_course_id"))
    BY <1>3
  <2>2. <<"modules", "ix_modules_course_id">> \in Pd
    BY DEF Pd, T1, R1, P1, V1, T2, R2, P2, V2, T4, P4, V4, T5, R5, P5
  <2>3. P4 = Pd \ {<<"modules", "ix_modules_course_id">>}
    BY DEF Pd, T1, R1, P1, V1, T2, R2, P2, V2, T4, P4, V4, T5, R5, P5
  <2>. QED
    BY ONLY <1>13, <2>1, <2>2, <2>3, RemoveStep DEF RowsStay
<1>15. Has(f[11], T4, R2, P4, V4, Functions) /\ RowsShrink(f[10], f[11]) /\ CryptoStays(f[10], f[11])
  <2>1. f[11] = RunOp(f[10], Drop("modules"))
    BY <1>3
  <2>2. "modules" \in Te
    BY DEF Te, T1, R1, P1, V1, T2, R2, P2, V2, T4, P4, V4, T5, R5, P5
  <2>3. \A u \in Te : <<u, "modules">> \notin Rd
    BY DEF Rd, Te, T1, R1, P1, V1, T2, R2, P2, V2, T4, P4, V4, T5, R5, P5
  <2>4. T4 = Te \ {"modules"}
    BY DEF Te, T1, R1, P1, V1, T2, R2, P2, V2, T4, P4, V4, T5, R5, P5
  <2>5. R2 = Rest(Rd, "modules")
    BY DEF Rd, T1, R1, P1, V1, T2, R2, P2, V2, T4, P4, V4, T5, R5, P5, Rest
  <2>6. P4 = Rest(P4, "modules")
    BY DEF T1, R1, P1, V1, T2, R2, P2, V2, T4, P4, V4, T5, R5, P5, Rest
  <2>7. V4 = V4 \ {"modules"}
    BY DEF T1, R1, P1, V1, T2, R2, P2, V2, T4, P4, V4, T5, R5, P5
  <2>. QED
    BY ONLY <1>14, <2>1, <2>2, <2>3, <2>4, <2>5, <2>6, <2>7, DropStep
<1>16. RowsShrink(f[0], f[11])
  <2>1. \A k \in (0 + 1)..11 : RowsShrink(f[k - 1], f[k])
    BY <1>5, <1>6, <1>7, <1>8, <1>9, <1>10, <1>11, <1>12, <1>13, <1>14, <1>15
  <2>2. 0 \in Nat /\ 11 \in Nat /\ 0 <= 11
    OBVIOUS
  <2>. QED
    BY ONLY <2>1, <2>2, ShrinkAlong
<1>17. CryptoStays(f[0], f[11])
  BY <1>5, <1>6, <1>7, <1>8, <1>9, <1>10, <1>11, <1>12, <1>13, <1>14, <1>15 DEF CryptoStays, KeysStay, RightsStay
<1>. QED
  BY <1>3, <1>15, <1>16, <1>17

Joins(u, s, m, t, n, S) ==
    /\ u \in Seq(S) /\ Len(u) = m + n
    /\ \A k \in Nat : 1 <= k /\ k <= m => u[k] = s[k]
    /\ \A k \in Nat : m < k /\ k <= m + n => u[k] = t[k - m]

LEMMA JoinedSeqs ==
    ASSUME NEW S, NEW s \in Seq(S), NEW t \in Seq(S), NEW m, Len(s) = m, NEW n, Len(t) = n
    PROVE  Joins(s \o t, s, m, t, n, S)
  BY DEF Joins

LEMMA UpTwo ==
    /\ Len(Up[2]) = 22 /\ Len(Up[2]) \in Nat
    /\ Up[2][1] = Create("roles", {})
    /\ Up[2][2] = Create("users", {})
    /\ Up[2][3] = Create("user_roles", {"users", "roles"})
    /\ Up[2][4] = AddPart("students", "user_id")
    /\ Up[2][5] = Reference("students", "users")
    /\ Up[2][6] = AddPart("guardians", "user_id")
    /\ Up[2][7] = Reference("guardians", "users")
    /\ Up[2][8] = Create("courses", {"users"})
    /\ Up[2][9] = Create("groups", {"courses", "users"})
    /\ Up[2][10] = Create("enrollments", {"students", "groups"})
    /\ Up[2][11] = Create("activities", {})
    /\ Up[2][12] = Create("encryption_keys", {})
    /\ Up[2][13] = NewKey
    /\ Up[2][14] = Function("encrypt_pii")
    /\ Up[2][15] = Function("decrypt_pii")
    /\ Up[2][16] = Grant("encrypt_pii", "PUBLIC")
    /\ Up[2][17] = Grant("decrypt_pii", "PUBLIC")
    /\ Up[2][18] = VaultGrant("encryption_keys")
    /\ Up[2][19] = Encrypt("students")
    /\ Up[2][20] = Encrypt("guardians")
    /\ Up[2][21] = Create("consent", {})
    /\ Up[2][22] = VaultGrant("consent")
<1>1. /\ Len(AccountTables) = 7 /\ Len(LearningTables) = 4
      /\ Len(EncryptionOfPii) = 9 /\ Len(ConsentTable) = 2
  BY DEF AccountTables, LearningTables, EncryptionOfPii, ConsentTable
<1>. DEFINE Any == UNION {{AccountTables[k] : k \in 1..7}, {LearningTables[k] : k \in 1..4},
                          {EncryptionOfPii[k] : k \in 1..9}, {ConsentTable[k] : k \in 1..2}}
<1>2. /\ AccountTables \in Seq(Any) /\ LearningTables \in Seq(Any)
      /\ EncryptionOfPii \in Seq(Any) /\ ConsentTable \in Seq(Any)
  BY DEF AccountTables, LearningTables, EncryptionOfPii, ConsentTable
<1>. HIDE DEF Any
<1>3. Up[2] = AccountTables \o LearningTables \o EncryptionOfPii \o ConsentTable
  BY DEF Up
<1>. DEFINE AL == AccountTables \o LearningTables
            ALE == AL \o EncryptionOfPii
<1>4. Joins(AL, AccountTables, 7, LearningTables, 4, Any)
  BY <1>1, <1>2, JoinedSeqs
<1>. HIDE DEF AL
<1>5. AL \in Seq(Any) /\ Len(AL) = 11
  BY <1>4 DEF Joins
<1>6. Joins(ALE, AL, 11, EncryptionOfPii, 9, Any)
  BY <1>1, <1>2, <1>5, JoinedSeqs
<1>. HIDE DEF ALE
<1>7. ALE \in Seq(Any) /\ Len(ALE) = 20
  BY <1>6 DEF Joins
<1>8. Joins(ALE \o ConsentTable, ALE, 20, ConsentTable, 2, Any)
  BY <1>1, <1>2, <1>7, JoinedSeqs
<1>9. Up[2] = ALE \o ConsentTable
  BY <1>3 DEF ALE, AL
<1>10. Len(Up[2]) = 22
  BY <1>8, <1>9 DEF Joins
<1>11. ASSUME NEW k \in 1..7
       PROVE  Up[2][k] = AccountTables[k]
  <2>1. AL[k] = AccountTables[k]
    BY <1>4 DEF Joins
  <2>2. ALE[k] = AL[k]
    BY <1>6 DEF Joins
  <2>. QED
    BY <1>8, <1>9, <2>1, <2>2 DEF Joins
<1>12. ASSUME NEW k \in 8..11
       PROVE  Up[2][k] = LearningTables[k - 7]
  <2>1. AL[k] = LearningTables[k - 7]
    BY <1>4 DEF Joins
  <2>2. ALE[k] = AL[k]
    BY <1>6 DEF Joins
  <2>. QED
    BY <1>8, <1>9, <2>1, <2>2 DEF Joins
<1>13. ASSUME NEW k \in 12..20
       PROVE  Up[2][k] = EncryptionOfPii[k - 11]
  <2>1. ALE[k] = EncryptionOfPii[k - 11]
    BY <1>6 DEF Joins
  <2>. QED
    BY <1>8, <1>9, <2>1 DEF Joins
<1>14. \A k \in 21..22 : Up[2][k] = ConsentTable[k - 20]
  BY <1>8, <1>9 DEF Joins
<1>15. /\ Up[2][1] = Create("roles", {})
       /\ Up[2][2] = Create("users", {})
       /\ Up[2][3] = Create("user_roles", {"users", "roles"})
       /\ Up[2][4] = AddPart("students", "user_id")
       /\ Up[2][5] = Reference("students", "users")
       /\ Up[2][6] = AddPart("guardians", "user_id")
       /\ Up[2][7] = Reference("guardians", "users")
  BY <1>11 DEF AccountTables
<1>16. /\ Up[2][8] = Create("courses", {"users"})
       /\ Up[2][9] = Create("groups", {"courses", "users"})
       /\ Up[2][10] = Create("enrollments", {"students", "groups"})
       /\ Up[2][11] = Create("activities", {})
  BY <1>12 DEF LearningTables
<1>17. /\ Up[2][12] = Create("encryption_keys", {})
       /\ Up[2][13] = NewKey
       /\ Up[2][14] = Function("encrypt_pii")
       /\ Up[2][15] = Function("decrypt_pii")
       /\ Up[2][16] = Grant("encrypt_pii", "PUBLIC")
       /\ Up[2][17] = Grant("decrypt_pii", "PUBLIC")
       /\ Up[2][18] = VaultGrant("encryption_keys")
       /\ Up[2][19] = Encrypt("students")
       /\ Up[2][20] = Encrypt("guardians")
  BY <1>13 DEF EncryptionOfPii
<1>18. /\ Up[2][21] = Create("consent", {})
       /\ Up[2][22] = VaultGrant("consent")
  BY <1>14 DEF ConsentTable
<1>. QED
  BY <1>10, <1>15, <1>16, <1>17, <1>18

People == {"students", "guardians"}

LEMMA AccountsCome ==
    ASSUME NEW d, Has(d, T1, R1, P1, V1, None),
           \A t \in People : \A row \in d.data[t] : row.key = 0
    PROVE  LET e == RunOps(Up[2], d)
           IN  /\ Has(e, T2, R2, P2, V2, Functions)
               /\ Executable(e, "encrypt_pii") /\ Executable(e, "decrypt_pii")
               /\ e.key = d.keys + 1 /\ e.keys = d.keys + 1
               /\ \A t \in People : e.data[t] = Keyed(d.data[t], d.keys + 1)
               /\ \A t \in T2 \ T1 : e.data[t] = {}
<1>. DEFINE Ta == T1 \cup {"roles"}
            Tb == T1 \cup {"roles", "users"}
            Tc == T1 \cup {"roles", "users", "user_roles"}
            Ra == R1 \cup {<<"user_roles", "users">>, <<"user_roles", "roles">>}
            Pa == P1 \cup {<<"students", "user_id">>}
            Rb == R1 \cup {<<"user_roles", "users">>, <<"user_roles", "roles">>, <<"students", "users">>}
            Pb == P1 \cup {<<"students", "user_id">>, <<"guardians", "user_id">>}
            Rc == R1 \cup {<<"user_roles", "users">>, <<"user_roles", "roles">>, <<"students", "users">>, <<"guardians",
                  "users">>}
            Td == T1 \cup {"roles", "users", "user_roles", "courses"}
            Rd == R1 \cup {<<"user_roles", "users">>, <<"user_roles", "roles">>, <<"students", "users">>, <<"guardians",
                  "users">>, <<"courses", "users">>}
            Te == T1 \cup {"roles", "users", "user_roles", "courses", "groups"}
            Re == R1 \cup {<<"user_roles", "users">>, <<"user_roles", "roles">>, <<"students", "users">>, <<"guardians",
                  "users">>, <<"courses", "users">>, <<"groups", "courses">>, <<"groups", "users">>}
            Tf == T1 \cup {"roles", "users", "user_roles", "courses", "groups", "enrollments"}
            Tg == T1 \cup {"roles", "users", "user_roles", "courses", "groups", "enrollments", "activities"}
            Th == T1 \cup {"roles", "users", "user_roles", "courses", "groups", "enrollments", "activities", "encryption_keys"}
            Fa == {"encrypt_pii"}
            Va == V1 \cup {"encryption_keys"}
            Pc == P1 \cup {<<"students", "user_id">>, <<"guardians", "user_id">>, <<"students", "bytea">>}
<1>. HIDE DEF Ta, Tb, Tc, Ra, Pa, Rb, Pb, Rc, Td, Rd, Te, Re, Tf, Tg, Th, Fa, Va, Pc
<1>1. Len(Up[2]) = 22 /\ Len(Up[2]) \in Nat
  BY UpTwo
<1>2. PICK f : Trace(f, Up[2], d)
  BY <1>1, RunOpsTraced
<1>3. /\ f[0] = d /\ RunOps(Up[2], d) = f[22]
      /\ f[1] = RunOp(f[0], Create("roles", {}))
      /\ f[2] = RunOp(f[1], Create("users", {}))
      /\ f[3] = RunOp(f[2], Create("user_roles", {"users", "roles"}))
      /\ f[4] = RunOp(f[3], AddPart("students", "user_id"))
      /\ f[5] = RunOp(f[4], Reference("students", "users"))
      /\ f[6] = RunOp(f[5], AddPart("guardians", "user_id"))
      /\ f[7] = RunOp(f[6], Reference("guardians", "users"))
      /\ f[8] = RunOp(f[7], Create("courses", {"users"}))
      /\ f[9] = RunOp(f[8], Create("groups", {"courses", "users"}))
      /\ f[10] = RunOp(f[9], Create("enrollments", {"students", "groups"}))
      /\ f[11] = RunOp(f[10], Create("activities", {}))
      /\ f[12] = RunOp(f[11], Create("encryption_keys", {}))
      /\ f[13] = RunOp(f[12], NewKey)
      /\ f[14] = RunOp(f[13], Function("encrypt_pii"))
      /\ f[15] = RunOp(f[14], Function("decrypt_pii"))
      /\ f[16] = RunOp(f[15], Grant("encrypt_pii", "PUBLIC"))
      /\ f[17] = RunOp(f[16], Grant("decrypt_pii", "PUBLIC"))
      /\ f[18] = RunOp(f[17], VaultGrant("encryption_keys"))
      /\ f[19] = RunOp(f[18], Encrypt("students"))
      /\ f[20] = RunOp(f[19], Encrypt("guardians"))
      /\ f[21] = RunOp(f[20], Create("consent", {}))
      /\ f[22] = RunOp(f[21], VaultGrant("consent"))
  BY <1>1, <1>2, UpTwo DEF Trace
<1>4. Has(f[0], T1, R1, P1, V1, None)
  BY <1>3
<1>5. Has(f[1], Ta, R1, P1, V1, None) /\ RowsGrow(f[0], f[1]) /\ CryptoStays(f[0], f[1])
  <2>1. f[1] = RunOp(f[0], Create("roles", {}))
    BY <1>3
  <2>2. "roles" \notin T1
    BY DEF T1, R1, P1, V1, T2, R2, P2, V2, Functions, None
  <2>3. Ta = T1 \cup {"roles"}
    BY DEF Ta, T1, R1, P1, V1, T2, R2, P2, V2, Functions, None
  <2>4. R1 = R1 \cup From("roles", {})
    BY DEF T1, R1, P1, V1, T2, R2, P2, V2, Functions, None, From
  <2>. QED
    BY ONLY <1>4, <2>1, <2>2, <2>3, <2>4, CreateStep DEF RowsStay
<1>6. Has(f[2], Tb, R1, P1, V1, None) /\ RowsGrow(f[1], f[2]) /\ CryptoStays(f[1], f[2])
  <2>1. f[2] = RunOp(f[1], Create("users", {}))
    BY <1>3
  <2>2. "users" \notin Ta
    BY DEF Ta, T1, R1, P1, V1, T2, R2, P2, V2, Functions, None
  <2>3. Tb = Ta \cup {"users"}
    BY DEF Ta, Tb, T1, R1, P1, V1, T2, R2, P2, V2, Functions, None
  <2>4. R1 = R1 \cup From("users", {})
    BY DEF T1, R1, P1, V1, T2, R2, P2, V2, Functions, None, From
  <2>. QED
    BY ONLY <1>5, <2>1, <2>2, <2>3, <2>4, CreateStep DEF RowsStay
<1>7. Has(f[3], Tc, Ra, P1, V1, None) /\ RowsGrow(f[2], f[3]) /\ CryptoStays(f[2], f[3])
  <2>1. f[3] = RunOp(f[2], Create("user_roles", {"users", "roles"}))
    BY <1>3
  <2>2. "user_roles" \notin Tb
    BY DEF Tb, T1, R1, P1, V1, T2, R2, P2, V2, Functions, None
  <2>3. {"users", "roles"} \subseteq Tb
    BY DEF Tb, T1, R1, P1, V1, T2, R2, P2, V2, Functions, None
  <2>4. Tc = Tb \cup {"user_roles"}
    BY DEF Tb, Tc, T1, R1, P1, V1, T2, R2, P2, V2, Functions, None
  <2>5. Ra = R1 \cup From("user_roles", {"users", "roles"})
    BY DEF Ra, T1, R1, P1, V1, T2, R2, P2, V2, Functions, None, From
  <2>. QED
    BY ONLY <1>6, <2>1, <2>2, <2>3, <2>4, <2>5, CreateStep DEF RowsStay
<1>8. Has(f[4], Tc, Ra, Pa, V1, None) /\ RowsGrow(f[3], f[4]) /\ CryptoStays(f[3], f[4])
  <2>1. f[4] = RunOp(f[3], AddPart("students", "user_id"))
    BY <1>3
  <2>2. "students" \in Tc
    BY DEF Tc, T1, R1, P1, V1, T2, R2, P2, V2, Functions, None
  <2>3. <<"students", "user_id">> \notin P1
    BY DEF T1, R1, P1, V1, T2, R2, P2, V2, Functions, None
  <2>4. Pa = P1 \cup {<<"students", "user_id">>}
    BY DEF Pa, T1, R1, P1, V1, T2, R2, P2, V2, Functions, None
  <2>. QED
    BY ONLY <1>7, <2>1, <2>2, <2>3, <2>4, AddStep DEF RowsStay
<1>9. Has(f[5], Tc, Rb, Pa, V1, None) /\ RowsGrow(f[4], f[5]) /\ CryptoStays(f[4], f[5])
  <2>1. f[5] = RunOp(f[4], Reference("students", "users"))
    BY <1>3
  <2>2. "students" \in Tc /\ "users" \in Tc
    BY DEF Tc, T1, R1, P1, V1, T2, R2, P2, V2, Functions, None
  <2>3. Rb = Ra \cup {<<"students", "users">>}
    BY DEF Ra, Rb, T1, R1, P1, V1, T2, R2, P2, V2, Functions, None
  <2>. QED
    BY ONLY <1>8, <2>1, <2>2, <2>3, ReferenceStep DEF RowsStay
<1>10. Has(f[6], Tc, Rb, Pb, V1, None) /\ RowsGrow(f[5], f[6]) /\ CryptoStays(f[5], f[6])
  <2>1. f[6] = RunOp(f[5], AddPart("guardians", "user_id"))
    BY <1>3
  <2>2. "guardians" \in Tc
    BY DEF Tc, T1, R1, P1, V1, T2, R2, P2, V2, Functions, None
  <2>3. <<"guardians", "user_id">> \notin Pa
    BY DEF Pa, T1, R1, P1, V1, T2, R2, P2, V2, Functions, None
  <2>4. Pb = Pa \cup {<<"guardians", "user_id">>}
    BY DEF Pa, Pb, T1, R1, P1, V1, T2, R2, P2, V2, Functions, None
  <2>. QED
    BY ONLY <1>9, <2>1, <2>2, <2>3, <2>4, AddStep DEF RowsStay
<1>11. Has(f[7], Tc, Rc, Pb, V1, None) /\ RowsGrow(f[6], f[7]) /\ CryptoStays(f[6], f[7])
  <2>1. f[7] = RunOp(f[6], Reference("guardians", "users"))
    BY <1>3
  <2>2. "guardians" \in Tc /\ "users" \in Tc
    BY DEF Tc, T1, R1, P1, V1, T2, R2, P2, V2, Functions, None
  <2>3. Rc = Rb \cup {<<"guardians", "users">>}
    BY DEF Rb, Rc, T1, R1, P1, V1, T2, R2, P2, V2, Functions, None
  <2>. QED
    BY ONLY <1>10, <2>1, <2>2, <2>3, ReferenceStep DEF RowsStay
<1>12. Has(f[8], Td, Rd, Pb, V1, None) /\ RowsGrow(f[7], f[8]) /\ CryptoStays(f[7], f[8])
  <2>1. f[8] = RunOp(f[7], Create("courses", {"users"}))
    BY <1>3
  <2>2. "courses" \notin Tc
    BY DEF Tc, T1, R1, P1, V1, T2, R2, P2, V2, Functions, None
  <2>3. {"users"} \subseteq Tc
    BY DEF Tc, T1, R1, P1, V1, T2, R2, P2, V2, Functions, None
  <2>4. Td = Tc \cup {"courses"}
    BY DEF Tc, Td, T1, R1, P1, V1, T2, R2, P2, V2, Functions, None
  <2>5. Rd = Rc \cup From("courses", {"users"})
    BY DEF Rc, Rd, T1, R1, P1, V1, T2, R2, P2, V2, Functions, None, From
  <2>. QED
    BY ONLY <1>11, <2>1, <2>2, <2>3, <2>4, <2>5, CreateStep DEF RowsStay
<1>13. Has(f[9], Te, Re, Pb, V1, None) /\ RowsGrow(f[8], f[9]) /\ CryptoStays(f[8], f[9])
  <2>1. f[9] = RunOp(f[8], Create("groups", {"courses", "users"}))
    BY <1>3
  <2>2. "groups" \notin Td
    BY DEF Td, T1, R1, P1, V1, T2, R2, P2, V2, Functions, None
  <2>3. {"courses", "users"} \subseteq Td
    BY DEF Td, T1, R1, P1, V1, T2, R2, P2, V2, Functions, None
  <2>4. Te = Td \cup {"groups"}
    BY DEF Td, Te, T1, R1, P1, V1, T2, R2, P2, V2, Functions, None
  <2>5. Re = Rd \cup From("groups", {"courses", "users"})
    BY DEF Rd, Re, T1, R1, P1, V1, T2, R2, P2, V2, Functions, None, From
  <2>. QED
    BY ONLY <1>12, <2>1, <2>2, <2>3, <2>4, <2>5, CreateStep DEF RowsStay
<1>14. Has(f[10], Tf, R2, Pb, V1, None) /\ RowsGrow(f[9], f[10]) /\ CryptoStays(f[9], f[10])
  <2>1. f[10] = RunOp(f[9], Create("enrollments", {"students", "groups"}))
    BY <1>3
  <2>2. "enrollments" \notin Te
    BY DEF Te, T1, R1, P1, V1, T2, R2, P2, V2, Functions, None
  <2>3. {"students", "groups"} \subseteq Te
    BY DEF Te, T1, R1, P1, V1, T2, R2, P2, V2, Functions, None
  <2>4. Tf = Te \cup {"enrollments"}
    BY DEF Te, Tf, T1, R1, P1, V1, T2, R2, P2, V2, Functions, None
  <2>5. R2 = Re \cup From("enrollments", {"students", "groups"})
    BY DEF Re, T1, R1, P1, V1, T2, R2, P2, V2, Functions, None, From
  <2>. QED
    BY ONLY <1>13, <2>1, <2>2, <2>3, <2>4, <2>5, CreateStep DEF RowsStay
<1>15. Has(f[11], Tg, R2, Pb, V1, None) /\ RowsGrow(f[10], f[11]) /\ CryptoStays(f[10], f[11])
  <2>1. f[11] = RunOp(f[10], Create("activities", {}))
    BY <1>3
  <2>2. "activities" \notin Tf
    BY DEF Tf, T1, R1, P1, V1, T2, R2, P2, V2, Functions, None
  <2>3. Tg = Tf \cup {"activities"}
    BY DEF Tf, Tg, T1, R1, P1, V1, T2, R2, P2, V2, Functions, None
  <2>4. R2 = R2 \cup From("activities", {})
    BY DEF T1, R1, P1, V1, T2, R2, P2, V2, Functions, None, From
  <2>. QED
    BY ONLY <1>14, <2>1, <2>2, <2>3, <2>4, CreateStep DEF RowsStay
<1>16. Has(f[12], Th, R2, Pb, V1, None) /\ RowsGrow(f[11], f[12]) /\ CryptoStays(f[11], f[12])
  <2>1. f[12] = RunOp(f[11], Create("encryption_keys", {}))
    BY <1>3
  <2>2. "encryption_keys" \notin Tg
    BY DEF Tg, T1, R1, P1, V1, T2, R2, P2, V2, Functions, None
  <2>3. Th = Tg \cup {"encryption_keys"}
    BY DEF Tg, Th, T1, R1, P1, V1, T2, R2, P2, V2, Functions, None
  <2>4. R2 = R2 \cup From("encryption_keys", {})
    BY DEF T1, R1, P1, V1, T2, R2, P2, V2, Functions, None, From
  <2>. QED
    BY ONLY <1>15, <2>1, <2>2, <2>3, <2>4, CreateStep DEF RowsStay
<1>17. Has(f[13], Th, R2, Pb, V1, None) /\ RowsGrow(f[12], f[13]) /\ RightsStay(f[12],
        f[13]) /\ f[13].key = f[12].keys + 1 /\ f[13].keys = f[12].keys + 1
  <2>1. f[13] = RunOp(f[12], NewKey)
    BY <1>3
  <2>2. "encryption_keys" \in Th
    BY DEF Th, T1, R1, P1, V1, T2, R2, P2, V2, Functions, None
  <2>. QED
    BY ONLY <1>16, <2>1, <2>2, NewKeyStep DEF RowsStay
<1>18. /\ Has(f[14], Th, R2, Pb, V1, Fa)
      /\ RowsGrow(f[13], f[14]) /\ KeysStay(f[13], f[14])
      /\ Executable(f[14], "encrypt_pii") /\ \A g : Executable(f[13], g) => Executable(f[14], g)
  <2>1. f[14] = RunOp(f[13], Function("encrypt_pii"))
    BY <1>3
  <2>2. Fa = None \cup {"encrypt_pii"}
    BY DEF Fa, T1, R1, P1, V1, T2, R2, P2, V2, Functions, None
  <2>. QED
    BY ONLY <1>17, <2>1, <2>2, FunctionStep DEF RowsStay
<1>19. /\ Has(f[15], Th, R2, Pb, V1, Functions)
      /\ RowsGrow(f[14], f[15]) /\ KeysStay(f[14], f[15])
      /\ Executable(f[15], "decrypt_pii") /\ \A g : Executable(f[14], g) => Executable(f[15], g)
  <2>1. f[15] = RunOp(f[14], Function("decrypt_pii"))
    BY <1>3
  <2>2. Functions = Fa \cup {"decrypt_pii"}
    BY DEF Fa, T1, R1, P1, V1, T2, R2, P2, V2, Functions, None
  <2>. QED
    BY ONLY <1>18, <2>1, <2>2, FunctionStep DEF RowsStay
<1>20. /\ Has(f[16], Th, R2, Pb, V1, Functions)
      /\ RowsGrow(f[15], f[16]) /\ KeysStay(f[15], f[16])
      /\ Executable(f[16], "encrypt_pii") /\ \A g : Executable(f[15], g) => Executable(f[16], g)
  <2>1. f[16] = RunOp(f[15], Grant("encrypt_pii", "PUBLIC"))
    BY <1>3
  <2>2. "encrypt_pii" \in Functions
    BY DEF T1, R1, P1, V1, T2, R2, P2, V2, Functions, None
  <2>. QED
    BY ONLY <1>19, <2>1, <2>2, GrantStep DEF RowsStay
<1>21. /\ Has(f[17], Th, R2, Pb, V1, Functions)
      /\ RowsGrow(f[16], f[17]) /\ KeysStay(f[16], f[17])
      /\ Executable(f[17], "decrypt_pii") /\ \A g : Executable(f[16], g) => Executable(f[17], g)
  <2>1. f[17] = RunOp(f[16], Grant("decrypt_pii", "PUBLIC"))
    BY <1>3
  <2>2. "decrypt_pii" \in Functions
    BY DEF T1, R1, P1, V1, T2, R2, P2, V2, Functions, None
  <2>. QED
    BY ONLY <1>20, <2>1, <2>2, GrantStep DEF RowsStay
<1>22. Has(f[18], Th, R2, Pb, Va, Functions) /\ RowsGrow(f[17], f[18]) /\ CryptoStays(f[17], f[18])
  <2>1. f[18] = RunOp(f[17], VaultGrant("encryption_keys"))
    BY <1>3
  <2>2. "encryption_keys" \in Th
    BY DEF Th, T1, R1, P1, V1, T2, R2, P2, V2, Functions, None
  <2>3. Va = V1 \cup {"encryption_keys"}
    BY DEF Va, T1, R1, P1, V1, T2, R2, P2, V2, Functions, None
  <2>. QED
    BY ONLY <1>21, <2>1, <2>2, <2>3, VaultGrantStep DEF RowsStay
<1>23. RowsGrow(f[0], f[18])
  <2>1. \A k \in (0 + 1)..18 : RowsGrow(f[k - 1], f[k])
    BY <1>5, <1>6, <1>7, <1>8, <1>9, <1>10, <1>11, <1>12, <1>13, <1>14, <1>15, <1>16, <1>17, <1>18, <1>19, <1>20,
       <1>21, <1>22
  <2>2. 0 \in Nat /\ 18 \in Nat /\ 0 <= 18
    OBVIOUS
  <2>. QED
    BY ONLY <2>1, <2>2, GrowAlong
<1>24. \A t \in People : f[18].data[t] = d.data[t]
  BY <1>3, <1>4, <1>22, <1>23 DEF Has, RowsGrow, SameRows, People, T1, T2
<1>25. f[12].keys = d.keys
  BY <1>3, <1>5, <1>6, <1>7, <1>8, <1>9, <1>10, <1>11, <1>12, <1>13, <1>14, <1>15, <1>16 DEF CryptoStays, KeysStay
<1>26. f[18].key = d.keys + 1 /\ f[18].keys = d.keys + 1
  BY <1>25, <1>17, <1>18, <1>19, <1>20, <1>21, <1>22 DEF CryptoStays, KeysStay
<1>27. Executable(f[17], "encrypt_pii") /\ Executable(f[17], "decrypt_pii")
  BY <1>18, <1>19, <1>20, <1>21
<1>28. Executable(f[18], "encrypt_pii") /\ Executable(f[18], "decrypt_pii")
  BY <1>22, <1>27, StaysExecutable DEF CryptoStays
<1>29. \A row \in f[18].data["students"] : row.key = 0
  BY <1>24 DEF People
<1>30. /\ Has(f[19], Th, R2, Pc, Va, Functions)
      /\ CryptoStays(f[18], f[19])
      /\ f[19].data["students"] = Keyed(f[18].data["students"], f[18].key)
      /\ \A u \in Th \ {"students"} : f[19].data[u] = f[18].data[u]
  <2>1. f[19] = RunOp(f[18], Encrypt("students"))
    BY <1>3
  <2>2. "students" \in Th
    BY DEF Th, T1, R1, P1, V1, T2, R2, P2, V2, Functions, None
  <2>3. Pc = Pb \cup {<<"students", "bytea">>}
    BY DEF Pb, Pc, T1, R1, P1, V1, T2, R2, P2, V2, Functions, None
  <2>. QED
    BY ONLY <1>22, <1>28, <1>29, <2>1, <2>2, <2>3, EncryptStep DEF CryptoStays
<1>31. Executable(f[19], "encrypt_pii") /\ Executable(f[19], "decrypt_pii")
  BY <1>30, <1>28, StaysExecutable DEF CryptoStays
<1>32. f[19].data["guardians"] = d.data["guardians"]
  BY <1>30, <1>24 DEF People, T1, Th
<1>33. \A row \in f[19].data["guardians"] : row.key = 0
  BY <1>32 DEF People
<1>34. /\ Has(f[20], Th, R2, P2, Va, Functions)
      /\ CryptoStays(f[19], f[20])
      /\ f[20].data["guardians"] = Keyed(f[19].data["guardians"], f[19].key)
      /\ \A u \in Th \ {"guardians"} : f[20].data[u] = f[19].data[u]
  <2>1. f[20] = RunOp(f[19], Encrypt("guardians"))
    BY <1>3
  <2>2. "guardians" \in Th
    BY DEF Th, T1, R1, P1, V1, T2, R2, P2, V2, Functions, None
  <2>3. P2 = Pc \cup {<<"guardians", "bytea">>}
    BY DEF Pc, T1, R1, P1, V1, T2, R2, P2, V2, Functions, None
  <2>. QED
    BY ONLY <1>30, <1>31, <1>33, <2>1, <2>2, <2>3, EncryptStep DEF CryptoStays
<1>35. Has(f[21], T2, R2, P2, Va, Functions) /\ RowsGrow(f[20], f[21]) /\ CryptoStays(f[20], f[21])
  <2>1. f[21] = RunOp(f[20], Create("consent", {}))
    BY <1>3
  <2>2. "consent" \notin Th
    BY DEF Th, T1, R1, P1, V1, T2, R2, P2, V2, Functions, None
  <2>3. T2 = Th \cup {"consent"}
    BY DEF Th, T1, R1, P1, V1, T2, R2, P2, V2, Functions, None
  <2>4. R2 = R2 \cup From("consent", {})
    BY DEF T1, R1, P1, V1, T2, R2, P2, V2, Functions, None, From
  <2>. QED
    BY ONLY <1>34, <2>1, <2>2, <2>3, <2>4, CreateStep DEF RowsStay
<1>36. Has(f[22], T2, R2, P2, V2, Functions) /\ RowsGrow(f[21], f[22]) /\ CryptoStays(f[21], f[22])
  <2>1. f[22] = RunOp(f[21], VaultGrant("consent"))
    BY <1>3
  <2>2. "consent" \in T2
    BY DEF T1, R1, P1, V1, T2, R2, P2, V2, Functions, None
  <2>3. V2 = Va \cup {"consent"}
    BY DEF Va, T1, R1, P1, V1, T2, R2, P2, V2, Functions, None
  <2>. QED
    BY ONLY <1>35, <2>1, <2>2, <2>3, VaultGrantStep DEF RowsStay
<1>37. RowsGrow(f[20], f[22])
  BY <1>35, <1>36, GrowOn
<1>38. CryptoStays(f[18], f[22])
  BY <1>30, <1>34, <1>35, <1>36 DEF CryptoStays, KeysStay, RightsStay
<1>39. Executable(f[22], "encrypt_pii") /\ Executable(f[22], "decrypt_pii")
  BY <1>28, <1>38, StaysExecutable DEF CryptoStays
<1>40. f[22].key = d.keys + 1 /\ f[22].keys = d.keys + 1
  BY <1>26, <1>38 DEF CryptoStays, KeysStay
<1>41. /\ f[20].data["students"] = Keyed(d.data["students"], d.keys + 1)
       /\ f[20].data["guardians"] = Keyed(d.data["guardians"], d.keys + 1)
  <2>1. "students" \in Th /\ "guardians" \in Th
    BY DEF Th, T1
  <2>2. f[19].data["students"] = Keyed(d.data["students"], d.keys + 1)
    BY <1>30, <1>24, <1>26 DEF People
  <2>3. f[19].key = d.keys + 1
    BY <1>30, <1>26 DEF CryptoStays, KeysStay
  <2>. QED
    BY <1>34, <1>32, <2>1, <2>2, <2>3
<1>42. \A t \in People : f[22].data[t] = Keyed(d.data[t], d.keys + 1)
  <2>1. People \subseteq DOMAIN f[20].data
    BY <1>34 DEF Has, People, Th, T1
  <2>. QED
    BY <1>37, <1>41, <2>1 DEF RowsGrow, SameRows, People
<1>43. \A t \in T2 \ T1 : f[22].data[t] = {}
  <2>1. ASSUME NEW t \in Th \ T1
        PROVE  f[20].data[t] = {}
    <3>1. f[18].data[t] = {}
      BY <1>3, <1>4, <1>22, <1>23, <2>1 DEF Has, RowsGrow, SameRows
    <3>2. t # "students" /\ t # "guardians"
      BY <2>1 DEF T1
    <3>. QED
      BY <1>30, <1>34, <2>1, <3>1, <3>2
  <2>2. DOMAIN f[20].data = Th /\ DOMAIN f[22].data = T2
    BY <1>34, <1>36 DEF Has
  <2>. QED
    BY <1>37, <2>1, <2>2 DEF RowsGrow, SameRows
<1>. QED
  BY <1>3, <1>36, <1>39, <1>40, <1>42, <1>43

LEMMA AccountsGo ==
    ASSUME NEW d, Has(d, T2, R2, P2, V2, Functions),
           Executable(d, "decrypt_pii"), \A t \in People : \A row \in d.data[t] : row.key = d.key
    PROVE  LET e == RunOps(AccountsDown, d)
           IN  /\ Has(e, T1, R1, P1, V1, None) /\ e.key = 0 /\ e.keys = d.keys
               /\ \A t \in People : e.data[t] = {[row EXCEPT !.user = "none"] : row \in Keyed(d.data[t], 0)}
<1>. DEFINE Va == V1 \cup {"encryption_keys"}
            Ta == T1 \cup {"roles", "users", "user_roles", "courses", "groups", "enrollments", "activities", "encryption_keys"}
            Pa == P1 \cup {<<"students", "user_id">>, <<"guardians", "user_id">>, <<"students", "bytea">>}
            Pb == P1 \cup {<<"students", "user_id">>, <<"guardians", "user_id">>}
            Fa == {"encrypt_pii"}
            Tb == T1 \cup {"roles", "users", "user_roles", "courses", "groups", "enrollments", "activities"}
            Tc == T1 \cup {"roles", "users", "user_roles", "courses", "groups", "enrollments"}
            Td == T1 \cup {"roles", "users", "user_roles", "courses", "groups"}
            Ra == R1 \cup {<<"user_roles", "users">>, <<"user_roles", "roles">>, <<"students", "users">>, <<"guardians",
                  "users">>, <<"courses", "users">>, <<"groups", "courses">>, <<"groups", "users">>}
            Te == T1 \cup {"roles", "users", "user_roles", "courses"}
            Rb == R1 \cup {<<"user_roles", "users">>, <<"user_roles", "roles">>, <<"students", "users">>, <<"guardians",
                  "users">>, <<"courses", "users">>}
            Tf == T1 \cup {"roles", "users", "user_roles"}
            Rc == R1 \cup {<<"user_roles", "users">>, <<"user_roles", "roles">>, <<"students", "users">>, <<"guardians",
                  "users">>}
            Rd == R1 \cup {<<"user_roles", "users">>, <<"user_roles", "roles">>, <<"guardians", "users">>}
            Pc == P1 \cup {<<"guardians", "user_id">>}
            Re == R1 \cup {<<"user_roles", "users">>, <<"user_roles", "roles">>}
            Tg == T1 \cup {"roles", "users"}
            Th == T1 \cup {"roles"}
<1>. HIDE DEF Va, Ta, Pa, Pb, Fa, Tb, Tc, Td, Ra, Te, Rb, Tf, Rc, Rd, Pc, Re, Tg, Th
<1>1. Len(AccountsDown) = 19 /\ Len(AccountsDown) \in Nat
  BY DEF AccountsDown
<1>2. PICK f : Trace(f, AccountsDown, d)
  BY <1>1, RunOpsTraced
<1>3. /\ f[0] = d /\ RunOps(AccountsDown, d) = f[19]
      /\ f[1] = RunOp(f[0], VaultRevoke("consent"))
      /\ f[2] = RunOp(f[1], Drop("consent"))
      /\ f[3] = RunOp(f[2], Decrypt("guardians"))
      /\ f[4] = RunOp(f[3], Decrypt("students"))
      /\ f[5] = RunOp(f[4], DropFunction("decrypt_pii"))
      /\ f[6] = RunOp(f[5], DropFunction("encrypt_pii"))
      /\ f[7] = RunOp(f[6], VaultRevoke("encryption_keys"))
      /\ f[8] = RunOp(f[7], Drop("encryption_keys"))
      /\ f[9] = RunOp(f[8], Drop("activities"))
      /\ f[10] = RunOp(f[9], Drop("enrollments"))
      /\ f[11] = RunOp(f[10], Drop("groups"))
      /\ f[12] = RunOp(f[11], Drop("courses"))
      /\ f[13] = RunOp(f[12], Unlink("students", "users"))
      /\ f[14] = RunOp(f[13], DropPart("students", "user_id"))
      /\ f[15] = RunOp(f[14], Unlink("guardians", "users"))
      /\ f[16] = RunOp(f[15], DropPart("guardians", "user_id"))
      /\ f[17] = RunOp(f[16], Drop("user_roles"))
      /\ f[18] = RunOp(f[17], Drop("users"))
      /\ f[19] = RunOp(f[18], Drop("roles"))
  BY <1>1, <1>2 DEF Trace, AccountsDown
<1>4. Has(f[0], T2, R2, P2, V2, Functions)
  BY <1>3
<1>5. Has(f[1], T2, R2, P2, Va, Functions) /\ RowsShrink(f[0], f[1]) /\ CryptoStays(f[0], f[1])
  <2>1. f[1] = RunOp(f[0], VaultRevoke("consent"))
    BY <1>3
  <2>2. "consent" \in T2
    BY DEF T1, R1, P1, V1, T2, R2, P2, V2, Functions, None
  <2>3. Va = V2 \ {"consent"}
    BY DEF Va, T1, R1, P1, V1, T2, R2, P2, V2, Functions, None
  <2>. QED
    BY ONLY <1>4, <2>1, <2>2, <2>3, VaultRevokeStep DEF RowsStay
<1>6. Has(f[2], Ta, R2, P2, Va, Functions) /\ RowsShrink(f[1], f[2]) /\ CryptoStays(f[1], f[2])
  <2>1. f[2] = RunOp(f[1], Drop("consent"))
    BY <1>3
  <2>2. "consent" \in T2
    BY DEF T1, R1, P1, V1, T2, R2, P2, V2, Functions, None
  <2>3. \A u \in T2 : <<u, "consent">> \notin R2
    BY DEF T1, R1, P1, V1, T2, R2, P2, V2, Functions, None
  <2>4. Ta = T2 \ {"consent"}
    BY DEF Ta, T1, R1, P1, V1, T2, R2, P2, V2, Functions, None
  <2>5. R2 = Rest(R2, "consent")
    BY DEF T1, R1, P1, V1, T2, R2, P2, V2, Functions, None, Rest
  <2>6. P2 = Rest(P2, "consent")
    BY DEF T1, R1, P1, V1, T2, R2, P2, V2, Functions, None, Rest
  <2>7. Va = Va \ {"consent"}
    BY DEF Va, T1, R1, P1, V1, T2, R2, P2, V2, Functions, None
  <2>. QED
    BY ONLY <1>5, <2>1, <2>2, <2>3, <2>4, <2>5, <2>6, <2>7, DropStep
<1>7. RowsShrink(f[0], f[2]) /\ CryptoStays(f[0], f[2])
  BY <1>5, <1>6, ShrinkOn DEF CryptoStays, KeysStay, RightsStay
<1>8. Executable(f[2], "decrypt_pii") /\ f[2].key = d.key
  BY <1>3, <1>7, StaysExecutable DEF CryptoStays, KeysStay
<1>9. \A t \in People : f[2].data[t] = d.data[t]
  BY <1>3, <1>4, <1>6, <1>7 DEF Has, RowsShrink, SameRows, People, T1, T2, Ta
<1>10. \A row \in f[2].data["guardians"] : row.key = f[2].key
  BY <1>8, <1>9 DEF People
<1>11. /\ Has(f[3], Ta, R2, Pa, Va, Functions)
      /\ CryptoStays(f[2], f[3])
      /\ f[3].data["guardians"] = Keyed(f[2].data["guardians"], 0)
      /\ \A u \in Ta \ {"guardians"} : f[3].data[u] = f[2].data[u]
  <2>1. f[3] = RunOp(f[2], Decrypt("guardians"))
    BY <1>3
  <2>2. "guardians" \in Ta
    BY DEF Ta, T1, R1, P1, V1, T2, R2, P2, V2, Functions, None
  <2>3. Pa = P2 \ {<<"guardians", "bytea">>}
    BY DEF Pa, T1, R1, P1, V1, T2, R2, P2, V2, Functions, None
  <2>. QED
    BY ONLY <1>6, <1>8, <1>10, <2>1, <2>2, <2>3, DecryptStep DEF CryptoStays
<1>12. Executable(f[3], "decrypt_pii") /\ f[3].key = d.key
  BY <1>11, <1>8, StaysExecutable DEF CryptoStays, KeysStay
<1>13. f[3].data["students"] = d.data["students"]
  BY <1>11, <1>9 DEF People, Ta, T1
<1>14. \A row \in f[3].data["students"] : row.key = f[3].key
  BY <1>12, <1>13 DEF People
<1>15. /\ Has(f[4], Ta, R2, Pb, Va, Functions)
      /\ CryptoStays(f[3], f[4])
      /\ f[4].data["students"] = Keyed(f[3].data["students"], 0)
      /\ \A u \in Ta \ {"students"} : f[4].data[u] = f[3].data[u]
  <2>1. f[4] = RunOp(f[3], Decrypt("students"))
    BY <1>3
  <2>2. "students" \in Ta
    BY DEF Ta, T1, R1, P1, V1, T2, R2, P2, V2, Functions, None
  <2>3. Pb = Pa \ {<<"students", "bytea">>}
    BY DEF Pa, Pb, T1, R1, P1, V1, T2, R2, P2, V2, Functions, None
  <2>. QED
    BY ONLY <1>11, <1>12, <1>14, <2>1, <2>2, <2>3, DecryptStep DEF CryptoStays
<1>16. \A t \in People : f[4].data[t] = Keyed(d.data[t], 0)
  BY <1>11, <1>15, <1>9, <1>13 DEF People, Ta, T1
<1>17. f[4].keys = d.keys
  BY <1>3, <1>11, <1>15, <1>7 DEF CryptoStays, KeysStay
<1>18. Has(f[5], Ta, R2, Pb, Va, Fa) /\ RowsShrink(f[4], f[5]) /\ KeysStay(f[4], f[5])
  <2>1. f[5] = RunOp(f[4], DropFunction("decrypt_pii"))
    BY <1>3
  <2>2. Fa = Functions \ {"decrypt_pii"}
    BY DEF Fa, T1, R1, P1, V1, T2, R2, P2, V2, Functions, None
  <2>. QED
    BY ONLY <1>15, <2>1, <2>2, DropFunctionStep DEF RowsStay
<1>19. Has(f[6], Ta, R2, Pb, Va, None) /\ RowsShrink(f[5], f[6]) /\ KeysStay(f[5], f[6])
  <2>1. f[6] = RunOp(f[5], DropFunction("encrypt_pii"))
    BY <1>3
  <2>2. None = Fa \ {"encrypt_pii"}
    BY DEF Fa, T1, R1, P1, V1, T2, R2, P2, V2, Functions, None
  <2>. QED
    BY ONLY <1>18, <2>1, <2>2, DropFunctionStep DEF RowsStay
<1>20. Has(f[7], Ta, R2, Pb, V1, None) /\ RowsShrink(f[6], f[7]) /\ CryptoStays(f[6], f[7])
  <2>1. f[7] = RunOp(f[6], VaultRevoke("encryption_keys"))
    BY <1>3
  <2>2. "encryption_keys" \in Ta
    BY DEF Ta, T1, R1, P1, V1, T2, R2, P2, V2, Functions, None
  <2>3. V1 = Va \ {"encryption_keys"}
    BY DEF Va, T1, R1, P1, V1, T2, R2, P2, V2, Functions, None
  <2>. QED
    BY ONLY <1>19, <2>1, <2>2, <2>3, VaultRevokeStep DEF RowsStay
<1>21. Has(f[8], Tb, R2, Pb, V1, None) /\ RowsShrink(f[7], f[8]) /\ f[8].key = 0 /\ f[8].keys = f[7].keys
  <2>1. f[8] = RunOp(f[7], Drop("encryption_keys"))
    BY <1>3
  <2>2. "encryption_keys" \in Ta
    BY DEF Ta, T1, R1, P1, V1, T2, R2, P2, V2, Functions, None
  <2>3. \A u \in Ta : <<u, "encryption_keys">> \notin R2
    BY DEF Ta, T1, R1, P1, V1, T2, R2, P2, V2, Functions, None
  <2>4. Tb = Ta \ {"encryption_keys"}
    BY DEF Ta, Tb, T1, R1, P1, V1, T2, R2, P2, V2, Functions, None
  <2>5. R2 = Rest(R2, "encryption_keys")
    BY DEF T1, R1, P1, V1, T2, R2, P2, V2, Functions, None, Rest
  <2>6. Pb = Rest(Pb, "encryption_keys")
    BY DEF Pb, T1, R1, P1, V1, T2, R2, P2, V2, Functions, None, Rest
  <2>7. V1 = V1 \ {"encryption_keys"}
    BY DEF T1, R1, P1, V1, T2, R2, P2, V2, Functions, None
  <2>. QED
    BY ONLY <1>20, <2>1, <2>2, <2>3, <2>4, <2>5, <2>6, <2>7, DropKeysStep
<1>22. Has(f[9], Tc, R2, Pb, V1, None) /\ RowsShrink(f[8], f[9]) /\ CryptoStays(f[8], f[9])
  <2>1. f[9] = RunOp(f[8], Drop("activities"))
    BY <1>3
  <2>2. "activities" \in Tb
    BY DEF Tb, T1, R1, P1, V1, T2, R2, P2, V2, Functions, None
  <2>3. \A u \in Tb : <<u, "activities">> \notin R2
    BY DEF Tb, T1, R1, P1, V1, T2, R2, P2, V2, Functions, None
  <2>4. Tc = Tb \ {"activities"}
    BY DEF Tb, Tc, T1, R1, P1, V1, T2, R2, P2, V2, Functions, None
  <2>5. R2 = Rest(R2, "activities")
    BY DEF T1, R1, P1, V1, T2, R2, P2, V2, Functions, None, Rest
  <2>6. Pb = Rest(Pb, "activities")
    BY DEF Pb, T1, R1, P1, V1, T2, R2, P2, V2, Functions, None, Rest
  <2>7. V1 = V1 \ {"activities"}
    BY DEF T1, R1, P1, V1, T2, R2, P2, V2, Functions, None
  <2>. QED
    BY ONLY <1>21, <2>1, <2>2, <2>3, <2>4, <2>5, <2>6, <2>7, DropStep
<1>23. Has(f[10], Td, Ra, Pb, V1, None) /\ RowsShrink(f[9], f[10]) /\ CryptoStays(f[9], f[10])
  <2>1. f[10] = RunOp(f[9], Drop("enrollments"))
    BY <1>3
  <2>2. "enrollments" \in Tc
    BY DEF Tc, T1, R1, P1, V1, T2, R2, P2, V2, Functions, None
  <2>3. \A u \in Tc : <<u, "enrollments">> \notin R2
    BY DEF Tc, T1, R1, P1, V1, T2, R2, P2, V2, Functions, None
  <2>4. Td = Tc \ {"enrollments"}
    BY DEF Tc, Td, T1, R1, P1, V1, T2, R2, P2, V2, Functions, None
  <2>5. Ra = Rest(R2, "enrollments")
    BY DEF Ra, T1, R1, P1, V1, T2, R2, P2, V2, Functions, None, Rest
  <2>6. Pb = Rest(Pb, "enrollments")
    BY DEF Pb, T1, R1, P1, V1, T2, R2, P2, V2, Functions, None, Rest
  <2>7. V1 = V1 \ {"enrollments"}
    BY DEF T1, R1, P1, V1, T2, R2, P2, V2, Functions, None
  <2>. QED
    BY ONLY <1>22, <2>1, <2>2, <2>3, <2>4, <2>5, <2>6, <2>7, DropStep
<1>24. Has(f[11], Te, Rb, Pb, V1, None) /\ RowsShrink(f[10], f[11]) /\ CryptoStays(f[10], f[11])
  <2>1. f[11] = RunOp(f[10], Drop("groups"))
    BY <1>3
  <2>2. "groups" \in Td
    BY DEF Td, T1, R1, P1, V1, T2, R2, P2, V2, Functions, None
  <2>3. \A u \in Td : <<u, "groups">> \notin Ra
    BY DEF Ra, Td, T1, R1, P1, V1, T2, R2, P2, V2, Functions, None
  <2>4. Te = Td \ {"groups"}
    BY DEF Td, Te, T1, R1, P1, V1, T2, R2, P2, V2, Functions, None
  <2>5. Rb = Rest(Ra, "groups")
    BY DEF Ra, Rb, T1, R1, P1, V1, T2, R2, P2, V2, Functions, None, Rest
  <2>6. Pb = Rest(Pb, "groups")
    BY DEF Pb, T1, R1, P1, V1, T2, R2, P2, V2, Functions, None, Rest
  <2>7. V1 = V1 \ {"groups"}
    BY DEF T1, R1, P1, V1, T2, R2, P2, V2, Functions, None
  <2>. QED
    BY ONLY <1>23, <2>1, <2>2, <2>3, <2>4, <2>5, <2>6, <2>7, DropStep
<1>25. Has(f[12], Tf, Rc, Pb, V1, None) /\ RowsShrink(f[11], f[12]) /\ CryptoStays(f[11], f[12])
  <2>1. f[12] = RunOp(f[11], Drop("courses"))
    BY <1>3
  <2>2. "courses" \in Te
    BY DEF Te, T1, R1, P1, V1, T2, R2, P2, V2, Functions, None
  <2>3. \A u \in Te : <<u, "courses">> \notin Rb
    BY DEF Rb, Te, T1, R1, P1, V1, T2, R2, P2, V2, Functions, None
  <2>4. Tf = Te \ {"courses"}
    BY DEF Te, Tf, T1, R1, P1, V1, T2, R2, P2, V2, Functions, None
  <2>5. Rc = Rest(Rb, "courses")
    BY DEF Rb, Rc, T1, R1, P1, V1, T2, R2, P2, V2, Functions, None, Rest
  <2>6. Pb = Rest(Pb, "courses")
    BY DEF Pb, T1, R1, P1, V1, T2, R2, P2, V2, Functions, None, Rest
  <2>7. V1 = V1 \ {"courses"}
    BY DEF T1, R1, P1, V1, T2, R2, P2, V2, Functions, None
  <2>. QED
    BY ONLY <1>24, <2>1, <2>2, <2>3, <2>4, <2>5, <2>6, <2>7, DropStep
<1>26. Has(f[13], Tf, Rd, Pb, V1, None) /\ RowsShrink(f[12], f[13]) /\ CryptoStays(f[12], f[13])
  <2>1. f[13] = RunOp(f[12], Unlink("students", "users"))
    BY <1>3
  <2>2. <<"students", "users">> \in Rc
    BY DEF Rc, T1, R1, P1, V1, T2, R2, P2, V2, Functions, None
  <2>3. Rd = Rc \ {<<"students", "users">>}
    BY DEF Rc, Rd, T1, R1, P1, V1, T2, R2, P2, V2, Functions, None
  <2>. QED
    BY ONLY <1>25, <2>1, <2>2, <2>3, UnlinkStep DEF RowsStay
<1>27. RowsShrink(f[4], f[13])
  <2>1. \A k \in (4 + 1)..13 : RowsShrink(f[k - 1], f[k])
    BY <1>18, <1>19, <1>20, <1>21, <1>22, <1>23, <1>24, <1>25, <1>26
  <2>2. 4 \in Nat /\ 13 \in Nat /\ 4 <= 13
    OBVIOUS
  <2>. QED
    BY ONLY <2>1, <2>2, ShrinkAlong
<1>28. \A t \in People : f[13].data[t] = Keyed(d.data[t], 0)
  BY <1>15, <1>26, <1>16, <1>27 DEF Has, RowsShrink, SameRows, People, T1, T2, Tf, Ta
<1>29. f[13].keys = d.keys /\ f[13].key = 0
  BY <1>17, <1>18, <1>19, <1>20, <1>21, <1>22, <1>23, <1>24, <1>25, <1>26 DEF CryptoStays, KeysStay
<1>30. /\ Has(f[14], Tf, Rd, Pc, V1, None)
      /\ CryptoStays(f[13], f[14])
      /\ f[14].data["students"] = {[row EXCEPT !.user = "none"] : row \in f[13].data["students"]}
      /\ \A u \in Tf \ {"students"} : f[14].data[u] = f[13].data[u]
  <2>1. f[14] = RunOp(f[13], DropPart("students", "user_id"))
    BY <1>3
  <2>2. "students" \in Tf
    BY DEF Tf, T1, R1, P1, V1, T2, R2, P2, V2, Functions, None
  <2>3. <<"students", "user_id">> \in Pb
    BY DEF Pb, T1, R1, P1, V1, T2, R2, P2, V2, Functions, None
  <2>4. Pc = Pb \ {<<"students", "user_id">>}
    BY DEF Pb, Pc, T1, R1, P1, V1, T2, R2, P2, V2, Functions, None
  <2>. QED
    BY ONLY <1>26, <2>1, <2>2, <2>3, <2>4, RemoveUserStep DEF CryptoStays
<1>31. Has(f[15], Tf, Re, Pc, V1, None) /\ RowsShrink(f[14], f[15]) /\ CryptoStays(f[14], f[15])
  <2>1. f[15] = RunOp(f[14], Unlink("guardians", "users"))
    BY <1>3
  <2>2. <<"guardians", "users">> \in Rd
    BY DEF Rd, T1, R1, P1, V1, T2, R2, P2, V2, Functions, None
  <2>3. Re = Rd \ {<<"guardians", "users">>}
    BY DEF Rd, Re, T1, R1, P1, V1, T2, R2, P2, V2, Functions, None
  <2>. QED
    BY ONLY <1>30, <2>1, <2>2, <2>3, UnlinkStep DEF RowsStay
<1>32. /\ Has(f[16], Tf, Re, P1, V1, None)
      /\ CryptoStays(f[15], f[16])
      /\ f[16].data["guardians"] = {[row EXCEPT !.user = "none"] : row \in f[15].data["guardians"]}
      /\ \A u \in Tf \ {"guardians"} : f[16].data[u] = f[15].data[u]
  <2>1. f[16] = RunOp(f[15], DropPart("guardians", "user_id"))
    BY <1>3
  <2>2. "guardians" \in Tf
    BY DEF Tf, T1, R1, P1, V1, T2, R2, P2, V2, Functions, None
  <2>3. <<"guardians", "user_id">> \in Pc
    BY DEF Pc, T1, R1, P1, V1, T2, R2, P2, V2, Functions, None
  <2>4. P1 = Pc \ {<<"guardians", "user_id">>}
    BY DEF Pc, T1, R1, P1, V1, T2, R2, P2, V2, Functions, None
  <2>. QED
    BY ONLY <1>31, <2>1, <2>2, <2>3, <2>4, RemoveUserStep DEF CryptoStays
<1>33. \A t \in People : f[16].data[t] = {[row EXCEPT !.user = "none"] : row \in Keyed(d.data[t], 0)}
  <2>1. /\ "students" \in Tf /\ "guardians" \in Tf /\ DOMAIN f[14].data = Tf /\ DOMAIN f[15].data = Tf
    BY <1>30, <1>31 DEF Has, Tf, T1
  <2>2. f[15].data["students"] = f[14].data["students"] /\ f[15].data["guardians"] = f[14].data["guardians"]
    BY <1>31, <2>1 DEF RowsShrink, SameRows
  <2>3. f[14].data["guardians"] = f[13].data["guardians"] /\ f[16].data["students"] = f[15].data["students"]
    BY <1>30, <1>32, <2>1
  <2>. QED
    BY <1>30, <1>32, <1>28, <2>2, <2>3 DEF People
<1>34. Has(f[17], Tg, R1, P1, V1, None) /\ RowsShrink(f[16], f[17]) /\ CryptoStays(f[16], f[17])
  <2>1. f[17] = RunOp(f[16], Drop("user_roles"))
    BY <1>3
  <2>2. "user_roles" \in Tf
    BY DEF Tf, T1, R1, P1, V1, T2, R2, P2, V2, Functions, None
  <2>3. \A u \in Tf : <<u, "user_roles">> \notin Re
    BY DEF Re, Tf, T1, R1, P1, V1, T2, R2, P2, V2, Functions, None
  <2>4. Tg = Tf \ {"user_roles"}
    BY DEF Tf, Tg, T1, R1, P1, V1, T2, R2, P2, V2, Functions, None
  <2>5. R1 = Rest(Re, "user_roles")
    BY DEF Re, T1, R1, P1, V1, T2, R2, P2, V2, Functions, None, Rest
  <2>6. P1 = Rest(P1, "user_roles")
    BY DEF T1, R1, P1, V1, T2, R2, P2, V2, Functions, None, Rest
  <2>7. V1 = V1 \ {"user_roles"}
    BY DEF T1, R1, P1, V1, T2, R2, P2, V2, Functions, None
  <2>. QED
    BY ONLY <1>32, <2>1, <2>2, <2>3, <2>4, <2>5, <2>6, <2>7, DropStep
<1>35. Has(f[18], Th, R1, P1, V1, None) /\ RowsShrink(f[17], f[18]) /\ CryptoStays(f[17], f[18])
  <2>1. f[18] = RunOp(f[17], Drop("users"))
    BY <1>3
  <2>2. "users" \in Tg
    BY DEF Tg, T1, R1, P1, V1, T2, R2, P2, V2, Functions, None
  <2>3. \A u \in Tg : <<u, "users">> \notin R1
    BY DEF Tg, T1, R1, P1, V1, T2, R2, P2, V2, Functions, None
  <2>4. Th = Tg \ {"users"}
    BY DEF Tg, Th, T1, R1, P1, V1, T2, R2, P2, V2, Functions, None
  <2>5. R1 = Rest(R1, "users")
    BY DEF T1, R1, P1, V1, T2, R2, P2, V2, Functions, None, Rest
  <2>6. P1 = Rest(P1, "users")
    BY DEF T1, R1, P1, V1, T2, R2, P2, V2, Functions, None, Rest
  <2>7. V1 = V1 \ {"users"}
    BY DEF T1, R1, P1, V1, T2, R2, P2, V2, Functions, None
  <2>. QED
    BY ONLY <1>34, <2>1, <2>2, <2>3, <2>4, <2>5, <2>6, <2>7, DropStep
<1>36. Has(f[19], T1, R1, P1, V1, None) /\ RowsShrink(f[18], f[19]) /\ CryptoStays(f[18], f[19])
  <2>1. f[19] = RunOp(f[18], Drop("roles"))
    BY <1>3
  <2>2. "roles" \in Th
    BY DEF Th, T1, R1, P1, V1, T2, R2, P2, V2, Functions, None
  <2>3. \A u \in Th : <<u, "roles">> \notin R1
    BY DEF Th, T1, R1, P1, V1, T2, R2, P2, V2, Functions, None
  <2>4. T1 = Th \ {"roles"}
    BY DEF Th, T1, R1, P1, V1, T2, R2, P2, V2, Functions, None
  <2>5. R1 = Rest(R1, "roles")
    BY DEF T1, R1, P1, V1, T2, R2, P2, V2, Functions, None, Rest
  <2>6. P1 = Rest(P1, "roles")
    BY DEF T1, R1, P1, V1, T2, R2, P2, V2, Functions, None, Rest
  <2>7. V1 = V1 \ {"roles"}
    BY DEF T1, R1, P1, V1, T2, R2, P2, V2, Functions, None
  <2>. QED
    BY ONLY <1>35, <2>1, <2>2, <2>3, <2>4, <2>5, <2>6, <2>7, DropStep
<1>37. RowsShrink(f[16], f[19])
  BY <1>34, <1>35, <1>36, ShrinkOn
<1>38. f[19].keys = d.keys /\ f[19].key = 0
  BY <1>29, <1>30, <1>31, <1>32, <1>34, <1>35, <1>36 DEF CryptoStays, KeysStay
<1>39. \A t \in People : f[19].data[t] = {[row EXCEPT !.user = "none"] : row \in Keyed(d.data[t], 0)}
  BY <1>36, <1>33, <1>37 DEF Has, RowsShrink, SameRows, People, T1
<1>. QED
  BY <1>3, <1>36, <1>38, <1>39

----------------------------------------------------------------------------
(* Migrations: from revision to revision *)

LEMMA Revisions ==
    /\ LastRevision = 5
    /\ Up[1] = InitialUp /\ Up[3] = GrantsUp /\ Up[4] = RequestsUp /\ Up[5] = PortalUp
    /\ Down[1] = InitialDown /\ Down[2] = AccountsDown /\ Down[3] = GrantsDown
    /\ Down[4] = RequestsDown /\ Down[5] = PortalDown
  BY DEF LastRevision, Up, Down

IsPerson(row, key) == DOMAIN row = {"id", "user", "key"} /\ row.key = key

\* What a database at revision r has, and how its people are stored.
Shaped(d, r) ==
    /\ r = 0 => Has(d, None, None, None, None, None)
    /\ r = 1 => Has(d, T1, R1, P1, V1, None)
    /\ r \in {2, 3} => Has(d, T2, R2, P2, V2, Functions)
    /\ r = 4 => Has(d, T4, R2, P4, V4, Functions)
    /\ r = 5 => Has(d, T5, R5, P5, V4, Functions)
Readable(d, r) ==
    /\ d.key \in Nat /\ d.keys \in Nat /\ (d.key # 0 <=> r >= 2)
    /\ r >= 2 => Executable(d, "encrypt_pii") /\ Executable(d, "decrypt_pii")
    /\ r >= 1 => \A t \in People : \A row \in d.data[t] : IsPerson(row, d.key)
    /\ r = 1 => \A t \in People : \A row \in d.data[t] : row.user = "none"
Level(d, r) == Shaped(d, r) /\ Readable(d, r)

LEMMA KeyedPeople ==
    ASSUME NEW rows, NEW old, \A row \in rows : IsPerson(row, old), NEW key
    PROVE  \A row \in Keyed(rows, key) : IsPerson(row, key) /\ \E was \in rows : row.id = was.id /\ row.user = was.user
  BY DEF Keyed, IsPerson

LEMMA UpgradeStep ==
    ASSUME NEW d, NEW r \in 0..4, Level(d, r)
    PROVE  LET e == RunOps(Up[r + 1], d)
           IN  /\ Level(e, r + 1)
               /\ r >= 2 => RowsGrow(d, e)
               /\ r = 1 => /\ \A t \in T2 \ T1 : e.data[t] = {}
                           /\ \A t \in People : \A row \in e.data[t] : row.user = "none"
<1>. DEFINE e == RunOps(Up[r + 1], d)
<1>1. CASE r = 0
  <2>1. Has(d, None, None, None, None, None)
    BY <1>1 DEF Level, Shaped
  <2>2. Has(e, T1, R1, P1, V1, None) /\ RowsGrow(d, e) /\ CryptoStays(d, e)
    BY <1>1, <2>1, InitialComes, Revisions
  <2>3. \A t \in People : e.data[t] = {}
    BY <2>1, <2>2 DEF Has, RowsGrow, SameRows, People, T1, None
  <2>4. Shaped(e, r + 1)
    BY <1>1, <2>2 DEF Shaped
  <2>5. Readable(e, r + 1)
    BY <1>1, <2>2, <2>3 DEF Level, Readable, CryptoStays, KeysStay
  <2>. QED
    BY <1>1, <2>4, <2>5 DEF Level
<1>2. CASE r = 1
  <2>1. Has(d, T1, R1, P1, V1, None) /\ \A t \in People : \A row \in d.data[t] : row.key = 0
    BY <1>2 DEF Level, Shaped, Readable, IsPerson
  <2>2. /\ Has(e, T2, R2, P2, V2, Functions)
        /\ Executable(e, "encrypt_pii") /\ Executable(e, "decrypt_pii")
        /\ e.key = d.keys + 1 /\ e.keys = d.keys + 1
        /\ \A t \in People : e.data[t] = Keyed(d.data[t], d.keys + 1)
        /\ \A t \in T2 \ T1 : e.data[t] = {}
    BY <1>2, <2>1, AccountsCome
  <2>3. d.keys \in Nat /\ \A t \in People : \A row \in d.data[t] : IsPerson(row, d.key) /\ row.user = "none"
    BY <1>2 DEF Level, Readable
  <2>4. \A t \in People : \A row \in e.data[t] : IsPerson(row, e.key) /\ row.user = "none"
    <3>1. ASSUME NEW t \in People
          PROVE  \A row \in Keyed(d.data[t], e.key) :
                    IsPerson(row, e.key) /\ \E was \in d.data[t] : row.id = was.id /\ row.user = was.user
      BY <2>3, KeyedPeople
    <3>. QED
      BY <2>2, <2>3, <3>1
  <2>5. Shaped(e, r + 1)
    BY <1>2, <2>2 DEF Shaped
  <2>6. Readable(e, r + 1)
    BY <1>2, <2>2, <2>3, <2>4 DEF Readable
  <2>. QED
    BY <1>2, <2>2, <2>4, <2>5, <2>6 DEF Level
<1>3. CASE r >= 2
  <2>1. /\ d.key \in Nat /\ d.keys \in Nat /\ d.key # 0
        /\ Executable(d, "encrypt_pii") /\ Executable(d, "decrypt_pii")
        /\ \A t \in People : \A row \in d.data[t] : IsPerson(row, d.key)
        /\ People \subseteq DOMAIN d.data
    BY <1>3 DEF Level, Shaped, Readable, Has, People, T1, T2, T4
  <2>2. /\ Shaped(e, r + 1) /\ RowsGrow(d, e) /\ KeysStay(d, e)
        /\ Executable(e, "encrypt_pii") /\ Executable(e, "decrypt_pii")
    <3>1. CASE r = 2
      BY <3>1, GrantsCome, Revisions DEF Level, Shaped
    <3>2. CASE r = 3
      BY <2>1, <3>2, RequestsCome, Revisions, StaysExecutable DEF Level, Shaped, CryptoStays
    <3>3. CASE r = 4
      BY <2>1, <3>3, PortalComes, Revisions, StaysExecutable DEF Level, Shaped, CryptoStays
    <3>. QED
      BY <1>3, <3>1, <3>2, <3>3
  <2>3. \A t \in People : e.data[t] = d.data[t]
    BY <2>1, <2>2 DEF RowsGrow, SameRows
  <2>4. Readable(e, r + 1)
    BY <1>3, <2>1, <2>2, <2>3 DEF Readable, KeysStay
  <2>. QED
    BY <1>3, <2>2, <2>4 DEF Level
<1>. QED
  BY <1>1, <1>2, <1>3

LEMMA DowngradeStep ==
    ASSUME NEW d, NEW r \in 0..4, Level(d, r + 1)
    PROVE  LET e == RunOps(Down[r + 1], d)
           IN  Level(e, r) /\ (r >= 2 => RowsShrink(d, e))
<1>. DEFINE e == RunOps(Down[r + 1], d)
<1>1. CASE r = 0
  <2>1. Has(d, T1, R1, P1, V1, None)
    BY <1>1 DEF Level, Shaped
  <2>2. Has(e, None, None, None, None, None) /\ CryptoStays(d, e)
    BY <1>1, <2>1, InitialGoes, Revisions
  <2>. QED
    BY <1>1, <2>2 DEF Level, Shaped, Readable, CryptoStays, KeysStay
<1>2. CASE r = 1
  <2>1. /\ Has(d, T2, R2, P2, V2, Functions) /\ Executable(d, "decrypt_pii") /\ d.keys \in Nat
        /\ \A t \in People : \A row \in d.data[t] : IsPerson(row, d.key)
    BY <1>2 DEF Level, Shaped, Readable
  <2>2. \A t \in People : \A row \in d.data[t] : row.key = d.key
    BY <2>1 DEF IsPerson
  <2>3. /\ Has(e, T1, R1, P1, V1, None) /\ e.key = 0 /\ e.keys = d.keys
        /\ \A t \in People : e.data[t] = {[row EXCEPT !.user = "none"] : row \in Keyed(d.data[t], 0)}
    BY <1>2, <2>1, <2>2, AccountsGo, Revisions
  <2>4. \A t \in People : \A row \in Keyed(d.data[t], 0) : IsPerson(row, 0)
    BY <2>1, KeyedPeople
  <2>5. \A t \in People : \A row \in e.data[t] : IsPerson(row, 0) /\ row.user = "none"
    BY <2>3, <2>4 DEF IsPerson
  <2>. QED
    BY <1>2, <2>1, <2>3, <2>5 DEF Level, Shaped, Readable
<1>3. CASE r >= 2
  <2>1. /\ d.key \in Nat /\ d.keys \in Nat /\ d.key # 0
        /\ Executable(d, "encrypt_pii") /\ Executable(d, "decrypt_pii")
        /\ \A t \in People : \A row \in d.data[t] : IsPerson(row, d.key)
        /\ People \subseteq DOMAIN d.data
    BY <1>3 DEF Level, Shaped, Readable, Has, People, T1, T2, T4, T5
  <2>2. /\ Shaped(e, r) /\ RowsShrink(d, e) /\ KeysStay(d, e)
        /\ Executable(e, "encrypt_pii") /\ Executable(e, "decrypt_pii")
    <3>1. CASE r = 2
      BY <3>1, GrantsGo, Revisions DEF Level, Shaped
    <3>2. CASE r = 3
      BY <2>1, <3>2, RequestsGo, Revisions, StaysExecutable DEF Level, Shaped, CryptoStays
    <3>3. CASE r = 4
      BY <2>1, <3>3, PortalGoes, Revisions, StaysExecutable DEF Level, Shaped, CryptoStays
    <3>. QED
      BY <1>3, <3>1, <3>2, <3>3
  <2>3. People \subseteq DOMAIN e.data
    BY <1>3, <2>2 DEF Shaped, Has, People, T1, T2, T4
  <2>4. \A t \in People : e.data[t] = d.data[t]
    BY <2>1, <2>2, <2>3 DEF RowsShrink, SameRows
  <2>5. Readable(e, r)
    BY <1>3, <2>1, <2>2, <2>4 DEF Readable, KeysStay
  <2>. QED
    BY <1>3, <2>2, <2>5 DEF Level
<1>. QED
  BY <1>1, <1>2, <1>3

\* The states between, revision by revision.
UpRun(g, d, to) ==
    g = [r \in d.revision..to |-> IF r = d.revision THEN d ELSE RunOps(Up[r], g[r - 1])]
DownRun(g, d, to) ==
    g = [r \in to..d.revision |-> IF r = d.revision THEN d ELSE RunOps(Down[r + 1], g[r + 1])]

LEMMA UpRunExists ==
    ASSUME NEW d, d.revision \in Nat, NEW to \in Nat
    PROVE  \E g : UpRun(g, d, to)
<1>. DEFINE G == {n \in Nat : \E g : UpRun(g, d, n)}
<1>1. 0 \in G
  <2>1. UpRun([r \in d.revision..0 |-> d], d, 0)
    BY DEF UpRun
  <2>. QED
    BY <2>1
<1>2. ASSUME NEW n \in Nat, n \in G
      PROVE  n + 1 \in G
  <2>1. PICK g : UpRun(g, d, n)
    BY <1>2
  <2>. DEFINE h == [r \in d.revision..(n + 1) |->
                       IF r = d.revision THEN d ELSE IF r = n + 1 THEN RunOps(Up[n + 1], g[n]) ELSE g[r]]
  <2>2. \A r \in d.revision..n : g[r] = IF r = d.revision THEN d ELSE RunOps(Up[r], g[r - 1])
    BY <2>1 DEF UpRun
  <2>3. \A r \in d.revision..n : h[r] = g[r]
    BY <2>2
  <2>4. ASSUME NEW r \in d.revision..(n + 1)
        PROVE  h[r] = IF r = d.revision THEN d ELSE RunOps(Up[r], h[r - 1])
    <3>1. CASE r = d.revision
      BY <3>1
    <3>2. CASE r # d.revision /\ r = n + 1
      <4>1. n \in d.revision..n /\ r - 1 = n
        BY <3>2
      <4>. QED
        BY <2>3, <3>2, <4>1
    <3>3. CASE r # d.revision /\ r # n + 1
      <4>1. r \in d.revision..n /\ r - 1 \in d.revision..n
        BY <3>3
      <4>. QED
        BY <2>2, <2>3, <3>3, <4>1
    <3>. QED
      BY <3>1, <3>2, <3>3
  <2>5. UpRun(h, d, n + 1)
    BY <2>4 DEF UpRun
  <2>. QED
    BY <2>5
<1>. HIDE DEF G
<1>3. to \in G
  BY <1>1, <1>2, SetInduction
<1>. QED
  BY <1>3 DEF G

LEMMA DownRunExists ==
    ASSUME NEW d, d.revision \in Nat, NEW to \in 0..d.revision
    PROVE  \E g : DownRun(g, d, to)
<1>. DEFINE G == {n \in Nat : n <= d.revision => \E g : DownRun(g, d, d.revision - n)}
<1>1. 0 \in G
  <2>1. DownRun([r \in (d.revision - 0)..d.revision |-> d], d, d.revision - 0)
    BY DEF DownRun
  <2>. QED
    BY <2>1
<1>2. ASSUME NEW n \in Nat, n \in G, n + 1 <= d.revision
      PROVE  \E g : DownRun(g, d, d.revision - (n + 1))
  <2>. DEFINE m == d.revision - n
  <2>1. m \in Nat /\ m - 1 \in Nat /\ d.revision - (n + 1) = m - 1 /\ m <= d.revision
    BY <1>2
  <2>2. PICK g : DownRun(g, d, m)
    BY <1>2
  <2>. HIDE DEF m
  <2>. DEFINE h == [r \in (m - 1)..d.revision |->
                       IF r = d.revision THEN d ELSE IF r = m - 1 THEN RunOps(Down[m], g[m]) ELSE g[r]]
  <2>3. \A r \in m..d.revision : g[r] = IF r = d.revision THEN d ELSE RunOps(Down[r + 1], g[r + 1])
    BY <2>2 DEF DownRun
  <2>4. \A r \in m..d.revision : h[r] = g[r]
    BY <2>1, <2>3
  <2>5. ASSUME NEW r \in (m - 1)..d.revision
        PROVE  h[r] = IF r = d.revision THEN d ELSE RunOps(Down[r + 1], h[r + 1])
    <3>1. CASE r = d.revision
      BY <3>1
    <3>2. CASE r # d.revision /\ r = m - 1
      <4>1. m \in m..d.revision /\ r + 1 = m
        BY <2>1, <3>2
      <4>. QED
        BY <2>4, <3>2, <4>1
    <3>3. CASE r # d.revision /\ r # m - 1
      <4>1. r \in m..d.revision /\ r + 1 \in m..d.revision
        BY <2>1, <3>3
      <4>. QED
        BY <2>3, <2>4, <3>3, <4>1
    <3>. QED
      BY <3>1, <3>2, <3>3
  <2>6. DownRun(h, d, m - 1)
    BY <2>5 DEF DownRun
  <2>. QED
    BY <2>1, <2>6
<1>3. \A n \in Nat : n \in G => n + 1 \in G
  BY <1>2
<1>. HIDE DEF G
<1>4. d.revision - to \in G
  BY <1>1, <1>3, SetInduction
<1>5. d.revision - (d.revision - to) = to /\ d.revision - to \in Nat /\ d.revision - to <= d.revision
  OBVIOUS
<1>. QED
  BY <1>4, <1>5 DEF G

LEMMA LevelIgnoresRevision ==
    ASSUME NEW d, NEW r \in 0..5, NEW to, Level(d, r)
    PROVE  LET e == [d EXCEPT !.revision = to]
           IN  Level(e, r) /\ e.data = d.data /\ e.revision = to
<1>1. DOMAIN d = Fields
  BY DEF Level, Shaped, Has
<1>. DEFINE e == [d EXCEPT !.revision = to]
<1>2. /\ DOMAIN e = Fields /\ e.revision = to /\ e.ok = d.ok /\ e.tables = d.tables /\ e.refs = d.refs
      /\ e.parts = d.parts /\ e.vault = d.vault /\ e.execute = d.execute /\ e.data = d.data
      /\ e.key = d.key /\ e.keys = d.keys
  BY <1>1 DEF Fields
<1>. HIDE DEF e
<1>3. Shaped(e, r)
  BY <1>2 DEF Level, Shaped, Has
<1>4. Readable(e, r)
  BY <1>2 DEF Level, Readable, Executable
<1>. QED
  BY <1>2, <1>3, <1>4 DEF Level, e

\* What an upgrade to the revision `to` makes of d.
Upgrades(d, e, to) ==
    /\ Level(e, to) /\ e.revision = to
    /\ d.revision >= 2 => RowsGrow(d, e)
    /\ d.revision < 2 /\ to >= 2 =>
        /\ \A t \in DOMAIN e.data \ T1 : e.data[t] = {}
        /\ \A t \in People : \A row \in e.data[t] : row.user = "none"

LEMMA UpgradeWorks ==
    ASSUME NEW d, d.revision \in 0..5, Level(d, d.revision), NEW to \in d.revision..5
    PROVE  Upgrades(d, Upgraded(d, to), to)
<1>1. d.revision \in Nat /\ to \in Nat
  OBVIOUS
<1>. DEFINE g == CHOOSE h : UpRun(h, d, to)
<1>2. UpRun(g, d, to)
  BY <1>1, UpRunExists
<1>3. Upgraded(d, to) = [g[to] EXCEPT !.revision = to]
  BY DEF Upgraded, UpRun
<1>. HIDE DEF g
<1>4. /\ g[d.revision] = d
      /\ \A r \in (d.revision + 1)..to : g[r] = RunOps(Up[r], g[r - 1])
  BY <1>1, <1>2 DEF UpRun
<1>. DEFINE Good(r) == /\ Level(g[r], r)
                       /\ d.revision >= 2 => RowsGrow(d, g[r])
                       /\ d.revision < 2 /\ r >= 2 =>
                            /\ \A t \in DOMAIN g[r].data \ T1 : g[r].data[t] = {}
                            /\ \A t \in People : \A row \in g[r].data[t] : row.user = "none"
            G == {n \in Nat : d.revision + n <= to => Good(d.revision + n)}
<1>5. 0 \in G
  BY <1>1, <1>4 DEF RowsGrow, SameRows
<1>6. ASSUME NEW n \in Nat, Good(d.revision + n), d.revision + n + 1 <= to
      PROVE  Good(d.revision + n + 1)
  <2>. DEFINE r == d.revision + n
  <2>1. r \in 0..4 /\ r + 1 \in (d.revision + 1)..to /\ (r + 1) - 1 = r
    BY <1>1, <1>6
  <2>2. g[r + 1] = RunOps(Up[r + 1], g[r])
    BY <1>4, <2>1
  <2>3. Good(r)
    BY <1>6
  <2>4. r >= d.revision
    BY <1>1
  <2>. HIDE DEF r
  <2>5. /\ Level(g[r + 1], r + 1)
        /\ r >= 2 => RowsGrow(g[r], g[r + 1])
        /\ r = 1 => /\ \A t \in T2 \ T1 : g[r + 1].data[t] = {}
                    /\ \A t \in People : \A row \in g[r + 1].data[t] : row.user = "none"
    BY <2>1, <2>2, <2>3, UpgradeStep
  <2>6. d.revision >= 2 => RowsGrow(d, g[r + 1])
    BY <1>1, <2>1, <2>3, <2>4, <2>5, GrowOn
  <2>7. ASSUME d.revision < 2, r + 1 >= 2
        PROVE  /\ \A t \in DOMAIN g[r + 1].data \ T1 : g[r + 1].data[t] = {}
               /\ \A t \in People : \A row \in g[r + 1].data[t] : row.user = "none"
    <3>1. CASE r = 1
      <4>1. DOMAIN g[r + 1].data = T2
        BY <2>5, <3>1 DEF Level, Shaped, Has
      <4>. QED
        BY <2>5, <3>1, <4>1
    <3>2. CASE r >= 2
      <4>1. People \subseteq DOMAIN g[r].data
        BY <2>1, <2>3, <3>2 DEF Level, Shaped, Has, People, T1, T2, T4
      <4>. QED
        BY <2>3, <2>5, <2>7, <3>2, <4>1 DEF RowsGrow, SameRows
    <3>. QED
      BY <2>1, <2>7, <3>1, <3>2
  <2>8. Good(r + 1)
    BY <2>5, <2>6, <2>7
  <2>. QED
    BY <2>8 DEF r
<1>7. ASSUME NEW n \in Nat, n \in G
      PROVE  n + 1 \in G
  <2>1. d.revision + (n + 1) = d.revision + n + 1
    BY <1>1
  <2>2. CASE d.revision + n + 1 <= to
    <3>1. d.revision + n <= to
      BY <1>1, <2>2
    <3>. QED
      BY <1>6, <1>7, <2>1, <2>2, <3>1
  <2>. QED
    BY <2>1, <2>2
<1>. HIDE DEF G, Good
<1>8. to - d.revision \in G /\ d.revision + (to - d.revision) = to
  BY <1>1, <1>5, <1>7, SetInduction
<1>9. Good(to)
  BY <1>1, <1>8 DEF G
<1>. DEFINE e == [g[to] EXCEPT !.revision = to]
<1>10. to \in 0..5 /\ Level(g[to], to)
  BY <1>1, <1>9 DEF Good
<1>11. Level(e, to) /\ e.data = g[to].data /\ e.revision = to
  BY <1>10, LevelIgnoresRevision
<1>. HIDE DEF e
<1>12. Upgrades(d, e, to)
  BY <1>9, <1>11 DEF Good, Upgrades, RowsGrow, SameRows
<1>. QED
  BY <1>3, <1>12 DEF e

Downgrades(d, e, to) ==
    /\ Level(e, to) /\ e.revision = to
    /\ to >= 2 => RowsShrink(d, e)

LEMMA DowngradeWorks ==
    ASSUME NEW d, d.revision \in 0..5, Level(d, d.revision), NEW to \in 0..d.revision
    PROVE  Downgrades(d, Downgraded(d, to), to)
<1>1. d.revision \in Nat /\ to \in Nat
  OBVIOUS
<1>. DEFINE g == CHOOSE h : DownRun(h, d, to)
<1>2. DownRun(g, d, to)
  BY <1>1, DownRunExists
<1>3. Downgraded(d, to) = [g[to] EXCEPT !.revision = to]
  BY DEF Downgraded, DownRun
<1>. HIDE DEF g
<1>4. /\ g[d.revision] = d
      /\ \A r \in to..(d.revision - 1) : g[r] = RunOps(Down[r + 1], g[r + 1])
  BY <1>1, <1>2 DEF DownRun
<1>. DEFINE Good(r) == Level(g[r], r) /\ (r >= 2 => RowsShrink(d, g[r]))
            G == {n \in Nat : d.revision - n >= to => Good(d.revision - n)}
<1>5. 0 \in G
  BY <1>1, <1>4 DEF RowsShrink, SameRows
<1>6. ASSUME NEW n \in Nat, Good(d.revision - n), d.revision - (n + 1) >= to
      PROVE  Good(d.revision - (n + 1))
  <2>. DEFINE r == d.revision - (n + 1)
  <2>1. r \in 0..4 /\ r \in to..(d.revision - 1) /\ d.revision - n = r + 1
    BY <1>1, <1>6
  <2>2. g[r] = RunOps(Down[r + 1], g[r + 1])
    BY <1>4, <2>1
  <2>3. Good(r + 1)
    BY <1>6, <2>1
  <2>. HIDE DEF r
  <2>4. Level(g[r], r) /\ (r >= 2 => RowsShrink(g[r + 1], g[r]))
    BY <2>1, <2>2, <2>3, DowngradeStep
  <2>5. Good(r)
    BY <2>1, <2>3, <2>4, ShrinkOn
  <2>. QED
    BY <2>5 DEF r
<1>7. ASSUME NEW n \in Nat, n \in G
      PROVE  n + 1 \in G
  BY <1>1, <1>6, <1>7
<1>. HIDE DEF G, Good
<1>8. d.revision - to \in G /\ d.revision - (d.revision - to) = to
  BY <1>1, <1>5, <1>7, SetInduction
<1>9. Good(to)
  BY <1>1, <1>8 DEF G
<1>. DEFINE e == [g[to] EXCEPT !.revision = to]
<1>10. to \in 0..5 /\ Level(g[to], to)
  BY <1>1, <1>9 DEF Good
<1>11. Level(e, to) /\ e.data = g[to].data /\ e.revision = to
  BY <1>10, LevelIgnoresRevision
<1>. HIDE DEF e
<1>12. Downgrades(d, e, to)
  BY <1>9, <1>11 DEF Good, Downgrades, RowsShrink, SameRows
<1>. QED
  BY <1>3, <1>12 DEF e

----------------------------------------------------------------------------
(* What a revision amounts to *)

LEMMA LevelHas ==
    ASSUME NEW d, NEW r \in 0..5, Level(d, r)
    PROVE  /\ DOMAIN d = Fields /\ d.ok = TRUE /\ DOMAIN d.data = d.tables
           /\ d.tables = (CASE r = 0 -> None [] r = 1 -> T1 [] r \in {2, 3} -> T2 [] r = 4 -> T4 [] OTHER -> T5)
           /\ d.key # 0 <=> r >= 2
<1>1. r = 0 \/ r = 1 \/ r \in {2, 3} \/ r = 4 \/ r = 5
  OBVIOUS
<1>. QED
  BY <1>1 DEF Level, Shaped, Readable, Has

LEMMA LevelShape ==
    ASSUME NEW d, NEW e, NEW r \in 0..5, Level(d, r), Level(e, r)
    PROVE  Shape(d) = Shape(e)
<1>1. r = 0 \/ r = 1 \/ r \in {2, 3} \/ r = 4 \/ r = 5
  OBVIOUS
<1>. QED
  BY <1>1 DEF Level, Shaped, Has, Shape

LEMMA EmptyLevel == EmptyDatabase.revision = 0 /\ Level(EmptyDatabase, 0)
<1>1. /\ EmptyDatabase.revision = 0 /\ EmptyDatabase.ok = TRUE
      /\ EmptyDatabase.tables = None /\ EmptyDatabase.refs = None /\ EmptyDatabase.parts = None
      /\ EmptyDatabase.vault = None /\ DOMAIN EmptyDatabase.execute = None /\ DOMAIN EmptyDatabase.data = None
      /\ EmptyDatabase.key = 0 /\ EmptyDatabase.keys = 0
  BY DEF EmptyDatabase, None
<1>2. DOMAIN EmptyDatabase = Fields
  BY DEF EmptyDatabase, Fields
<1>. QED
  BY <1>1, <1>2 DEF Level, Shaped, Readable, Has

LEMMA FreshLevel ==
    ASSUME NEW r \in 0..5
    PROVE  /\ Fresh[r].revision = r /\ Level(Fresh[r], r)
           /\ ShapeAt[r] = Shape(Fresh[r])
<1>1. Fresh[r] = Upgraded(EmptyDatabase, r) /\ ShapeAt[r] = Shape(Fresh[r])
  BY Revisions DEF Fresh, ShapeAt
<1>2. Upgrades(EmptyDatabase, Upgraded(EmptyDatabase, r), r)
  BY EmptyLevel, UpgradeWorks
<1>. QED
  BY <1>1, <1>2 DEF Upgrades

\* Rows are written and nothing else.
Wrote(d, e, S) ==
    /\ DOMAIN e = DOMAIN d /\ \A x \in Fields \ {"data"} : e[x] = d[x]
    /\ DOMAIN e.data = DOMAIN d.data /\ \A t \in DOMAIN d.data \ S : e.data[t] = d.data[t]

LEMMA WroteLevel ==
    ASSUME NEW d, NEW r \in 0..5, Level(d, r), NEW e, NEW S, Wrote(d, e, S), r # 1,
           r >= 2 => \A t \in People \cap S : \A row \in e.data[t] : IsPerson(row, d.key)
    PROVE  Level(e, r)
<1>1. /\ e.ok = d.ok /\ e.tables = d.tables /\ e.refs = d.refs
      /\ e.parts = d.parts /\ e.vault = d.vault /\ e.execute = d.execute
      /\ e.key = d.key /\ e.keys = d.keys /\ e.revision = d.revision
  BY LevelHas DEF Wrote, Fields
<1>2. Shaped(e, r)
  BY <1>1 DEF Level, Shaped, Has, Wrote
<1>3. ASSUME r >= 2, NEW t \in People, NEW row \in e.data[t]
      PROVE  IsPerson(row, e.key)
  <2>1. t \in DOMAIN d.data
    <3>1. r \in {2, 3} \/ r = 4 \/ r = 5
      BY <1>3
    <3>. QED
      BY <3>1 DEF Level, Shaped, Has, People, T1, T2, T4, T5
  <2>2. \A was \in d.data[t] : IsPerson(was, d.key)
    BY <1>3 DEF Level, Readable
  <2>. QED
    BY <1>1, <1>3, <2>1, <2>2 DEF Wrote
<1>4. Readable(e, r)
  BY <1>1, <1>3 DEF Level, Readable, Executable
<1>. QED
  BY <1>2, <1>4 DEF Level

LEMMA LegacyLevel == Legacy.revision = 1 /\ Level(Legacy, 1)
<1>. DEFINE d == Fresh[1]
            row == [id |-> <<"old", 1>>, user |-> "none", key |-> 0]
<1>1. d.revision = 1 /\ Level(d, 1)
  BY FreshLevel
<1>2. DOMAIN d = Fields /\ DOMAIN d.data = T1 /\ d.key = 0
  BY <1>1 DEF Level, Shaped, Readable, Has
<1>. HIDE DEF d
<1>3. Legacy = [d EXCEPT !.data["students"] = {row}]
  BY DEF Legacy, d
<1>4. /\ DOMAIN Legacy = Fields /\ Legacy.data = [d.data EXCEPT !["students"] = {row}]
      /\ Legacy.ok = d.ok /\ Legacy.tables = d.tables /\ Legacy.refs = d.refs
      /\ Legacy.parts = d.parts /\ Legacy.vault = d.vault /\ Legacy.execute = d.execute
      /\ Legacy.key = d.key /\ Legacy.keys = d.keys /\ Legacy.revision = d.revision
  BY <1>2, <1>3 DEF Fields
<1>5. /\ DOMAIN Legacy.data = T1 /\ Legacy.data["students"] = {row}
      /\ Legacy.data["guardians"] = d.data["guardians"]
  BY <1>2, <1>4 DEF T1
<1>6. Shaped(Legacy, 1)
  BY <1>1, <1>2, <1>4, <1>5 DEF Level, Shaped, Has
<1>7. IsPerson(row, 0) /\ row.user = "none"
  BY DEF IsPerson
<1>. HIDE DEF row
<1>8. Readable(Legacy, 1)
  BY <1>1, <1>2, <1>4, <1>5, <1>7 DEF Level, Readable, People
<1>. QED
  BY <1>1, <1>4, <1>6, <1>8 DEF Level

\* The tables the foreign keys of a table name, at the last revision.
Named(t) == {u \in T5 : <<t, u>> \in R5}

LEMMA NamedRefs ==
    ASSUME NEW t
    PROVE  {ref[2] : ref \in {r \in R5 : r[1] = t}} = Named(t)
<1>1. \A r \in R5 : r = <<r[1], r[2]>> /\ r[2] \in T5
  BY DEF R5, R2, R1, T5, T4, T2, T1
<1>. HIDE DEF R5
<1>. QED
  BY <1>1 DEF Named

\* The models agree with the last revision.
LEMMA FitsAtLast ==
    ASSUME NEW d, Level(d, 5)
    PROVE  FitsModels(d)
<1>1. d.tables = T5 /\ d.refs = R5
  BY DEF Level, Shaped, Has
<1>2. /\ Named("roles") = {} /\ Named("users") = {}
      /\ Named("user_roles") = {"users", "roles"}
      /\ Named("students") = {"users"} /\ Named("guardians") = {"users"}
      /\ Named("student_guardian") = {"students", "guardians"}
  BY DEF Named, R5, R2, R1, T5, T4, T2, T1
<1>3. /\ Named("courses") = {"users"} /\ Named("groups") = {"courses", "users"}
      /\ Named("enrollments") = {"students", "groups"}
      /\ Named("activities") = {} /\ Named("modules") = {"courses"}
      /\ Named("lessons") = {"modules"} /\ Named("schedule_slots") = {"groups"}
  BY DEF Named, R5, R2, R1, T5, T4, T2, T1
<1>4. /\ Named("student_stats") = {"students"} /\ Named("badges") = {}
      /\ Named("student_badges") = {"students", "badges"}
      /\ Named("jobs") = {} /\ Named("pseudonym_map") = {}
      /\ Named("consent") = {} /\ Named("subject_request") = {}
  BY DEF Named, R5, R2, R1, T5, T4, T2, T1
<1>. DEFINE Fits(model) == \A t \in DOMAIN model : t \in T5 /\ Named(t) = model[t]
<1>5. Fits(AccountModels)
  BY <1>2 DEF AccountModels, T5, T4, T2, T1
<1>6. Fits(PersonModels)
  BY <1>2 DEF PersonModels, T5, T4, T2, T1
<1>7. Fits(CourseModels)
  BY <1>3 DEF CourseModels, T5, T4, T2, T1
<1>8. Fits(PortalModels)
  BY <1>3, <1>4 DEF PortalModels, T5, T4, T2, T1
<1>9. Fits(JobModel) /\ Fits(MappingModel) /\ Fits(PrivacyModels)
  BY <1>4 DEF JobModel, MappingModel, PrivacyModels, T5, T4, T2, T1
<1>10. \A model \in Models : Fits(model)
  BY <1>5, <1>6, <1>7, <1>8, <1>9 DEF Models
<1>. QED
  BY <1>1, <1>10, NamedRefs DEF FitsModels

----------------------------------------------------------------------------
(* The inductive invariant *)

SeedStages == {"badges", "teacher", "child", "parent", "settle", "student", "content"}
Steps  == {"look", "insert", "delete", "commit"}
Stages == {"down", "migrate", "admin", "serving", "ready", "done", "failed", "register", "roles", "course", "import"}
             \cup SeedStages

StagesOf(a) ==
    IF a \in Backends THEN {"down", "migrate", "admin", "serving"} \cup SeedStages
    ELSE IF a \in Seeders THEN {"ready", "done", "failed"} \cup SeedStages
    ELSE {"ready", "done", "failed", Ask[a].kind}

\* Who is where, and what is open: an account between its flush and its commit,
\* badges from their stage to the first commit, deleted roles until theirs.
ActorTyped(a) ==
    /\ pc[a] \in [stage : Stages, step : Steps] /\ pc[a].stage \in StagesOf(a)
    /\ tx[a] = [user |-> tx[a].user, badges |-> tx[a].badges, deleted |-> tx[a].deleted]
    /\ tx[a].user # "none" => Registers(a) /\ pc[a].step = "commit"
    /\ Registers(a) /\ pc[a].step = "commit" => tx[a].user = Account(a).email
    /\ tx[a].badges \subseteq Badges
    /\ tx[a].badges # {} => pc[a].stage \in {"teacher", "child", "parent", "settle"}
    /\ tx[a].deleted # {} => At(a, "roles", "commit")
Typed ==
    /\ scenario \in Scenarios /\ crashes \in Nat /\ downgrades \in Nat
    /\ Active = scenario.actors /\ DOMAIN local = Active /\ DOMAIN tx = Active
    /\ \A a \in Active : ActorTyped(a)

\* The database is at a revision; what runs behind a migration found the last.
Levels ==
    /\ refused = FALSE
    /\ db.revision \in 0..5 /\ Level(db, db.revision)
    /\ \A b \in Active \cap Backends : pc[b].stage \notin {"down", "migrate"} => db.revision = 5
    /\ \A a \in Active \ Backends :
        /\ ~Stopped(a) => db.revision = 5
        /\ downgrades = 0 /\ pc[a].stage # "ready" => db.revision = 5
    /\ downgrades = 0 => db.revision \in {0, 1, 5}

\* Every role comes from a start or a seed, from a registration as child or
\* parent, or from a finished replacement.
Origin(row) ==
    /\ row.user \in Users
    /\ \/ row.by \in Running
       \/ /\ row.by \in Calls /\ pc[row.by].stage = "done"
          /\ \/ Ask[row.by].kind = "roles"
             \/ Ask[row.by].kind = "register" /\ row.role \in SelfAssignable

\* An account that is flushed is not there yet, and nobody else's.
Flushed ==
    /\ \A a \in Active : tx[a].user # "none" => tx[a].user \notin Users
    /\ \A a, b \in Active : a # b /\ tx[a].user # "none" => tx[a].user # tx[b].user
Asked == \A c \in Calls : pc[c].stage = "register" => Ask[c].roles \subseteq SelfAssignable
Given ==
    /\ \A row \in db.data["user_roles"] : Origin(row)
    /\ \A email \in Users : Replaced(email) \/ AsMade(email)

Past(c) == At(c, "roles", "delete") \/ At(c, "roles", "commit") \/ (pc[c].stage = "done" /\ downgrades = 0)

\* What a replacement saw: rows of its account that nobody inserts again.  What
\* is left of them is deleted by the time it commits.
Saw(c) ==
    /\ Ask[c].email \in Users
    /\ \A row \in local[c].seen :
        /\ row.user = Ask[c].email
        /\ row.by \in Calls /\ Ask[row.by].kind = "roles" => pc[row.by].stage = "done"
Deleting(c) ==
    tx[c].deleted \subseteq local[c].seen /\ db.data["user_roles"] \cap local[c].seen \subseteq tx[c].deleted
Left(c) ==
    /\ db.data["user_roles"] \cap local[c].seen = {}
    /\ \E d \in Calls : /\ Ask[d].kind = "roles" /\ Ask[d].email = Ask[c].email /\ pc[d].stage = "done"
                        /\ InsertedRoles(d) \subseteq db.data["user_roles"]
Replacing(c) ==
    /\ Past(c) => Saw(c)
    /\ At(c, "roles", "commit") => Deleting(c)
    /\ pc[c].stage = "done" /\ downgrades = 0 => Left(c)
Replacements == \A c \in Calls : Ask[c].kind = "roles" => Replacing(c)

\* The accounts that are found or made stay, with the role they are for.
KnownBy(a) ==
    /\ a \in Backends /\ pc[a].stage \notin {"down", "migrate", "admin"} => AdminEmail \in Users
    /\ pc[a].stage # "done" \/ downgrades = 0 =>
        /\ pc[a].stage \in {"child", "parent", "settle", "student", "content", "done"} => DemoEmail.teacher \in Users
        /\ pc[a].stage \in {"parent", "settle", "student", "content", "done"} => DemoEmail.child \in Users
        /\ pc[a].stage \in {"settle", "student", "content", "done"} => DemoEmail.parent \in Users
RolesKnown ==
    /\ AdminEmail \in Users => HasRole(AdminEmail, "admin")
    /\ \A role \in DOMAIN DemoEmail :
        DemoEmail[role] \in Users => HasRole(DemoEmail[role], role) \/ Registered(DemoEmail[role])
AdminFirst == \A c \in Calls : pc[c].stage = "register" => AdminEmail \in Users
Known == RolesKnown /\ AdminFirst /\ \A a \in Running : KnownBy(a)

\* The badges, the student and the catalogue of a seed, as far as it is.
Filled(a) ==
    pc[a].stage # "done" \/ downgrades = 0 =>
        /\ pc[a].stage \in {"teacher", "child", "parent", "settle"} => db.data["badges"] \cup tx[a].badges = Badges
        /\ pc[a].stage \in {"student", "content", "done"} => db.data["badges"] = Badges
        /\ pc[a].stage \in {"content", "done"} => DemoStudents # {}
        /\ pc[a].stage = "done" => db.data["courses"] # {}

\* What seeds have written, however far they came.
Whole ==
    /\ \A s \in DemoStudents :
        s.id \in db.data["student_guardian"] /\ \A a \in Active : s.id # Other(a)
    /\ db.data["courses"] \cap Running = db.data["groups"]
    /\ db.data["groups"] # {} => \E e \in db.data["enrollments"] : e[2] # Other(e[1])
    /\ db.revision = 5 => db.data["badges"] \subseteq Badges
    /\ db.revision = 5 /\ downgrades = 0 =>
        /\ db.data["modules"] = db.data["groups"] /\ db.data["schedule_slots"] = db.data["groups"]
        /\ db.data["groups"] # {} => db.data["student_stats"] # {}
Seeds == Whole /\ \A a \in Running : Filled(a)

\* Seeds that do not overlap find what they do not make.
Busy(a) == pc[a].stage \in {"teacher", "child", "parent", "settle", "student", "content"}
Alone ==
    overlapped = FALSE =>
        /\ \A a, b \in Running : Busy(a) /\ Busy(b) => a = b
        /\ db.revision >= 2 =>
            /\ \A s, t \in DemoStudents : s = t
            /\ \A x, y \in db.data["groups"] : x = y
        /\ \A a \in Running : At(a, "student", "commit") => DemoStudents = {}
        /\ \A a \in Running : At(a, "content", "commit") => db.data["groups"] = {}

\* Below the second revision there are no accounts.
Accounts == db.revision >= 2 => Flushed /\ Asked /\ Given /\ Replacements
Seeded   == overlapped \in BOOLEAN /\ (db.revision >= 2 => Known /\ Seeds) /\ Alone

----------------------------------------------------------------------------
(* Who is where *)

LEMMA ActorsAre ==
    ASSUME scenario \in Scenarios, Active = scenario.actors
    PROVE  /\ \A a \in Active : a \in Backends \/ a \in Seeders \/ a \in DOMAIN Ask
           /\ \A a \in Backends : a \notin Seeders /\ a \notin DOMAIN Ask
           /\ \A a \in Seeders : a \notin DOMAIN Ask
  BY ScenariosAssumption, AskAssumption DEF Actors

\* An actor's step changes nothing of another actor's.
OthersStay(a) ==
    /\ scenario' = scenario /\ DOMAIN pc' = Active /\ DOMAIN local' = Active /\ DOMAIN tx' = Active
    /\ \A b \in Active \ {a} : pc'[b] = pc[b] /\ local'[b] = local[b] /\ tx'[b] = tx[b]
    /\ downgrades' = downgrades

OwnStep(a) == Progress(a) \/ Arrive(a) \/ LoseCall(a) \/ SeedFails(a)

LEMMA OwnSteps ==
    ASSUME Typed, NEW a \in Active, OwnStep(a)
    PROVE  OthersStay(a) /\ crashes' \in Nat
<1>1. DOMAIN pc = Active /\ DOMAIN local = Active /\ DOMAIN tx = Active /\ crashes \in Nat
  BY DEF Typed, Active
<1>2. CASE StartUpgrade(a) \/ Upgrade(a) \/ FindAccount(a) \/ InsertUser(a) \/ EmailTaken(a) \/ CommitUser(a)
  BY <1>1, <1>2 DEF StartUpgrade, Upgrade, FindAccount, InsertUser, EmailTaken, CommitUser, Goto, Step, OthersStay
<1>3. CASE StartSeeder(a) \/ InsertBadges(a) \/ Settle(a) \/ LookForStudent(a)
  BY <1>1, <1>3 DEF StartSeeder, InsertBadges, Settle, LookForStudent, Goto, Step, OthersStay
<1>4. CASE SeedStudent(a) \/ CountCourses(a) \/ SeedContent(a) \/ SeeRoles(a)
  BY <1>1, <1>4 DEF SeedStudent, CountCourses, SeedContent, SeeRoles, Goto, Step, OthersStay
<1>5. CASE DeleteRoles(a) \/ ReplaceRoles(a) \/ CreateCourse(a) \/ ImportStudent(a)
  BY <1>1, <1>5 DEF DeleteRoles, ReplaceRoles, CreateCourse, ImportStudent, Goto, Step, OthersStay
<1>6. CASE Arrive(a) \/ LoseCall(a) \/ SeedFails(a)
  BY <1>1, <1>6 DEF Arrive, LoseCall, SeedFails, Goto, OthersStay
<1>. QED
  BY <1>2, <1>3, <1>4, <1>5, <1>6 DEF OwnStep, Progress

LEMMA OthersTyped ==
    ASSUME NEW b \in Active, ActorTyped(b), scenario' = scenario, pc'[b] = pc[b], tx'[b] = tx[b]
    PROVE  ActorTyped(b)'
  BY DEF ActorTyped, Registers, Account, At, StagesOf

LEMMA StageTells ==
    ASSUME Typed, NEW a \in Active
    PROVE  /\ pc[a].stage \in {"down", "migrate", "admin", "serving"} => a \in Backends
           /\ pc[a].stage \in SeedStages => a \in Running
           /\ pc[a].stage \in {"register", "roles", "course", "import"} =>
                 a \in Calls /\ Ask[a].kind = pc[a].stage
           /\ a \in Calls => Ask[a].kind \in {"register", "roles", "course", "import"}
  BY ActorsAre, AskAssumption DEF Typed, ActorTyped, StagesOf, SeedStages, Running, Calls

\* Where an actor goes when nothing of its is open.
LEMMA GoesClean ==
    ASSUME NEW a \in Active, NEW s \in Stages, s \in StagesOf(a), NEW t \in Steps,
           scenario' = scenario, pc'[a] = [stage |-> s, step |-> t], tx'[a] = NoWrites, t # "commit"
    PROVE  ActorTyped(a)'
  BY DEF ActorTyped, Registers, StagesOf, NoWrites

LEMMA OpenWhere ==
    ASSUME Typed, NEW a \in Active
    PROVE  /\ pc[a] \in [stage : Stages, step : Steps] /\ pc[a].stage \in StagesOf(a)
           /\ (~Registers(a) \/ pc[a].step # "commit") /\ pc[a].stage \notin {"teacher", "child", "parent", "settle"}
                 /\ ~At(a, "roles", "commit") => tx[a] = NoWrites
           /\ DOMAIN pc = Active /\ DOMAIN tx = Active /\ DOMAIN local = Active
  BY DEF Typed, ActorTyped, NoWrites, Active

LEMMA OwnTyped ==
    ASSUME Typed, NEW a \in Active, OwnStep(a)
    PROVE  ActorTyped(a)'
<1>1. /\ pc[a] \in [stage : Stages, step : Steps] /\ pc[a].stage \in StagesOf(a)
      /\ DOMAIN pc = Active /\ DOMAIN tx = Active /\ scenario' = scenario
  BY OpenWhere, OwnSteps DEF OthersStay
<1>2. ActorTyped(a)
  BY DEF Typed
<1>3. /\ a \in Backends => StagesOf(a) = {"down", "migrate", "admin", "serving"} \cup SeedStages
      /\ a \in Running /\ a \notin Backends => StagesOf(a) = {"ready", "done", "failed"} \cup SeedStages
      /\ a \in Seeders => a \in Running /\ a \notin Backends
      /\ a \in Calls => StagesOf(a) = {"ready", "done", "failed", Ask[a].kind}
  BY ActorsAre DEF StagesOf, Running, Calls, Typed
<1>4. CASE StartUpgrade(a) \/ Upgrade(a)
  <2>1. tx[a] = NoWrites /\ tx' = tx /\ a \in Backends
    BY <1>4, OpenWhere, StageTells DEF StartUpgrade, Upgrade, Registers, At
  <2>2. PICK s \in {"migrate", "admin", "down"} : pc'[a] = [stage |-> s, step |-> "look"]
    BY <1>1, <1>4 DEF StartUpgrade, Upgrade, Goto, AfterTheEnd
  <2>. QED
    BY <1>1, <1>3, <2>1, <2>2, GoesClean DEF Stages, Steps
<1>5. CASE FindAccount(a)
  <2>1. /\ tx'[a] = tx[a] /\ tx[a].user = "none" /\ tx[a].deleted = {}
    BY <1>5, <1>2 DEF FindAccount, ActorTyped, Registers, At
  <2>2. pc[a].stage = "admin" => tx[a] = NoWrites /\ a \in Backends
    BY <1>5, OpenWhere, StageTells DEF FindAccount, Registers, At
  <2>3. CASE pc'[a] = [stage |-> NextStage(a), step |-> "look"]
    <3>1. CASE pc[a].stage = "admin"
      BY <1>1, <1>3, <1>5, <2>1, <2>2, <2>3, <3>1, GoesClean DEF NextStage, Stages, Steps, SeedStages
    <3>2. CASE pc[a].stage \in {"teacher", "child", "parent"}
      <4>1. PICK s \in {"child", "parent", "settle"} : pc'[a] = [stage |-> s, step |-> "look"]
        BY <2>3, <3>2 DEF NextStage
      <4>2. a \in Running /\ s \in StagesOf(a) /\ s \in Stages
        BY <1>1, <1>3, <3>2, StageTells DEF SeedStages, Stages
      <4>3. StagesOf(a)' = StagesOf(a)
        BY DEF StagesOf
      <4>. QED
        BY <1>2, <2>1, <4>1, <4>2, <4>3 DEF ActorTyped, Registers, Steps
    <3>. QED
      BY <1>5, <3>1, <3>2 DEF FindAccount
  <2>4. CASE pc'[a] = [pc[a] EXCEPT !.step = "insert"]
    <3>1. pc'[a].stage = pc[a].stage /\ pc'[a].step = "insert" /\ pc'[a] \in [stage : Stages, step : Steps]
      BY <1>1, <2>4 DEF Steps
    <3>. QED
      BY <1>5, <1>2, <2>1, <3>1 DEF ActorTyped, StagesOf, Registers, FindAccount
  <2>. QED
    BY <1>1, <1>5, <2>3, <2>4 DEF FindAccount, Goto, Step
<1>6. CASE InsertUser(a)
  <2>1. /\ pc'[a].stage = pc[a].stage /\ pc'[a].step = "commit" /\ pc'[a] \in [stage : Stages, step : Steps]
        /\ tx'[a] = [tx[a] EXCEPT !.user = Account(a).email]
    BY <1>1, <1>6 DEF InsertUser, Step, Steps
  <2>2. Account(a)' = Account(a)
    BY <2>1 DEF Account
  <2>3. tx'[a] = [user |-> Account(a).email, badges |-> tx[a].badges, deleted |-> tx[a].deleted]
    BY <1>2, <2>1 DEF ActorTyped
  <2>4. /\ Registers(a) /\ tx[a].deleted = {} /\ tx[a].badges \subseteq Badges
        /\ tx[a].badges # {} => pc[a].stage \in {"teacher", "child", "parent", "settle"}
    BY <1>6, <1>2 DEF ActorTyped, InsertUser, Registers, At
  <2>5. tx'[a].user = Account(a)'.email /\ tx'[a].badges = tx[a].badges /\ tx'[a].deleted = {}
    BY <2>2, <2>3, <2>4
  <2>6. Registers(a)' /\ StagesOf(a)' = StagesOf(a)
    BY <2>1, <2>4 DEF Registers, StagesOf
  <2>. QED
    BY <1>1, <2>1, <2>3, <2>4, <2>5, <2>6 DEF ActorTyped
<1>7. CASE EmailTaken(a)
  <2>1. tx'[a] = NoWrites
    BY <1>1, <1>7 DEF EmailTaken
  <2>2. PICK s \in {"down", "serving", "failed"} :
            /\ pc'[a] = [stage |-> s, step |-> "look"]
            /\ s # "failed" <=> a \in Backends
    BY <1>1, <1>7 DEF EmailTaken, Goto, AfterTheEnd
  <2>3. s \in StagesOf(a)
    BY <1>3, <2>2, ActorsAre DEF Typed, Running, Calls
  <2>. QED
    BY <1>1, <2>1, <2>2, <2>3, GoesClean DEF Stages, Steps
<1>8. CASE CommitUser(a)
  <2>1. tx'[a] = NoWrites
    BY <1>1, <1>8 DEF CommitUser
  <2>2. pc'[a] = [stage |-> NextStage(a), step |-> "look"]
    BY <1>1, <1>8 DEF CommitUser, Goto
  <2>3. NextStage(a) \in StagesOf(a) /\ NextStage(a) \in Stages
    BY <1>3, <1>8, StageTells DEF CommitUser, Registers, NextStage, SeedStages, Stages
  <2>. QED
    BY <1>1, <2>1, <2>2, <2>3, GoesClean DEF Steps
<1>9. CASE Arrive(a)
  <2>1. tx[a] = NoWrites /\ tx' = tx
    BY <1>9, OpenWhere DEF Arrive, Registers, At
  <2>2. PICK s \in {"failed", Ask[a].kind}, t \in {"look", "insert"} : pc'[a] = [stage |-> s, step |-> t]
    BY <1>1, <1>9 DEF Arrive, Goto
  <2>3. s \in StagesOf(a) /\ s \in Stages
    BY <1>3, <1>9, <2>2, StageTells DEF Arrive, Stages
  <2>. QED
    BY <1>1, <2>1, <2>2, <2>3, GoesClean DEF Steps
<1>10. CASE LoseCall(a) \/ SeedFails(a)
  <2>1. tx'[a] = NoWrites
    BY <1>1, <1>10 DEF LoseCall, SeedFails
  <2>2. PICK s \in {"serving", "failed"} : pc'[a] = [stage |-> s, step |-> "look"] /\ s \in StagesOf(a)
    BY <1>1, <1>3, <1>10 DEF LoseCall, SeedFails, Goto, Seeding
  <2>. QED
    BY <1>1, <2>1, <2>2, GoesClean DEF Stages, Steps
<1>11. CASE StartSeeder(a) \/ LookForStudent(a) \/ CountCourses(a) \/ SeedStudent(a) \/ SeedContent(a)
  <2>1. tx[a] = NoWrites /\ tx' = tx /\ a \in Running
    BY <1>3, <1>11, OpenWhere, StageTells
       DEF StartSeeder, LookForStudent, CountCourses, SeedStudent, SeedContent, Registers, At, SeedStages
  <2>2. CASE \E s \in {"badges", "content", EndOfSeed(a)} : pc'[a] = [stage |-> s, step |-> "look"]
    <3>1. PICK s \in {"badges", "content", EndOfSeed(a)} : pc'[a] = [stage |-> s, step |-> "look"]
      BY <2>2
    <3>2. s \in StagesOf(a) /\ s \in Stages
      BY <1>3, <2>1, <3>1 DEF EndOfSeed, SeedStages, Stages
    <3>. QED
      BY <1>1, <2>1, <3>1, <3>2, GoesClean DEF Steps
  <2>3. CASE pc'[a] = [pc[a] EXCEPT !.step = "commit"] /\ pc[a].stage \in {"student", "content"}
    <3>1. pc'[a].stage = pc[a].stage /\ pc'[a].step = "commit" /\ pc'[a] \in [stage : Stages, step : Steps]
      BY <1>1, <2>3 DEF Steps
    <3>. QED
      BY <1>1, <2>1, <2>3, <3>1 DEF ActorTyped, StagesOf, Registers, NoWrites
  <2>. QED
    BY <1>1, <1>11, <2>2, <2>3
       DEF StartSeeder, LookForStudent, CountCourses, SeedStudent, SeedContent, At, Goto, Step
<1>12. CASE InsertBadges(a)
  <2>1. tx[a] = NoWrites /\ a \in Running
    BY <1>12, OpenWhere DEF InsertBadges, Registers, At
  <2>2. /\ pc'[a] = [stage |-> "teacher", step |-> "look"]
        /\ tx'[a] = [tx[a] EXCEPT !.badges = Badges \ db.data["badges"]]
    BY <1>1, <1>12 DEF InsertBadges, Goto
  <2>3. tx'[a] = [user |-> "none", badges |-> Badges \ db.data["badges"], deleted |-> {}]
    BY <2>1, <2>2 DEF NoWrites
  <2>4. "teacher" \in StagesOf(a)
    BY <1>3, <2>1 DEF SeedStages
  <2>. QED
    BY <1>1, <2>2, <2>4, <2>3 DEF ActorTyped, StagesOf, Registers, Stages, SeedStages, Steps
<1>13. CASE Settle(a)
  <2>1. tx'[a] = NoWrites /\ pc'[a] = [stage |-> "student", step |-> "look"]
    BY <1>1, <1>13 DEF Settle, Goto
  <2>2. "student" \in StagesOf(a) /\ "student" \in Stages
    BY <1>3, <1>13 DEF Settle, SeedStages, Stages
  <2>. QED
    BY <1>1, <2>1, <2>2, GoesClean DEF Steps
<1>14. CASE SeeRoles(a)
  <2>1. tx[a] = NoWrites /\ tx' = tx /\ a \in Calls
    BY <1>14, OpenWhere, StageTells DEF SeeRoles, Registers, At
  <2>2. PICK s \in {"failed", "roles"}, t \in {"look", "delete"} : pc'[a] = [stage |-> s, step |-> t]
    BY <1>1, <1>14 DEF SeeRoles, At, Goto, Step
  <2>3. s \in StagesOf(a) /\ s \in Stages
    BY <1>1, <1>3, <1>14, <2>1, <2>2 DEF SeeRoles, At, Stages
  <2>. QED
    BY <1>1, <2>1, <2>2, <2>3, GoesClean DEF Steps
<1>15. CASE DeleteRoles(a)
  <2>1. tx[a] = NoWrites
    BY <1>15, OpenWhere DEF DeleteRoles, Registers, At
  <2>2. /\ pc'[a] = [stage |-> "roles", step |-> "commit"]
        /\ tx'[a] = [tx[a] EXCEPT !.deleted = Deletes(a)]
    BY <1>1, <1>15 DEF DeleteRoles, At, Step
  <2>3. tx'[a] = [user |-> "none", badges |-> {}, deleted |-> Deletes(a)]
    BY <2>1, <2>2 DEF NoWrites
  <2>. QED
    BY <1>1, <1>15, <2>2, <2>3 DEF DeleteRoles, ActorTyped, StagesOf, Registers, At, Stages, Steps
<1>16. CASE ReplaceRoles(a) \/ CreateCourse(a) \/ ImportStudent(a)
  <2>1. tx'[a] = NoWrites /\ a \in Calls
    BY <1>1, <1>16, OpenWhere, StageTells DEF ReplaceRoles, CreateCourse, ImportStudent, Registers, At
  <2>2. PICK s \in {"done", "failed"} : pc'[a] = [stage |-> s, step |-> "look"]
    BY <1>1, <1>16 DEF ReplaceRoles, CreateCourse, ImportStudent, Goto
  <2>3. s \in StagesOf(a) /\ s \in Stages
    BY <1>3, <2>1, <2>2 DEF Stages
  <2>. QED
    BY <1>1, <2>1, <2>2, <2>3, GoesClean DEF Steps
<1>. QED
  BY <1>4, <1>5, <1>6, <1>7, <1>8, <1>9, <1>10, <1>11, <1>12, <1>13, <1>14, <1>15, <1>16 DEF OwnStep, Progress

LEMMA CrashTyped ==
    ASSUME Typed, NEW b \in Active, Crash(b)
    PROVE  Typed'
<1>1. /\ scenario' = scenario /\ crashes' \in Nat /\ downgrades' \in Nat
      /\ DOMAIN pc' = Active /\ DOMAIN tx' = Active /\ DOMAIN local' = Active
  BY DEF Crash, Typed, Active
<1>2. ASSUME NEW a \in Active
      PROVE  ActorTyped(a)'
  <2>1. CASE a \notin EndWith(b)
    <3>1. pc'[a] = pc[a] /\ tx'[a] = tx[a]
      BY <2>1 DEF Crash
    <3>. QED
      BY <1>1, <3>1, OthersTyped DEF Typed
  <2>2. CASE a \in EndWith(b)
    <3>1. /\ pc'[a] = [stage |-> IF a = b THEN "down" ELSE "failed", step |-> "look"]
          /\ tx'[a] = NoWrites
      BY <2>2 DEF Crash, AfterTheEnd
    <3>2. /\ a = b => "down" \in StagesOf(a)
          /\ a # b => "failed" \in StagesOf(a)
      BY <2>2, ActorsAre DEF Crash, EndWith, StagesOf, Calls, Typed
    <3>. QED
      BY <1>1, <3>1, <3>2, GoesClean DEF Stages, Steps
  <2>. QED
    BY <2>1, <2>2
<1>. QED
  BY <1>1, <1>2 DEF Typed, Active

LEMMA TypedStep ==
    ASSUME Typed, [Next]_vars
    PROVE  Typed'
<1>1. ASSUME NEW a \in Active, OwnStep(a)
      PROVE  Typed'
  <2>1. OthersStay(a) /\ crashes' \in Nat /\ ActorTyped(a)'
    BY <1>1, OwnSteps, OwnTyped
  <2>2. ASSUME NEW b \in Active, b # a
        PROVE  ActorTyped(b)'
    BY <2>1, <2>2, OthersTyped DEF OthersStay, Typed
  <2>. QED
    BY <2>1, <2>2 DEF OthersStay, Typed, Active
<1>2. ASSUME NEW to, Downgrade(to)
      PROVE  Typed'
  <2>1. /\ scenario' = scenario /\ pc' = pc /\ tx' = tx /\ local' = local /\ crashes' = crashes
        /\ downgrades' = downgrades + 1
    BY <1>2 DEF Downgrade
  <2>2. \A a \in Active : ActorTyped(a)'
    BY <2>1, OthersTyped DEF Typed
  <2>. QED
    BY <2>1, <2>2 DEF Typed, Active
<1>3. CASE UNCHANGED vars
  BY <1>3 DEF vars, Typed, Active, ActorTyped, Registers, Account, At, StagesOf
<1>. QED
  BY <1>1, <1>2, <1>3, CrashTyped DEF Next, OwnStep

LEMMA TypedInit == Init => Typed
<1>. SUFFICES ASSUME Init
              PROVE  Typed
  OBVIOUS
<1>1. /\ scenario \in Scenarios /\ crashes = 0 /\ downgrades = 0
      /\ Active = scenario.actors /\ DOMAIN local = Active /\ DOMAIN tx = Active
  BY DEF Init, Active
<1>2. ASSUME NEW a \in Active
      PROVE  ActorTyped(a)
  <2>1. /\ pc[a] = [stage |-> IF a \in Backends THEN "down" ELSE "ready", step |-> "look"]
        /\ tx[a] = NoWrites
    BY <1>1 DEF Init
  <2>2. (IF a \in Backends THEN "down" ELSE "ready") \in StagesOf(a)
    BY DEF StagesOf
  <2>. QED
    BY <2>1, <2>2 DEF ActorTyped, NoWrites, Registers, At, Stages, Steps
<1>. QED
  BY <1>1, <1>2 DEF Typed

----------------------------------------------------------------------------
(* Revisions *)

LEMMA AtLast ==
    ASSUME Typed, Levels, NEW a \in Active,
           IF a \in Backends THEN pc[a].stage \notin {"down", "migrate"} ELSE ~Stopped(a)
    PROVE  /\ db.revision = 5 /\ Level(db, 5)
           /\ DOMAIN db = Fields /\ DOMAIN db.data = T5
<1>1. db.revision = 5
  BY DEF Levels
<1>. QED
  BY <1>1 DEF Levels, Level, Shaped, Has

LEMMA AtLastServing ==
    ASSUME Typed, Levels, Serving
    PROVE  db.revision = 5
  BY DEF Serving, Levels

LEMMA CommitUserWrites ==
    ASSUME Typed, Levels, NEW a \in Active, CommitUser(a)
    PROVE  /\ db.revision = 5 /\ Wrote(db, db', {"users", "user_roles", "badges"})
           /\ db'.data["users"] = Users \cup {Account(a).email}
           /\ db'.data["badges"] = db.data["badges"] \cup tx[a].badges
           /\ db'.data["user_roles"] = db.data["user_roles"] \cup
                 {[user |-> Account(a).email, role |-> r, by |-> a] : r \in Account(a).roles}
<1>1. db.revision = 5 /\ DOMAIN db = Fields /\ DOMAIN db.data = T5
  <2>1. IF a \in Backends THEN pc[a].stage \notin {"down", "migrate"} ELSE ~Stopped(a)
    BY DEF CommitUser, Registers, Stopped
  <2>. QED
    BY <2>1, AtLast
<1>2. tx[a].user = Account(a).email
  BY DEF CommitUser, Typed, ActorTyped
<1>3. db' = [db EXCEPT !.data = WithUser(a)]
  BY DEF CommitUser
<1>4. /\ WithUser(a) = [db.data EXCEPT !["users"] = @ \cup {tx[a].user}, !["badges"] = @ \cup tx[a].badges,
                    !["user_roles"] = @ \cup {[user |-> tx[a].user, role |-> r, by |-> a] : r \in Account(a).roles}]
  BY DEF WithUser
<1>5. DOMAIN db' = DOMAIN db /\ db'.data = WithUser(a) /\ \A x \in Fields \ {"data"} : db'[x] = db[x]
  BY <1>1, <1>3 DEF Fields
<1>6. "users" \in T5 /\ "badges" \in T5 /\ "user_roles" \in T5
  BY DEF T5, T4, T2
<1>7. DOMAIN WithUser(a) = DOMAIN db.data
  BY <1>4
<1>8. \A t \in T5 \ {"users", "user_roles", "badges"} : WithUser(a)[t] = db.data[t]
  BY <1>1, <1>4
<1>9. /\ WithUser(a)["users"] = Users \cup {tx[a].user}
      /\ WithUser(a)["badges"] = db.data["badges"] \cup tx[a].badges
  BY <1>1, <1>4, <1>6 DEF Users
<1>10. WithUser(a)["user_roles"] = db.data["user_roles"] \cup
          {[user |-> tx[a].user, role |-> r, by |-> a] : r \in Account(a).roles}
  BY <1>1, <1>4, <1>6
<1>. QED
  BY <1>1, <1>2, <1>5, <1>7, <1>8, <1>9, <1>10 DEF Wrote

LEMMA ReplaceRolesWrites ==
    ASSUME Typed, Levels, NEW c \in Active, ReplaceRoles(c), db' # db
    PROVE  /\ db.revision = 5 /\ Wrote(db, db', {"user_roles"})
           /\ db'.data["user_roles"] = (db.data["user_roles"] \ tx[c].deleted) \cup InsertedRoles(c)
           /\ pc'[c].stage = "done"
<1>1. db.revision = 5 /\ DOMAIN db = Fields /\ DOMAIN db.data = T5
  BY AtLast, StageTells, ActorsAre DEF ReplaceRoles, At, Stopped, Typed
<1>2. /\ db' = [db EXCEPT !.data["user_roles"] = (db.data["user_roles"] \ tx[c].deleted) \cup InsertedRoles(c)]
      /\ pc'[c].stage = "done"
  BY OpenWhere DEF ReplaceRoles, Goto
<1>3. "user_roles" \in T5
  BY DEF T5, T4, T2
<1>. QED
  BY <1>1, <1>2, <1>3 DEF Wrote, Fields

LEMMA CreateCourseWrites ==
    ASSUME Typed, Levels, NEW c \in Active, CreateCourse(c)
    PROVE  /\ db.revision = 5 /\ Wrote(db, db', {"courses"}) /\ c \in Calls
           /\ db'.data["courses"] = db.data["courses"] \cup {c}
<1>1. db.revision = 5 /\ DOMAIN db = Fields /\ DOMAIN db.data = T5 /\ c \in Calls
  BY AtLast, StageTells, ActorsAre DEF CreateCourse, At, Stopped, Typed
<1>2. db' = [db EXCEPT !.data["courses"] = @ \cup {c}]
  BY DEF CreateCourse
<1>3. "courses" \in T5
  BY DEF T5, T4, T2
<1>. QED
  BY <1>1, <1>2, <1>3 DEF Wrote, Fields

LEMMA ImportStudentWrites ==
    ASSUME Typed, Levels, NEW c \in Active, ImportStudent(c)
    PROVE  /\ db.revision = 5 /\ Wrote(db, db', {"students"})
           /\ db'.data["students"] = db.data["students"] \cup {Pii(<<c, 1>>, "none")}
<1>1. db.revision = 5 /\ Level(db, 5) /\ DOMAIN db = Fields /\ DOMAIN db.data = T5
  BY AtLast, StageTells, ActorsAre DEF ImportStudent, At, Stopped, Typed
<1>2. Executable(db, "encrypt_pii")
  BY <1>1 DEF Level, Readable
<1>3. db' = [db EXCEPT !.data["students"] = @ \cup {Pii(<<c, 1>>, "none")}]
  BY <1>2 DEF ImportStudent
<1>4. "students" \in T5
  BY DEF T5, T4, T2, T1
<1>. QED
  BY <1>1, <1>3, <1>4 DEF Wrote, Fields

LEMMA SettleWrites ==
    ASSUME Typed, Levels, NEW a \in Active, Settle(a)
    PROVE  /\ db.revision = 5 /\ Wrote(db, db', {"badges"})
           /\ db'.data["badges"] = db.data["badges"] \cup tx[a].badges
<1>1. db.revision = 5 /\ DOMAIN db = Fields /\ DOMAIN db.data = T5
  BY AtLast DEF Settle, Stopped
<1>2. db' = [db EXCEPT !.data["badges"] = @ \cup tx[a].badges]
  BY DEF Settle
<1>3. "badges" \in T5
  BY DEF T5
<1>. QED
  BY <1>1, <1>2, <1>3 DEF Wrote, Fields

LEMMA SeedStudentWrites ==
    ASSUME Typed, Levels, NEW a \in Active, SeedStudent(a)
    PROVE  /\ db.revision = 5 /\ Wrote(db, db', {"students", "guardians", "student_guardian"})
           /\ db'.data["students"] = db.data["students"] \cup {Pii(<<a, crashes>>, DemoEmail.child)}
           /\ db'.data["guardians"] = db.data["guardians"] \cup {Pii(<<a, crashes>>, DemoEmail.parent)}
           /\ db'.data["student_guardian"] = db.data["student_guardian"] \cup {<<a, crashes>>}
<1>1. db.revision = 5 /\ DOMAIN db = Fields /\ DOMAIN db.data = T5
  BY AtLast DEF SeedStudent, At, Stopped
<1>. DEFINE s == Pii(<<a, crashes>>, DemoEmail.child)
            g == Pii(<<a, crashes>>, DemoEmail.parent)
<1>. HIDE DEF s, g
<1>2. db' = [db EXCEPT !.data["students"] = @ \cup {s}, !.data["guardians"] = @ \cup {g},
                       !.data["student_guardian"] = @ \cup {<<a, crashes>>}]
  BY DEF SeedStudent, s, g
<1>3. "students" \in T5 /\ "guardians" \in T5 /\ "student_guardian" \in T5
  BY DEF T5, T4, T2, T1
<1>4. /\ Wrote(db, db', {"students", "guardians", "student_guardian"})
      /\ db'.data["students"] = db.data["students"] \cup {s}
      /\ db'.data["guardians"] = db.data["guardians"] \cup {g}
      /\ db'.data["student_guardian"] = db.data["student_guardian"] \cup {<<a, crashes>>}
  BY <1>1, <1>2, <1>3 DEF Wrote, Fields
<1>. QED
  BY <1>1, <1>4 DEF s, g

LEMMA SeedContentWrites ==
    ASSUME Typed, Levels, NEW a \in Active, SeedContent(a)
    PROVE  /\ db.revision = 5
           /\ Wrote(db, db', {"courses", "modules", "groups", "schedule_slots", "students", "enrollments", "student_stats"})
           /\ db'.data["courses"] = db.data["courses"] \cup {a}
           /\ db'.data["modules"] = db.data["modules"] \cup {a}
           /\ db'.data["groups"] = db.data["groups"] \cup {a}
           /\ db'.data["schedule_slots"] = db.data["schedule_slots"] \cup {a}
           /\ db'.data["students"] = db.data["students"] \cup {Pii(Other(a), "none")}
           /\ db'.data["enrollments"] = db.data["enrollments"] \cup {<<a, Other(a)>>} \cup {<<a, s.id>> : s \in DemoStudents}
           /\ db'.data["student_stats"] = db.data["student_stats"] \cup {s.id : s \in DemoStudents}
<1>1. db.revision = 5 /\ DOMAIN db = Fields /\ DOMAIN db.data = T5
  BY AtLast DEF SeedContent, At, Stopped
<1>. DEFINE new      == Pii(Other(a), "none")
            enrolled == {<<a, s.id>> : s \in DemoStudents}
            counted  == {s.id : s \in DemoStudents}
            own      == <<a, Other(a)>>
<1>. HIDE DEF new, enrolled, counted, own
<1>2. db' = [db EXCEPT !.data["courses"]  = @ \cup {a}, !.data["modules"] = @ \cup {a},
                       !.data["groups"]   = @ \cup {a}, !.data["schedule_slots"] = @ \cup {a},
                       !.data["students"] = @ \cup {new},
                       !.data["enrollments"]   = @ \cup {own} \cup enrolled,
                       !.data["student_stats"] = @ \cup counted]
  BY DEF SeedContent, new, enrolled, counted, own
<1>3. /\ "courses" \in T5 /\ "modules" \in T5 /\ "groups" \in T5 /\ "schedule_slots" \in T5
      /\ "students" \in T5 /\ "enrollments" \in T5 /\ "student_stats" \in T5
  BY DEF T5, T4, T2, T1
<1>. DEFINE f == [db.data EXCEPT !["courses"]  = @ \cup {a}, !["modules"] = @ \cup {a},
                       !["groups"]   = @ \cup {a}, !["schedule_slots"] = @ \cup {a},
                       !["students"] = @ \cup {new},
                       !["enrollments"]   = @ \cup {own} \cup enrolled,
                       !["student_stats"] = @ \cup counted]
<1>4. DOMAIN db' = DOMAIN db /\ db'.data = f /\ \A x \in Fields \ {"data"} : db'[x] = db[x]
  BY <1>1, <1>2 DEF Fields
<1>5. DOMAIN f = T5 /\ \A t \in T5 \ {"courses", "modules", "groups", "schedule_slots", "students",
                                       "enrollments", "student_stats"} : f[t] = db.data[t]
  BY <1>1
<1>6. /\ f["courses"] = db.data["courses"] \cup {a} /\ f["modules"] = db.data["modules"] \cup {a}
      /\ f["groups"] = db.data["groups"] \cup {a} /\ f["schedule_slots"] = db.data["schedule_slots"] \cup {a}
      /\ f["students"] = db.data["students"] \cup {new}
  BY <1>1, <1>3
<1>7. /\ f["enrollments"] = db.data["enrollments"] \cup {own} \cup enrolled
      /\ f["student_stats"] = db.data["student_stats"] \cup counted
  BY <1>1, <1>3
<1>. HIDE DEF f
<1>8. /\ Wrote(db, db', {"courses", "modules", "groups", "schedule_slots", "students", "enrollments", "student_stats"})
      /\ db'.data = f
  BY <1>1, <1>4, <1>5 DEF Wrote
<1>. QED
  BY <1>1, <1>6, <1>7, <1>8 DEF new, enrolled, counted, own

\* What a step may do to the database: nothing, write rows, or migrate.
Written == {"users", "user_roles", "badges", "courses", "modules", "groups", "schedule_slots", "students",
            "guardians", "student_guardian", "enrollments", "student_stats"}

LEMMA PiiIsPerson ==
    ASSUME NEW id, NEW user
    PROVE  IsPerson(Pii(id, user), db.key)
  BY DEF Pii, IsPerson

LEMMA OwnLevel ==
    ASSUME Typed, Levels, NEW a \in Active, OwnStep(a), ~Upgrade(a)
    PROVE  /\ db'.revision = db.revision /\ Level(db', db.revision)
           /\ db' # db => db.revision = 5 /\ Wrote(db, db', Written)
<1>1. db.revision \in 0..5 /\ Level(db, db.revision)
  BY DEF Levels
<1>2. ASSUME db.revision = 5, NEW S, S \subseteq Written, Wrote(db, db', S),
             \A t \in People \cap S : \A row \in db'.data[t] : row \in db.data[t] \/ IsPerson(row, db.key)
      PROVE  db'.revision = db.revision /\ Level(db', db.revision) /\ Wrote(db, db', Written)
  <2>1. Level(db, 5)
    BY <1>1, <1>2
  <2>2. \A t \in People : \A row \in db.data[t] : IsPerson(row, db.key)
    BY <2>1 DEF Level, Readable
  <2>3. \A t \in People \cap S : \A row \in db'.data[t] : IsPerson(row, db.key)
    BY <1>2, <2>2
  <2>4. Level(db', 5)
    BY <1>2, <2>1, <2>3, WroteLevel
  <2>. QED
    BY <1>2, <2>4 DEF Wrote, Fields
<1>3. CASE CommitUser(a)
  <2>1. db.revision = 5 /\ Wrote(db, db', {"users", "user_roles", "badges"})
    BY <1>3, CommitUserWrites
  <2>. QED
    BY <1>2, <2>1 DEF People, Written
<1>4. CASE ReplaceRoles(a)
  <2>1. CASE db' = db
    BY <1>1, <2>1
  <2>2. CASE db' # db
    <3>1. db.revision = 5 /\ Wrote(db, db', {"user_roles"})
      BY <1>4, <2>2, ReplaceRolesWrites
    <3>. QED
      BY <1>2, <3>1 DEF People, Written
  <2>. QED
    BY <2>1, <2>2
<1>5. CASE CreateCourse(a)
  <2>1. db.revision = 5 /\ Wrote(db, db', {"courses"})
    BY <1>5, CreateCourseWrites
  <2>. QED
    BY <1>2, <2>1 DEF People, Written
<1>6. CASE ImportStudent(a)
  <2>1. /\ db.revision = 5 /\ Wrote(db, db', {"students"})
        /\ db'.data["students"] = db.data["students"] \cup {Pii(<<a, 1>>, "none")}
    BY <1>6, ImportStudentWrites
  <2>. QED
    BY <1>2, <2>1, PiiIsPerson DEF People, Written
<1>7. CASE Settle(a)
  <2>1. db.revision = 5 /\ Wrote(db, db', {"badges"})
    BY <1>7, SettleWrites
  <2>. QED
    BY <1>2, <2>1 DEF People, Written
<1>8. CASE SeedStudent(a)
  <2>1. /\ db.revision = 5 /\ Wrote(db, db', {"students", "guardians", "student_guardian"})
        /\ db'.data["students"] = db.data["students"] \cup {Pii(<<a, crashes>>, DemoEmail.child)}
        /\ db'.data["guardians"] = db.data["guardians"] \cup {Pii(<<a, crashes>>, DemoEmail.parent)}
    BY <1>8, SeedStudentWrites
  <2>. QED
    BY <1>2, <2>1, PiiIsPerson DEF People, Written
<1>9. CASE SeedContent(a)
  <2>1. /\ db.revision = 5
        /\ Wrote(db, db', {"courses", "modules", "groups", "schedule_slots", "students", "enrollments", "student_stats"})
        /\ db'.data["students"] = db.data["students"] \cup {Pii(Other(a), "none")}
    BY <1>9, SeedContentWrites
  <2>. QED
    BY <1>2, <2>1, PiiIsPerson DEF People, Written
<1>10. CASE \/ StartUpgrade(a) \/ FindAccount(a) \/ InsertUser(a) \/ EmailTaken(a)
            \/ StartSeeder(a) \/ InsertBadges(a) \/ LookForStudent(a) \/ CountCourses(a)
            \/ SeeRoles(a) \/ DeleteRoles(a) \/ Arrive(a) \/ LoseCall(a) \/ SeedFails(a)
  <2>1. db' = db
    BY <1>10 DEF StartUpgrade, FindAccount, InsertUser, EmailTaken, StartSeeder, InsertBadges, LookForStudent,
                 CountCourses, SeeRoles, DeleteRoles, Arrive, LoseCall, SeedFails
  <2>. QED
    BY <1>1, <2>1
<1>. QED
  BY <1>3, <1>4, <1>5, <1>6, <1>7, <1>8, <1>9, <1>10 DEF OwnStep, Progress

LEMMA UpgradeMakes ==
    ASSUME Typed, Levels, NEW b \in Active, Upgrade(b)
    PROVE  /\ refused' = FALSE
           /\ \/ /\ db' = db /\ pc'[b] = [stage |-> "down", step |-> "look"]
              \/ /\ Upgrades(db, db', 5) /\ pc'[b] = [stage |-> "admin", step |-> "look"]
<1>1. db.revision \in 0..5 /\ Level(db, db.revision) /\ refused = FALSE
  BY DEF Levels
<1>2. LastRevision = 5 /\ 5 \in db.revision..5
  BY <1>1, Revisions
<1>. DEFINE next == Upgraded(db, LastRevision)
<1>3. Upgrades(db, next, 5)
  BY <1>1, <1>2, UpgradeWorks
<1>4. next.ok = TRUE
  BY <1>3 DEF Upgrades, Level, Shaped, Has
<1>. HIDE DEF next
<1>5. /\ db' = (IF local[b].revision = db.revision THEN next ELSE db)
      /\ refused' = refused
      /\ pc' = [pc EXCEPT ![b] = [stage |-> IF local[b].revision = db.revision THEN "admin" ELSE "down", step |-> "look"]]
  BY <1>1, <1>4 DEF Upgrade, Goto, AfterTheEnd, next
<1>. QED
  BY <1>1, <1>3, <1>5, OpenWhere

LEMMA DowngradeMakes ==
    ASSUME Typed, Levels, NEW to \in 0..(LastRevision - 1), Downgrade(to)
    PROVE  refused' = FALSE /\ Downgrades(db, db', to) /\ to \in 0..4 /\ to < db.revision
<1>1. db.revision \in 0..5 /\ Level(db, db.revision) /\ refused = FALSE
  BY DEF Levels
<1>2. to \in 0..4 /\ to \in 0..db.revision /\ to < db.revision
  BY <1>1, Revisions DEF Downgrade
<1>. DEFINE next == Downgraded(db, to)
<1>3. Downgrades(db, next, to)
  BY <1>1, <1>2, DowngradeWorks
<1>4. next.ok = TRUE
  BY <1>2, <1>3 DEF Downgrades, Level, Shaped, Has
<1>. HIDE DEF next
<1>5. db' = next /\ refused' = refused
  BY <1>1, <1>4 DEF Downgrade, next
<1>. QED
  BY <1>1, <1>2, <1>3, <1>5

LEMMA LevelsStep ==
    ASSUME Typed, Levels, [Next]_vars
    PROVE  Levels'
<1>1. ASSUME NEW a \in Active, OwnStep(a), ~Upgrade(a)
      PROVE  Levels'
  <2>1. OthersStay(a) /\ db'.revision = db.revision /\ Level(db', db.revision) /\ refused' = refused
    <3>1. OthersStay(a) /\ db'.revision = db.revision /\ Level(db', db.revision)
      BY <1>1, OwnSteps, OwnLevel
    <3>2. refused' = refused
      BY <1>1 DEF OwnStep, Progress, StartUpgrade, FindAccount, InsertUser, EmailTaken, CommitUser, StartSeeder,
                  InsertBadges, Settle, LookForStudent, SeedStudent, CountCourses, SeedContent, SeeRoles, DeleteRoles,
                  ReplaceRoles, CreateCourse, ImportStudent, Arrive, LoseCall, SeedFails
    <3>. QED
      BY <3>1, <3>2
  <2>2. a \in Backends /\ pc'[a].stage \notin {"down", "migrate"} => db.revision = 5
    <3>1. CASE pc[a].stage \notin {"down", "migrate"}
      BY <3>1 DEF Levels
    <3>2. CASE StartUpgrade(a)
      BY <3>2, OpenWhere DEF StartUpgrade, Goto
    <3>3. CASE pc[a].stage \in {"down", "migrate"} /\ ~StartUpgrade(a)
      BY <1>1, <3>3, ActorsAre
         DEF Typed, OwnStep, Progress, FindAccount, InsertUser, EmailTaken, CommitUser, StartSeeder, Registers, Seeding,
             InsertBadges, Settle, LookForStudent, SeedStudent, CountCourses, SeedContent, SeeRoles, DeleteRoles, At,
             ReplaceRoles, CreateCourse, ImportStudent, Arrive, LoseCall, SeedFails, Calls, Stopped
    <3>. QED
      BY <3>1, <3>2, <3>3
  <2>3. a \notin Backends => db.revision = 5
    <3>1. CASE ~Stopped(a)
      BY <3>1 DEF Levels
    <3>2. CASE Stopped(a) /\ a \notin Backends
      BY <1>1, <3>2, AtLastServing
         DEF OwnStep, Progress, StartUpgrade, FindAccount, InsertUser, EmailTaken, CommitUser, StartSeeder, Registers, Seeding,
             InsertBadges, Settle, LookForStudent, SeedStudent, CountCourses, SeedContent, SeeRoles, DeleteRoles, At,
             ReplaceRoles, CreateCourse, ImportStudent, Arrive, LoseCall, SeedFails, Calls, Stopped
    <3>. QED
      BY <3>1, <3>2
  <2>. QED
    BY <2>1, <2>2, <2>3 DEF Levels, OthersStay, Stopped, Active
<1>2. ASSUME NEW b \in Active, Upgrade(b)
      PROVE  Levels'
  <2>1. OthersStay(b) /\ b \in Backends /\ refused' = FALSE
    BY <1>2, OwnSteps, UpgradeMakes DEF OwnStep, Progress, Upgrade
  <2>2. CASE db' = db /\ pc'[b] = [stage |-> "down", step |-> "look"]
    BY <2>1, <2>2 DEF Levels, OthersStay, Stopped, Active
  <2>3. CASE Upgrades(db, db', 5)
    BY <2>1, <2>3 DEF Levels, OthersStay, Active, Upgrades
  <2>. QED
    BY <1>2, <2>2, <2>3, UpgradeMakes
<1>3. ASSUME NEW b \in Active, Crash(b)
      PROVE  Levels'
  <2>1. /\ db' = db /\ refused' = refused /\ downgrades' = downgrades /\ DOMAIN pc' = Active
        /\ \A a \in Active : a \notin EndWith(b) => pc'[a] = pc[a]
        /\ \A a \in EndWith(b) \ {b} : pc'[a].stage = "failed"
        /\ pc'[b].stage = "down"
    BY <1>3 DEF Crash, AfterTheEnd, EndWith, Calls, Active
  <2>2. b \in Backends /\ \A a \in EndWith(b) \ {b} : a \in Active \ Backends /\ ~Stopped(a)
    BY <1>3, ActorsAre DEF Crash, EndWith, Calls, Typed
  <2>3. ASSUME NEW a \in Active
        PROVE  /\ a \in Backends /\ pc'[a].stage \notin {"down", "migrate"} => db.revision = 5
               /\ a \notin Backends /\ ~Stopped(a)' => db.revision = 5
               /\ a \notin Backends /\ downgrades = 0 /\ pc'[a].stage # "ready" => db.revision = 5
    <3>1. CASE a \notin EndWith(b)
      BY <2>1, <3>1 DEF Levels, Stopped
    <3>2. CASE a = b
      BY <2>1, <2>2, <3>2
    <3>3. CASE a \in EndWith(b) /\ a # b
      BY <2>2, <3>3 DEF Levels
    <3>. QED
      BY <3>1, <3>2, <3>3
  <2>. QED
    <3>1. refused' = FALSE /\ db'.revision \in 0..5 /\ Level(db', db'.revision)
      BY <2>1 DEF Levels
    <3>2. \A a \in Active' \cap Backends : pc'[a].stage \notin {"down", "migrate"} => db'.revision = 5
      BY <2>1, <2>3 DEF Active
    <3>3. \A a \in Active' \ Backends :
            /\ ~Stopped(a)' => db'.revision = 5
            /\ downgrades' = 0 /\ pc'[a].stage # "ready" => db'.revision = 5
      BY <2>1, <2>3 DEF Active, Stopped
    <3>. QED
      BY <2>1, <3>1, <3>2, <3>3 DEF Levels
<1>4. ASSUME NEW to \in 0..(LastRevision - 1), Downgrade(to)
      PROVE  Levels'
  <2>1. refused' = FALSE /\ Downgrades(db, db', to) /\ to \in 0..4
    BY <1>4, DowngradeMakes
  <2>2. pc' = pc /\ downgrades' # 0 /\ \A a \in Active : Stopped(a)
    BY <1>4 DEF Downgrade, Typed
  <2>3. \A b \in Active \cap Backends : pc[b].stage \in {"down", "migrate"}
    BY <2>2, ActorsAre DEF Stopped, Typed, ActorTyped, StagesOf, SeedStages
  <2>. QED
    BY <2>1, <2>2, <2>3 DEF Levels, Downgrades, Stopped, Active
<1>5. CASE UNCHANGED vars
  BY <1>5 DEF vars, Levels, Active, Stopped
<1>. QED
  BY <1>1, <1>2, <1>3, <1>4, <1>5 DEF Next, OwnStep

LEMMA LevelsInit == Init => Levels
<1>. SUFFICES ASSUME Init
              PROVE  Levels
  OBVIOUS
<1>1. db.revision \in {0, 1} /\ Level(db, db.revision)
  BY EmptyLevel, LegacyLevel, ScenariosAssumption DEF Init
<1>2. \A a \in Active : pc[a].stage = (IF a \in Backends THEN "down" ELSE "ready")
  BY DEF Init, Active
<1>. QED
  BY <1>1, <1>2 DEF Init, Levels, Stopped

Sound == Typed /\ Levels

LEMMA SoundAlways == Spec => []Sound
<1>1. Init => Sound
  BY TypedInit, LevelsInit DEF Sound
<1>2. Sound /\ [Next]_vars => Sound'
  BY TypedStep, LevelsStep DEF Sound
<1>. QED
  BY <1>1, <1>2, PTL DEF Spec

LEMMA SoundTypes == Sound => TypeOK
<1>. SUFFICES ASSUME Typed, Levels
              PROVE  TypeOK
  BY DEF Sound
<1>1. db.revision \in 0..5 /\ Level(db, db.revision) /\ LastRevision = 5
  BY Revisions DEF Levels
<1>2. db.ok /\ DOMAIN db.data = db.tables /\ (db.key # 0 <=> db.revision >= 2)
  BY <1>1, LevelHas
<1>3. Shape(db) = ShapeAt[db.revision]
  BY <1>1, FreshLevel, LevelShape
<1>4. ASSUME NEW a \in Active
      PROVE  /\ Stopped(a) => tx[a] = NoWrites
             /\ tx[a].deleted # {} => At(a, "roles", "commit")
             /\ tx[a].user # "none" => Registers(a) /\ pc[a].step = "commit"
  <2>1. ActorTyped(a)
    BY DEF Typed
  <2>2. Stopped(a) => tx[a] = NoWrites
    BY <2>1, OpenWhere DEF Stopped, Registers, At
  <2>. QED
    BY <2>1, <2>2 DEF ActorTyped
<1>5. ASSUME NEW b \in Active \cap Backends, pc[b].stage \notin {"down", "migrate", "failed"}
      PROVE  FitsModels(db)
  BY <1>1, <1>5, FitsAtLast DEF Levels
<1>. QED
  BY <1>1, <1>2, <1>3, <1>4, <1>5 DEF TypeOK

\* However starts raced, crashed and were downgraded, the database is what its
\* revision says, nothing stays open in an actor that has stopped, and behind its
\* migration a backend finds the tables its models ask for (migrations/versions).
THEOREM DatabaseIsAtItsRevision == Spec => []TypeOK
  BY SoundAlways, SoundTypes, PTL

\* No upgrade and no downgrade is refused, and every name and contact is stored
\* under the one key its revision has: the first encryption and its way back
\* leave nothing behind (0002, vault.encrypt_pii).
THEOREM PersonalDataStaysReadable == Spec => []PiiReadable
<1>1. Sound => PiiReadable
  <2>. SUFFICES ASSUME Typed, Levels
                PROVE  PiiReadable
    BY DEF Sound
  <2>1. db.revision \in 0..5 /\ Level(db, db.revision) /\ ~refused
    BY DEF Levels
  <2>2. ASSUME NEW t \in {"students", "guardians"} \cap db.tables, NEW row \in db.data[t]
        PROVE  row.key = db.key
    <3>1. db.revision # 0
      BY <2>1, <2>2 DEF Level, Shaped, Has, None
    <3>. QED
      BY <2>1, <2>2, <3>1 DEF Level, Readable, People, IsPerson
  <2>. QED
    BY <2>1, <2>2 DEF PiiReadable, Level, Readable
<1>. QED
  BY <1>1, SoundAlways, PTL

----------------------------------------------------------------------------
(* Accounts and their roles *)

UsersStay ==
    db'.data["users"] = db.data["users"] /\ db'.data["user_roles"] = db.data["user_roles"]
DoneStay == \A c \in Calls : pc[c].stage = "done" => pc'[c].stage = "done"

LEMMA StoppedCalls ==
    ASSUME Typed, NEW a \in Calls, OwnStep(a)
    PROVE  pc[a].stage # "done" /\ pc[a].stage # "failed"
<1>1. a \in Active /\ a \notin Backends /\ a \notin Seeders /\ a \notin Running
  BY ActorsAre DEF Calls, Running, Typed
<1>. QED
  BY <1>1 DEF OwnStep, Progress, StartUpgrade, Upgrade, FindAccount, InsertUser, EmailTaken, CommitUser, StartSeeder,
              Registers, Seeding, InsertBadges, Settle, LookForStudent, SeedStudent, CountCourses, SeedContent, SeeRoles,
              DeleteRoles, At, ReplaceRoles, CreateCourse, ImportStudent, Arrive, LoseCall, SeedFails, Stopped

LEMMA OwnDoneStay ==
    ASSUME Typed, NEW a \in Active, OwnStep(a)
    PROVE  DoneStay
  BY OwnSteps, StoppedCalls DEF DoneStay, OthersStay, Calls

\* Who writes the tables of the accounts.
LEMMA OwnUsersStay ==
    ASSUME Typed, Levels, NEW a \in Active, OwnStep(a), ~CommitUser(a),
           ReplaceRoles(a) => db' = db, db.revision >= 2
    PROVE  UsersStay
<1>1. db' = db => UsersStay
  BY DEF UsersStay
<1>2. ASSUME NEW S, Wrote(db, db', S), db.revision = 5, "users" \notin S, "user_roles" \notin S
      PROVE  UsersStay
  <2>1. "users" \in DOMAIN db.data /\ "user_roles" \in DOMAIN db.data
    BY <1>2 DEF Levels, Level, Shaped, Has, T5, T4, T2
  <2>. QED
    BY <1>2, <2>1 DEF Wrote, UsersStay
<1>3. CASE CreateCourse(a)
  BY <1>2, <1>3, CreateCourseWrites
<1>4. CASE ImportStudent(a)
  BY <1>2, <1>4, ImportStudentWrites
<1>5. CASE Settle(a)
  BY <1>2, <1>5, SettleWrites
<1>6. CASE SeedStudent(a)
  <2>1. Wrote(db, db', {"students", "guardians", "student_guardian"}) /\ db.revision = 5
    BY <1>6, SeedStudentWrites
  <2>. QED
    BY <1>2, <2>1
<1>7. CASE SeedContent(a)
  <2>1. /\ Wrote(db, db', {"courses", "modules", "groups", "schedule_slots", "students", "enrollments", "student_stats"})
        /\ db.revision = 5
    BY <1>7, SeedContentWrites
  <2>. QED
    BY <1>2, <2>1
<1>8. CASE Upgrade(a)
  <2>1. db' = db \/ Upgrades(db, db', 5)
    BY <1>8, UpgradeMakes
  <2>2. ASSUME Upgrades(db, db', 5)
        PROVE  UsersStay
    <3>1. RowsGrow(db, db')
      BY <2>2 DEF Upgrades
    <3>2. db.revision \in {2, 3} \/ db.revision = 4 \/ db.revision = 5
      BY DEF Levels
    <3>3. "users" \in DOMAIN db.data /\ "user_roles" \in DOMAIN db.data
      BY <3>2 DEF Levels, Level, Shaped, Has, T5, T4, T2
    <3>. QED
      BY <3>1, <3>3 DEF RowsGrow, SameRows, UsersStay
  <2>. QED
    BY <1>1, <2>1, <2>2
<1>9. CASE \/ StartUpgrade(a) \/ FindAccount(a) \/ InsertUser(a) \/ EmailTaken(a) \/ ReplaceRoles(a)
           \/ StartSeeder(a) \/ InsertBadges(a) \/ LookForStudent(a) \/ CountCourses(a)
           \/ SeeRoles(a) \/ DeleteRoles(a) \/ Arrive(a) \/ LoseCall(a) \/ SeedFails(a)
  <2>1. db' = db
    BY <1>9 DEF StartUpgrade, FindAccount, InsertUser, EmailTaken, StartSeeder, InsertBadges, LookForStudent,
                 CountCourses, SeeRoles, DeleteRoles, Arrive, LoseCall, SeedFails
  <2>. QED
    BY <1>1, <2>1
<1>. QED
  BY <1>3, <1>4, <1>5, <1>6, <1>7, <1>8, <1>9 DEF OwnStep, Progress

LEMMA DowngradeUsersStay ==
    ASSUME Typed, Levels, NEW to \in 0..(LastRevision - 1), Downgrade(to), db'.revision >= 2
    PROVE  UsersStay
<1>1. Downgrades(db, db', to) /\ to \in 0..4 /\ to < db.revision /\ db.revision \in 0..5
  BY DowngradeMakes DEF Levels
<1>2. to >= 2 /\ RowsShrink(db, db') /\ Level(db', to)
  BY <1>1 DEF Downgrades
<1>3. to \in {2, 3} \/ to = 4
  BY <1>1, <1>2
<1>4. "users" \in DOMAIN db'.data /\ "user_roles" \in DOMAIN db'.data
  BY <1>2, <1>3 DEF Level, Shaped, Has, T4, T2
<1>. QED
  BY <1>2, <1>4 DEF RowsShrink, SameRows, UsersStay

\* The first upgrade past the accounts finds nobody at work.
LEMMA UpgradeBegins ==
    ASSUME Typed, Levels, NEW b \in Active, Upgrade(b), ~(db.revision >= 2), db'.revision >= 2
    PROVE  /\ Upgrades(db, db', 5) /\ downgrades' = downgrades /\ tx' = tx
           /\ \A t \in T5 \ T1 : db'.data[t] = {}
           /\ \A t \in People : \A row \in db'.data[t] : row.user = "none"
           /\ \A a \in Active : /\ tx[a] = NoWrites
                                /\ a \in Backends => pc'[a].stage \in {"down", "migrate", "admin"}
                                /\ a \notin Backends => pc'[a] = pc[a] /\ Stopped(a) /\ (downgrades = 0 => pc[a].stage = "ready")
<1>1. Upgrades(db, db', 5) /\ pc'[b] = [stage |-> "admin", step |-> "look"] /\ b \in Backends
  BY UpgradeMakes DEF Upgrade
<1>2. OthersStay(b) /\ tx' = tx
  BY OwnSteps DEF OwnStep, Progress, Upgrade
<1>3. db.revision < 2 /\ DOMAIN db'.data = T5
  BY <1>1 DEF Levels, Upgrades, Level, Shaped, Has
<1>4. ASSUME NEW a \in Active
      PROVE  /\ tx[a] = NoWrites
             /\ a \in Backends => pc[a].stage \in {"down", "migrate"}
             /\ a \notin Backends => Stopped(a) /\ (downgrades = 0 => pc[a].stage = "ready")
  <2>1. a \in Backends => pc[a].stage \in {"down", "migrate"}
    BY <1>3 DEF Levels
  <2>2. a \notin Backends => Stopped(a) /\ (downgrades = 0 => pc[a].stage = "ready")
    BY <1>3 DEF Levels
  <2>. QED
    BY <2>1, <2>2, OpenWhere DEF Stopped, Registers, At
<1>. QED
  BY <1>1, <1>2, <1>3, <1>4 DEF Upgrades, OthersStay

LEMMA EmailsReal ==
    ASSUME Typed, NEW a \in Active, Registers(a)
    PROVE  /\ Account(a).email # "none"
           /\ pc[a].stage # "register" => Account(a).roles # {}
           /\ pc[a].stage = "admin" => Account(a).email = AdminEmail /\ Account(a).roles = {"admin"}
           /\ \A s \in {"teacher", "child", "parent"} :
                 pc[a].stage = s => Account(a).email = DemoEmail[s] /\ Account(a).roles = {s}
           /\ pc[a].stage = "register" =>
                 a \in Calls /\ Ask[a].kind = "register" /\ Account(a).email = Ask[a].email /\ Account(a).roles = Ask[a].roles
<1>1. pc[a].stage \in {"admin", "teacher", "child", "parent", "register"}
  BY DEF Registers
<1>2. CASE pc[a].stage = "admin"
  BY <1>2, AdminAssumption DEF Account
<1>3. CASE pc[a].stage \in {"teacher", "child", "parent"}
  BY <1>3 DEF Account, DemoEmail
<1>4. CASE pc[a].stage = "register"
  <2>1. a \in Calls /\ Ask[a].kind = "register"
    BY <1>4, StageTells
  <2>. QED
    BY <1>4, <2>1, AskAssumption DEF Account, Calls
<1>. QED
  BY <1>1, <1>2, <1>3, <1>4

LEMMA CommitsOwn ==
    ASSUME Typed, Flushed, NEW a \in Active, CommitUser(a)
    PROVE  /\ Registers(a) /\ tx[a].user = Account(a).email /\ Account(a).email \notin Users
           /\ \A b \in Active \ {a} : tx[b].user # Account(a).email
<1>1. Registers(a) /\ tx[a].user = Account(a).email
  BY DEF CommitUser, Typed, ActorTyped
<1>2. tx[a].user # "none"
  BY <1>1, EmailsReal
<1>. QED
  BY <1>1, <1>2 DEF Flushed

LEMMA FlushedStep ==
    ASSUME Typed, Levels, Flushed, NEW a \in Active, OwnStep(a), db.revision >= 2
    PROVE  Flushed'
<1>1. OthersStay(a)
  BY OwnSteps
<1>2. CASE InsertUser(a)
  <2>1. /\ db' = db /\ tx'[a].user = Account(a).email /\ Account(a).email \notin Users
        /\ \A b \in Active \ {a} : tx[b].user # Account(a).email
    BY <1>2, OpenWhere DEF InsertUser, Typed, ActorTyped
  <2>. QED
    BY <1>1, <2>1 DEF Flushed, OthersStay, Users, Active
<1>3. CASE CommitUser(a)
  <2>1. /\ tx'[a].user = "none"
        /\ \A b \in Active \ {a} : tx[b].user # Account(a).email
        /\ Users' = Users \cup {Account(a).email}
    BY <1>3, OpenWhere, CommitsOwn, CommitUserWrites DEF CommitUser, NoWrites, Users
  <2>. QED
    BY <1>1, <2>1 DEF Flushed, OthersStay, Active
<1>4. CASE ~InsertUser(a) /\ ~CommitUser(a)
  <2>1. Users' = Users
    <3>1. CASE ReplaceRoles(a) /\ db' # db
      <4>1. Wrote(db, db', {"user_roles"}) /\ "users" \in DOMAIN db.data
        BY <3>1, ReplaceRolesWrites DEF Levels, Level, Shaped, Has, T5, T4, T2
      <4>. QED
        BY <4>1 DEF Wrote, Users
    <3>2. CASE ReplaceRoles(a) => db' = db
      BY <1>4, <3>2, OwnUsersStay DEF UsersStay, Users
    <3>. QED
      BY <3>1, <3>2
  <2>2. tx'[a] = tx[a] \/ tx'[a].user = "none" \/ tx'[a].user = tx[a].user
    <3>1. CASE InsertBadges(a) \/ DeleteRoles(a)
      <4>1. tx[a] = [user |-> tx[a].user, badges |-> tx[a].badges, deleted |-> tx[a].deleted]
        BY DEF Typed, ActorTyped
      <4>2. \/ tx'[a] = [tx[a] EXCEPT !.badges = Badges \ db.data["badges"]]
            \/ tx'[a] = [tx[a] EXCEPT !.deleted = Deletes(a)]
        BY <3>1, OpenWhere DEF InsertBadges, DeleteRoles
      <4>. QED
        BY <4>1, <4>2
    <3>2. CASE ~InsertBadges(a) /\ ~DeleteRoles(a)
      BY <1>4, <3>2, OpenWhere
         DEF OwnStep, Progress, StartUpgrade, Upgrade, FindAccount, EmailTaken, StartSeeder, Settle, LookForStudent,
             SeedStudent, CountCourses, SeedContent, SeeRoles, ReplaceRoles, CreateCourse, ImportStudent, Arrive,
             LoseCall, SeedFails, NoWrites
    <3>. QED
      BY <3>1, <3>2
  <2>. QED
    BY <1>1, <2>1, <2>2 DEF Flushed, OthersStay, Active
<1>. QED
  BY <1>2, <1>3, <1>4

LEMMA AskedStep ==
    ASSUME Typed, Asked, NEW a \in Active, OwnStep(a)
    PROVE  Asked'
<1>1. OthersStay(a)
  BY OwnSteps
<1>2. ASSUME a \in Calls, pc'[a].stage = "register"
      PROVE  Ask[a].roles \subseteq SelfAssignable
  <2>1. CASE pc[a].stage = "register"
    BY <1>2, <2>1 DEF Asked
  <2>2. CASE Arrive(a)
    BY <1>2, <2>2, OpenWhere, StageTells DEF Arrive, Goto
  <2>3. CASE pc[a].stage # "register" /\ ~Arrive(a)
    <3>1. /\ a \notin Running /\ a \notin Backends /\ a \notin Seeders
          /\ pc[a].stage \in {"ready", "roles", "course", "import"}
      <4>1. a \notin Backends /\ a \notin Seeders
        BY <1>2, ActorsAre DEF Typed, Calls
      <4>2. pc[a].stage \in {"ready", "done", "failed", Ask[a].kind}
        BY <4>1, OpenWhere DEF StagesOf
      <4>. QED
        BY <1>2, <2>3, <4>1, <4>2, StoppedCalls, StageTells DEF Running
    <3>2. pc'[a].stage \in {pc[a].stage, "done", "failed"}
      BY <1>2, <2>3, <3>1, OpenWhere
         DEF OwnStep, Progress, StartUpgrade, Upgrade, FindAccount, InsertUser, EmailTaken,
             CommitUser, StartSeeder, Registers, Seeding, InsertBadges, Settle, LookForStudent, SeedStudent, CountCourses,
             SeedContent, SeeRoles, DeleteRoles, At, ReplaceRoles, CreateCourse, ImportStudent, LoseCall, SeedFails, Stopped,
             Goto, Step
    <3>. QED
      BY <1>2, <3>1, <3>2
  <2>. QED
    BY <2>1, <2>2, <2>3
<1>. QED
  BY <1>1, <1>2 DEF Asked, OthersStay, Calls, Active

LEMMA GivenStays ==
    ASSUME Given, UsersStay, DoneStay, DOMAIN pc' = Active
    PROVE  Given'
<1>1. Active' = Active /\ Calls' = Calls /\ Running' = Running /\ Users' = Users
  BY DEF Active, Calls, Running, Users, UsersStay
<1>2. \A row \in db'.data["user_roles"] : Origin(row)'
  BY <1>1 DEF Given, UsersStay, DoneStay, Origin
<1>3. ASSUME NEW email \in Users
      PROVE  (Replaced(email) \/ AsMade(email))'
  <2>1. Replaced(email) => Replaced(email)'
    BY <1>1 DEF Replaced, DoneStay
  <2>2. AsMade(email) => AsMade(email)'
    BY <1>1 DEF AsMade, RoleRows, InsertedRoles, UsersStay, DoneStay
  <2>. QED
    BY <2>1, <2>2 DEF Given
<1>. QED
  BY <1>1, <1>2, <1>3 DEF Given

\* What a commit of an account does to the roles.
LEMMA CommitUserGives ==
    ASSUME Typed, Levels, Flushed, Given, Asked, NEW a \in Active, CommitUser(a)
    PROVE  LET new == {[user |-> Account(a).email, role |-> r, by |-> a] : r \in Account(a).roles}
           IN  /\ db'.data["user_roles"] = db.data["user_roles"] \cup new
               /\ Users' = Users \cup {Account(a).email} /\ Account(a).email \notin Users
               /\ \A row \in db.data["user_roles"] : row.user \in Users
               /\ \A row \in new : Origin(row)' /\ row.user = Account(a).email /\ row.by = a
               /\ \/ a \in Running /\ new # {}
                  \/ /\ a \in Calls /\ Ask[a].kind = "register" /\ Ask[a].email = Account(a).email
                     /\ pc'[a].stage = "done" /\ new = InsertedRoles(a)
<1>. DEFINE new == {[user |-> Account(a).email, role |-> r, by |-> a] : r \in Account(a).roles}
<1>1. /\ db'.data["user_roles"] = db.data["user_roles"] \cup new
      /\ Users' = Users \cup {Account(a).email}
  BY CommitUserWrites DEF Users
<1>2. /\ Account(a).email \notin Users /\ Registers(a)
      /\ pc[a].stage # "register" => Account(a).roles # {}
  BY CommitsOwn, EmailsReal
<1>3. \A row \in db.data["user_roles"] : row.user \in Users
  BY DEF Given, Origin
<1>4. OthersStay(a) /\ pc'[a].stage = NextStage(a)
  BY OwnSteps, OpenWhere DEF OwnStep, Progress, CommitUser, Goto
<1>5. Running' = Running /\ Calls' = Calls
  BY <1>4 DEF OthersStay, Running, Calls, Active
<1>6. ASSUME NEW r \in Account(a).roles
      PROVE  \/ a \in Running
             \/ a \in Calls /\ pc'[a].stage = "done" /\ Ask[a].kind = "register" /\ r \in SelfAssignable
  <2>1. CASE pc[a].stage # "register"
    BY <1>2, <2>1, StageTells DEF Registers, SeedStages, Running
  <2>2. CASE pc[a].stage = "register"
    BY <1>2, <1>4, <1>6, <2>2, EmailsReal DEF Asked, NextStage
  <2>. QED
    BY <2>1, <2>2
<1>7. \A row \in new : Origin(row)' /\ row.user = Account(a).email /\ row.by = a
  BY <1>1, <1>5, <1>6 DEF Origin
<1>8. \/ a \in Running /\ new # {}
      \/ /\ a \in Calls /\ Ask[a].kind = "register" /\ Ask[a].email = Account(a).email
         /\ pc'[a].stage = "done" /\ new = InsertedRoles(a)
  <2>1. CASE pc[a].stage # "register"
    <3>1. a \in Running
      BY <1>2, <2>1, StageTells DEF Registers, SeedStages, Running
    <3>2. new # {}
      BY <1>2, <2>1
    <3>. QED
      BY <3>1, <3>2
  <2>2. CASE pc[a].stage = "register"
    BY <1>2, <1>4, <2>2, EmailsReal DEF InsertedRoles, NextStage
  <2>. QED
    BY <2>1, <2>2
<1>. HIDE DEF new
<1>9. /\ db'.data["user_roles"] = db.data["user_roles"] \cup new
      /\ Users' = Users \cup {Account(a).email} /\ Account(a).email \notin Users
      /\ \A row \in db.data["user_roles"] : row.user \in Users
      /\ \A row \in new : Origin(row)' /\ row.user = Account(a).email /\ row.by = a
  BY <1>1, <1>2, <1>3, <1>7
<1>. QED
  BY <1>8, <1>9 DEF new

\* What a replacement takes away and gives.
LEMMA ReplaceRolesGives ==
    ASSUME Typed, Levels, Given, Replacements, NEW c \in Active, ReplaceRoles(c), db' # db
    PROVE  /\ c \in Calls /\ Ask[c].kind = "roles" /\ pc'[c].stage = "done" /\ pc[c].stage = "roles"
           /\ Users' = Users /\ Ask[c].email \in Users
           /\ db'.data["user_roles"] = (db.data["user_roles"] \ tx[c].deleted) \cup InsertedRoles(c)
           /\ \A row \in tx[c].deleted : row.user = Ask[c].email
           /\ \A row \in InsertedRoles(c) : row.user = Ask[c].email /\ row.by = c
           /\ tx[c].deleted \subseteq local[c].seen
           /\ db.data["user_roles"] \cap local[c].seen \subseteq tx[c].deleted
<1>1. At(c, "roles", "commit") /\ pc[c].stage = "roles" /\ c \in Calls /\ Ask[c].kind = "roles"
  BY StageTells DEF ReplaceRoles, At
<1>2. Saw(c) /\ Deleting(c)
  BY <1>1 DEF Replacements, Replacing, Past
<1>3. /\ Wrote(db, db', {"user_roles"}) /\ db.revision = 5 /\ pc'[c].stage = "done"
      /\ db'.data["user_roles"] = (db.data["user_roles"] \ tx[c].deleted) \cup InsertedRoles(c)
  BY ReplaceRolesWrites
<1>4. Users' = Users
  <2>1. "users" \in DOMAIN db.data
    BY <1>3 DEF Levels, Level, Shaped, Has, T5, T4, T2
  <2>. QED
    BY <1>3, <2>1 DEF Wrote, Users
<1>. QED
  BY <1>1, <1>2, <1>3, <1>4 DEF Saw, Deleting, InsertedRoles

LEMMA GivenStep ==
    ASSUME Typed, Levels, Flushed, Given, Asked, Replacements, NEW a \in Active, OwnStep(a), db.revision >= 2
    PROVE  Given'
<1>1. OthersStay(a) /\ DoneStay
  BY OwnSteps, OwnDoneStay
<1>2. Active' = Active /\ Calls' = Calls /\ Running' = Running
  BY <1>1 DEF OthersStay, Active, Calls, Running
<1>3. CASE CommitUser(a)
  <2>. DEFINE new == {[user |-> Account(a).email, role |-> r, by |-> a] : r \in Account(a).roles}
  <2>1. /\ db'.data["user_roles"] = db.data["user_roles"] \cup new
        /\ Users' = Users \cup {Account(a).email} /\ Account(a).email \notin Users
        /\ \A row \in db.data["user_roles"] : row.user \in Users
        /\ \A row \in new : Origin(row)' /\ row.user = Account(a).email /\ row.by = a
        /\ \/ a \in Running /\ new # {}
           \/ /\ a \in Calls /\ Ask[a].kind = "register" /\ Ask[a].email = Account(a).email
              /\ pc'[a].stage = "done" /\ new = InsertedRoles(a)
    BY <1>3, CommitUserGives
  <2>. HIDE DEF new
  <2>2. \A row \in db.data["user_roles"] : Origin(row)'
    BY <1>1, <1>2, <2>1 DEF Given, Origin, DoneStay
  <2>3. ASSUME NEW email \in Users
        PROVE  (Replaced(email) \/ AsMade(email))'
    <3>1. RoleRows(email)' = RoleRows(email)
      BY <2>1, <2>3 DEF RoleRows
    <3>2. Replaced(email) => Replaced(email)'
      BY <1>1, <1>2 DEF Replaced, DoneStay
    <3>3. AsMade(email) => AsMade(email)'
      BY <1>1, <1>2, <3>1 DEF AsMade, InsertedRoles, DoneStay
    <3>. QED
      BY <3>2, <3>3 DEF Given
  <2>4. ASSUME NEW email, email = Account(a).email
        PROVE  AsMade(email)'
    <3>1. RoleRows(email)' = new
      BY <2>1, <2>4 DEF RoleRows
    <3>2. InsertedRoles(a)' = InsertedRoles(a)
      BY DEF InsertedRoles
    <3>. QED
      BY <1>2, <2>1, <2>4, <3>1, <3>2 DEF AsMade
  <2>5. \A row \in db'.data["user_roles"] : Origin(row)'
    BY <2>1, <2>2
  <2>6. \A email \in Users' : (Replaced(email) \/ AsMade(email))'
    BY <2>1, <2>3, <2>4
  <2>. QED
    BY <2>5, <2>6 DEF Given
<1>4. CASE ReplaceRoles(a) /\ db' # db
  <2>1. /\ a \in Calls /\ Ask[a].kind = "roles" /\ pc'[a].stage = "done"
        /\ Users' = Users /\ Ask[a].email \in Users
        /\ db'.data["user_roles"] = (db.data["user_roles"] \ tx[a].deleted) \cup InsertedRoles(a)
        /\ \A row \in tx[a].deleted : row.user = Ask[a].email
        /\ \A row \in InsertedRoles(a) : row.user = Ask[a].email /\ row.by = a
    BY <1>4, ReplaceRolesGives
  <2>2. \A row \in db.data["user_roles"] \cup InsertedRoles(a) : Origin(row)'
    BY <1>1, <1>2, <2>1 DEF Given, Origin, DoneStay
  <2>3. ASSUME NEW email \in Users
        PROVE  (Replaced(email) \/ AsMade(email))'
    <3>1. CASE email = Ask[a].email
      BY <1>2, <2>1, <3>1 DEF Replaced
    <3>2. CASE email # Ask[a].email
      <4>1. RoleRows(email)' = RoleRows(email)
        BY <2>1, <3>2 DEF RoleRows
      <4>2. Replaced(email) => Replaced(email)'
        BY <1>1, <1>2 DEF Replaced, DoneStay
      <4>3. AsMade(email) => AsMade(email)'
        BY <1>1, <1>2, <4>1 DEF AsMade, InsertedRoles, DoneStay
      <4>. QED
        BY <4>2, <4>3 DEF Given
    <3>. QED
      BY <3>1, <3>2
  <2>. QED
    BY <2>1, <2>2, <2>3 DEF Given
<1>5. CASE ~CommitUser(a) /\ (ReplaceRoles(a) => db' = db)
  <2>1. UsersStay
    BY <1>5, OwnUsersStay
  <2>. QED
    BY <1>1, <2>1, GivenStays DEF OthersStay
<1>. QED
  BY <1>3, <1>4, <1>5

\* No row a replacement saw is inserted again.
RowsComeNew == \A c \in Calls : Ask[c].kind = "roles" /\ Past(c) =>
                  db'.data["user_roles"] \cap local[c].seen \subseteq db.data["user_roles"]
\* What a finished replacement gave its account, it or a later one gave it.
LastGiverStays ==
    \A email : (\E d \in Calls : /\ Ask[d].kind = "roles" /\ Ask[d].email = email /\ pc[d].stage = "done"
                                 /\ InsertedRoles(d) \subseteq db.data["user_roles"])
       => (\E d \in Calls : /\ Ask[d].kind = "roles" /\ Ask[d].email = email /\ pc'[d].stage = "done"
                            /\ InsertedRoles(d) \subseteq db'.data["user_roles"])

LEMMA RowsAreNew ==
    ASSUME Typed, Levels, Flushed, Given, Asked, Replacements, NEW a \in Active, OwnStep(a), db.revision >= 2
    PROVE  RowsComeNew /\ LastGiverStays /\ Users \subseteq Users'
<1>1. DoneStay
  BY OwnDoneStay
<1>2. CASE CommitUser(a)
  <2>. DEFINE new == {[user |-> Account(a).email, role |-> r, by |-> a] : r \in Account(a).roles}
  <2>1. /\ db'.data["user_roles"] = db.data["user_roles"] \cup new
        /\ Users' = Users \cup {Account(a).email} /\ Account(a).email \notin Users
        /\ \A row \in new : row.user = Account(a).email
    BY <1>2, CommitUserGives
  <2>. HIDE DEF new
  <2>2. \A c \in Calls : Ask[c].kind = "roles" /\ Past(c) => \A row \in local[c].seen : row.user \in Users
    BY DEF Replacements, Replacing, Saw
  <2>. QED
    BY <1>1, <2>1, <2>2 DEF RowsComeNew, LastGiverStays, DoneStay
<1>3. CASE ReplaceRoles(a) /\ db' # db
  <2>1. /\ a \in Calls /\ Ask[a].kind = "roles" /\ pc'[a].stage = "done" /\ pc[a].stage = "roles"
        /\ Users' = Users
        /\ db'.data["user_roles"] = (db.data["user_roles"] \ tx[a].deleted) \cup InsertedRoles(a)
        /\ \A row \in tx[a].deleted : row.user = Ask[a].email
        /\ \A row \in InsertedRoles(a) : row.user = Ask[a].email /\ row.by = a
    BY <1>3, ReplaceRolesGives
  <2>2. RowsComeNew
    <3>1. \A c \in Calls : Ask[c].kind = "roles" /\ Past(c) =>
             \A row \in local[c].seen : row.by = a => pc[a].stage = "done"
      BY <2>1 DEF Replacements, Replacing, Saw
    <3>. QED
      BY <2>1, <3>1 DEF RowsComeNew
  <2>3. ASSUME NEW email, NEW d \in Calls, Ask[d].kind = "roles", Ask[d].email = email, pc[d].stage = "done",
               InsertedRoles(d) \subseteq db.data["user_roles"]
        PROVE  \E e \in Calls : /\ Ask[e].kind = "roles" /\ Ask[e].email = email /\ pc'[e].stage = "done"
                                /\ InsertedRoles(e) \subseteq db'.data["user_roles"]
    <3>1. CASE email = Ask[a].email
      BY <2>1, <3>1
    <3>2. CASE email # Ask[a].email
      <4>1. \A row \in InsertedRoles(d) : row.user = email
        BY <2>3 DEF InsertedRoles
      <4>2. InsertedRoles(d) \subseteq db'.data["user_roles"]
        BY <2>1, <2>3, <3>2, <4>1
      <4>. QED
        BY <1>1, <2>3, <4>2 DEF DoneStay
    <3>. QED
      BY <3>1, <3>2
  <2>4. LastGiverStays
    BY <2>3 DEF LastGiverStays
  <2>. QED
    BY <2>1, <2>2, <2>4
<1>4. CASE ~CommitUser(a) /\ (ReplaceRoles(a) => db' = db)
  <2>1. UsersStay
    BY <1>4, OwnUsersStay
  <2>. QED
    BY <1>1, <2>1 DEF UsersStay, Users, RowsComeNew, LastGiverStays, DoneStay
<1>. QED
  BY <1>2, <1>3, <1>4

\* A call that another actor's step leaves alone.
LEMMA ReplacingStays ==
    ASSUME Typed, RowsComeNew, LastGiverStays, DoneStay, Users \subseteq Users',
           DOMAIN pc' = Active, downgrades' = downgrades,
           NEW c \in Calls, Ask[c].kind = "roles", Replacing(c),
           pc'[c] = pc[c], local'[c] = local[c], tx'[c] = tx[c]
    PROVE  Replacing(c)'
<1>1. Calls' = Calls /\ Past(c)' = Past(c)
  BY DEF Calls, Active, Past, At
<1>2. Past(c) => Saw(c)'
  BY <1>1 DEF Replacing, Saw, DoneStay
<1>3. At(c, "roles", "commit") => Deleting(c)'
  BY DEF Replacing, Deleting, RowsComeNew, Past
<1>4. pc[c].stage = "done" /\ downgrades = 0 => Left(c)'
  <2>. SUFFICES ASSUME pc[c].stage = "done", downgrades = 0
                PROVE  Left(c)'
    OBVIOUS
  <2>1. Left(c) /\ Past(c)
    BY DEF Replacing, Past
  <2>2. db'.data["user_roles"] \cap local[c].seen = {}
    BY <2>1 DEF Left, RowsComeNew
  <2>3. \E d \in Calls : /\ Ask[d].kind = "roles" /\ Ask[d].email = Ask[c].email /\ pc'[d].stage = "done"
                         /\ InsertedRoles(d) \subseteq db'.data["user_roles"]
    BY <2>1 DEF Left, LastGiverStays
  <2>. QED
    BY <1>1, <2>2, <2>3 DEF Left, InsertedRoles
<1>. QED
  BY <1>1, <1>2, <1>3, <1>4 DEF Replacing, At

LEMMA OwnReplacing ==
    ASSUME Typed, Levels, Flushed, Given, Asked, Replacements, NEW a \in Calls, Ask[a].kind = "roles", OwnStep(a),
           db.revision >= 2
    PROVE  Replacing(a)'
<1>1. OthersStay(a) /\ DoneStay /\ a \in Active
  BY OwnSteps, OwnDoneStay DEF Calls
<1>2. RowsComeNew /\ LastGiverStays /\ Users \subseteq Users'
  BY <1>1, RowsAreNew
<1>3. Calls' = Calls /\ a \notin Running /\ a \notin Backends /\ a \notin Seeders
  BY <1>1, ActorsAre DEF OthersStay, Calls, Active, Running, Typed
<1>4. CASE SeeRoles(a) /\ Ask[a].email \in Users
  <2>1. /\ pc'[a] = [stage |-> "roles", step |-> "delete"] /\ local'[a].seen = RoleRows(Ask[a].email)
        /\ db' = db
    BY <1>1, <1>4, OpenWhere DEF SeeRoles, Step, At
  <2>2. ASSUME NEW row \in RoleRows(Ask[a].email), row.by \in Calls, Ask[row.by].kind = "roles"
        PROVE  pc'[row.by].stage = "done"
    <3>1. row.by \notin Running
      BY <2>2, ActorsAre DEF Calls, Running, Typed
    <3>. QED
      BY <1>1, <2>2, <3>1 DEF Given, Origin, RoleRows, DoneStay
  <2>3. Saw(a)'
    BY <1>2, <1>3, <1>4, <2>1, <2>2 DEF Saw, RoleRows
  <2>. QED
    BY <2>1, <2>3 DEF Replacing, At
<1>5. CASE DeleteRoles(a)
  <2>1. /\ pc'[a] = [stage |-> "roles", step |-> "commit"] /\ local'[a] = local[a] /\ db' = db
        /\ tx'[a].deleted = Deletes(a)
    <3>1. tx'[a] = [tx[a] EXCEPT !.deleted = Deletes(a)] /\ tx[a] = NoWrites
      BY <1>1, <1>5, OpenWhere DEF DeleteRoles, Registers, At
    <3>. QED
      BY <1>1, <1>5, <3>1, OpenWhere DEF DeleteRoles, Step, At, NoWrites
  <2>2. Saw(a)
    BY <1>5 DEF DeleteRoles, Replacements, Replacing, Past
  <2>3. Saw(a)'
    BY <1>1, <1>2, <1>3, <2>1, <2>2 DEF Saw, DoneStay
  <2>4. Deleting(a)'
    BY <2>1 DEF Deleting, Deletes
  <2>. QED
    BY <2>1, <2>3, <2>4 DEF Replacing
<1>6. CASE ReplaceRoles(a) /\ pc'[a].stage = "done"
  <2>1. At(a, "roles", "commit") /\ local'[a] = local[a] /\ pc[a].stage = "roles"
    BY <1>1, <1>6 DEF ReplaceRoles, At
  <2>2. Saw(a) /\ Deleting(a)
    BY <2>1 DEF Replacements, Replacing, Past
  <2>3. db'.data["user_roles"] = (db.data["user_roles"] \ tx[a].deleted) \cup InsertedRoles(a)
    <3>1. CASE db' # db
      BY <1>1, <1>6, <3>1, ReplaceRolesGives
    <3>2. CASE db' = db
      <4>1. db' = [db EXCEPT !.data["user_roles"] = (db.data["user_roles"] \ tx[a].deleted) \cup InsertedRoles(a)]
        BY <1>1, <1>6, OpenWhere DEF ReplaceRoles, Goto
      <4>2. db.revision = 5 /\ DOMAIN db = Fields /\ DOMAIN db.data = T5
        BY <1>1, <1>3, <2>1, AtLast DEF Stopped
      <4>. QED
        BY <4>1, <4>2 DEF Fields, T5, T4, T2
    <3>. QED
      BY <3>1, <3>2
  <2>4. \A row \in InsertedRoles(a) : row.by = a /\ row.user = Ask[a].email
    BY DEF InsertedRoles
  <2>5. db'.data["user_roles"] \cap local[a].seen = {}
    BY <1>6, <2>1, <2>2, <2>3, <2>4 DEF Saw, Deleting
  <2>6. Saw(a)'
    BY <1>1, <1>2, <1>3, <2>1, <2>2 DEF Saw, DoneStay
  <2>7. InsertedRoles(a)' = InsertedRoles(a)
    BY DEF InsertedRoles
  <2>8. Left(a)'
    BY <1>3, <1>6, <2>1, <2>3, <2>5, <2>7 DEF Left
  <2>. QED
    BY <1>6, <2>6, <2>8 DEF Replacing, At
<1>7. CASE ~DeleteRoles(a) /\ ~(SeeRoles(a) /\ Ask[a].email \in Users) /\ ~(ReplaceRoles(a) /\ pc'[a].stage = "done")
  <2>1. pc[a].stage \in {"ready", "done", "failed", "roles"}
    BY <1>1, <1>3, OpenWhere DEF StagesOf
  <2>2. pc'[a] = [stage |-> "failed", step |-> "look"] \/ pc'[a] = [stage |-> "roles", step |-> "insert"]
    BY <1>1, <1>3, <1>7, <2>1, OpenWhere
       DEF OwnStep, Progress, StartUpgrade, Upgrade, FindAccount, InsertUser, EmailTaken,
           CommitUser, StartSeeder, Registers, Seeding, InsertBadges, Settle, LookForStudent, SeedStudent, CountCourses,
           SeedContent, SeeRoles, DeleteRoles, At, ReplaceRoles, CreateCourse, ImportStudent, Arrive, LoseCall, SeedFails,
           Goto
  <2>. QED
    BY <2>2 DEF Replacing, Past, At
<1>. QED
  BY <1>4, <1>5, <1>6, <1>7

LEMMA ReplacementsStep ==
    ASSUME Typed, Levels, Flushed, Given, Asked, Replacements, NEW a \in Active, OwnStep(a), db.revision >= 2
    PROVE  Replacements'
<1>1. OthersStay(a) /\ DoneStay /\ RowsComeNew /\ LastGiverStays /\ Users \subseteq Users'
  BY OwnSteps, OwnDoneStay, RowsAreNew
<1>2. Calls' = Calls
  BY <1>1 DEF OthersStay, Calls, Active
<1>3. ASSUME NEW c \in Calls, Ask[c].kind = "roles"
      PROVE  Replacing(c)'
  <2>1. CASE c = a
    BY <1>3, <2>1, OwnReplacing
  <2>2. CASE c # a
    <3>1. /\ pc'[c] = pc[c] /\ local'[c] = local[c] /\ tx'[c] = tx[c] /\ Replacing(c)
          /\ DOMAIN pc' = Active /\ downgrades' = downgrades
      BY <1>1, <1>3, <2>2 DEF OthersStay, Replacements, Calls
    <3>. QED
      BY <1>1, <1>3, <3>1, ReplacingStays
  <2>. QED
    BY <2>1, <2>2
<1>. QED
  BY <1>2, <1>3 DEF Replacements

\* What a step does that writes no account: a crash, a downgrade, nothing.
LEMMA QuietAccounts ==
    ASSUME Typed, Flushed, Asked, Given, Replacements, UsersStay, DOMAIN pc' = Active,
           \A a \in Active : \/ tx'[a] = NoWrites /\ pc'[a].stage \in {"down", "failed"}
                             \/ tx'[a] = tx[a] /\ pc'[a] = pc[a],
           local' = local, DoneStay,
           downgrades' = downgrades \/ (downgrades' # 0 /\ \A a \in Active : pc[a].stage # "roles")
    PROVE  (Flushed /\ Asked /\ Given /\ Replacements)'
<1>1. Active' = Active /\ Calls' = Calls /\ Users' = Users
  BY DEF Active, Calls, Users, UsersStay
<1>2. Flushed'
  BY <1>1 DEF Flushed, NoWrites
<1>3. Asked'
  BY <1>1 DEF Asked, Calls
<1>4. Given'
  BY GivenStays
<1>5. ASSUME NEW c \in Calls, Ask[c].kind = "roles"
      PROVE  Replacing(c)'
  <2>1. c \in Active /\ Replacing(c) /\ RowsComeNew /\ LastGiverStays
    BY <1>5 DEF Replacements, Calls, RowsComeNew, LastGiverStays, UsersStay, DoneStay
  <2>2. CASE pc'[c].stage \in {"down", "failed"}
    BY <2>2 DEF Replacing, Past, At
  <2>3. CASE tx'[c] = tx[c] /\ pc'[c] = pc[c] /\ downgrades' = downgrades
    BY <1>1, <1>5, <2>1, <2>3, ReplacingStays
  <2>4. CASE downgrades' # 0 /\ pc[c].stage # "roles" /\ pc'[c] = pc[c]
    BY <2>4 DEF Replacing, Past, At
  <2>. QED
    BY <2>1, <2>2, <2>3, <2>4
<1>. QED
  BY <1>1, <1>2, <1>3, <1>4, <1>5 DEF Replacements

LEMMA AccountsStep ==
    ASSUME Typed, Levels, Accounts, [Next]_vars
    PROVE  Accounts'
<1>. SUFFICES ASSUME db'.revision >= 2
              PROVE  (Flushed /\ Asked /\ Given /\ Replacements)'
  BY DEF Accounts
<1>1. ASSUME NEW a \in Active, OwnStep(a), db.revision >= 2
      PROVE  (Flushed /\ Asked /\ Given /\ Replacements)'
  BY <1>1, FlushedStep, AskedStep, GivenStep, ReplacementsStep DEF Accounts
<1>2. ASSUME NEW a \in Active, OwnStep(a), ~(db.revision >= 2)
      PROVE  (Flushed /\ Asked /\ Given /\ Replacements)'
  <2>1. Upgrade(a)
    BY <1>2, OwnLevel DEF Levels
  <2>2. /\ downgrades' = downgrades /\ tx' = tx /\ DOMAIN pc' = Active
        /\ \A t \in T5 \ T1 : db'.data[t] = {}
        /\ \A b \in Active : /\ tx[b] = NoWrites
                             /\ b \in Backends => pc'[b].stage \in {"down", "migrate", "admin"}
                             /\ b \notin Backends => pc'[b] = pc[b] /\ Stopped(b) /\ (downgrades = 0 => pc[b].stage = "ready")
    BY <1>2, <2>1, UpgradeBegins, OwnSteps DEF OthersStay
  <2>3. db'.data["users"] = {} /\ db'.data["user_roles"] = {}
    BY <2>2 DEF T5, T4, T2, T1
  <2>4. Flushed'
    BY <2>2, <2>3 DEF Flushed, NoWrites, Active, Users
  <2>5. Given'
    BY <2>3 DEF Given, Users
  <2>6. \A c \in Calls : c \in Active /\ c \notin Backends
    BY ActorsAre DEF Calls, Typed
  <2>7. Asked'
    BY <2>2, <2>6 DEF Asked, Calls, Active, Stopped
  <2>8. ASSUME NEW c \in Calls
        PROVE  Replacing(c)'
    BY <2>2, <2>6 DEF Replacing, Past, At, Stopped
  <2>9. Replacements'
    BY <2>2, <2>8 DEF Replacements, Calls, Active
  <2>. QED
    BY <2>4, <2>5, <2>7, <2>9
<1>3. ASSUME NEW b \in Active, Crash(b)
      PROVE  (Flushed /\ Asked /\ Given /\ Replacements)'
  <2>1. /\ db' = db /\ local' = local /\ downgrades' = downgrades /\ DOMAIN pc' = Active
        /\ \A a \in Active : \/ tx'[a] = NoWrites /\ pc'[a].stage \in {"down", "failed"} /\ a \in EndWith(b)
                             \/ tx'[a] = tx[a] /\ pc'[a] = pc[a]
    BY <1>3 DEF Crash, AfterTheEnd
  <2>2. DoneStay
    <3>1. \A c \in Calls : pc[c].stage = "done" => c \notin EndWith(b)
      BY <1>3, ActorsAre DEF EndWith, Stopped, Crash, Calls, Typed
    <3>. QED
      BY <2>1, <3>1 DEF DoneStay, Calls
  <2>3. UsersStay /\ db.revision >= 2
    BY <2>1 DEF UsersStay
  <2>. QED
    BY <2>1, <2>2, <2>3, QuietAccounts DEF Accounts
<1>4. ASSUME NEW to \in 0..(LastRevision - 1), Downgrade(to)
      PROVE  (Flushed /\ Asked /\ Given /\ Replacements)'
  <2>1. UsersStay /\ db.revision >= 2
    <3>1. Downgrades(db, db', to) /\ to \in 0..4 /\ to < db.revision /\ db.revision \in 0..5
      BY <1>4, DowngradeMakes DEF Levels
    <3>2. db'.revision = to
      BY <3>1 DEF Downgrades
    <3>3. UsersStay
      BY <1>4, DowngradeUsersStay
    <3>. QED
      BY <3>1, <3>2, <3>3
  <2>2. /\ local' = local /\ pc' = pc /\ tx' = tx /\ downgrades' # 0 /\ DOMAIN pc' = Active
        /\ \A a \in Active : pc[a].stage # "roles"
    BY <1>4 DEF Downgrade, Stopped, Typed, Active
  <2>3. DoneStay
    BY <2>2 DEF DoneStay
  <2>. QED
    BY <2>1, <2>2, <2>3, QuietAccounts DEF Accounts
<1>5. CASE UNCHANGED vars
  <2>1. local' = local /\ pc' = pc /\ tx' = tx /\ db' = db /\ downgrades' = downgrades /\ DOMAIN pc' = Active
    BY <1>5 DEF vars, Active
  <2>2. UsersStay /\ DoneStay /\ db.revision >= 2
    BY <2>1 DEF UsersStay, DoneStay
  <2>. QED
    BY <2>1, <2>2, QuietAccounts DEF Accounts
<1>. QED
  BY <1>1, <1>2, <1>3, <1>4, <1>5 DEF Next, OwnStep

LEMMA AccountsInit == Init => Accounts
  BY EmptyLevel, LegacyLevel DEF Init, Accounts

\* At once with what the database is, since accounts are where a revision has them.
SoundAccounts == Sound /\ Accounts

LEMMA SoundAccountsAlways == Spec => []SoundAccounts
<1>1. Init => SoundAccounts
  BY TypedInit, LevelsInit, AccountsInit DEF SoundAccounts, Sound
<1>2. SoundAccounts /\ [Next]_vars => SoundAccounts'
  BY TypedStep, LevelsStep, AccountsStep DEF SoundAccounts, Sound
<1>. QED
  BY <1>1, <1>2, PTL DEF Spec

\* Two role changes of one account never leave a role that either saw, the roles
\* of one of them are there, an account nobody changed is as it was made, and
\* nobody gets a staff role by registering (set_user_roles, register).
THEOREM RoleChangesReplace == Spec => []RolesReplaced
<1>1. SoundAccounts => RolesReplaced
  <2>. SUFFICES ASSUME Typed, Levels, Accounts
                PROVE  RolesReplaced
    BY DEF SoundAccounts, Sound
  <2>1. "users" \in db.tables => db.revision >= 2
    BY DEF Levels, Level, Shaped, Has, None, T1
  <2>2. ASSUME "users" \in db.tables, NEW row \in db.data["user_roles"]
        PROVE  row.role \in SelfAssignable \/ row.by \in Running \/ Ask[row.by].kind = "roles"
    BY <2>1, <2>2 DEF Accounts, Given, Origin
  <2>3. ASSUME "users" \in db.tables, NEW email \in Users
        PROVE  Replaced(email) \/ AsMade(email)
    BY <2>1, <2>3 DEF Accounts, Given
  <2>4. ASSUME NEW c \in Calls, Ask[c].kind = "roles", pc[c].stage = "done", downgrades = 0
        PROVE  /\ RoleRows(Ask[c].email) \cap local[c].seen = {}
               /\ \E d \in Calls : /\ Ask[d].kind = "roles" /\ Ask[d].email = Ask[c].email /\ pc[d].stage = "done"
                                   /\ InsertedRoles(d) \subseteq RoleRows(Ask[c].email)
    <3>1. c \in Active \ Backends
      BY ActorsAre DEF Calls, Typed
    <3>2. db.revision = 5
      BY <2>4, <3>1 DEF Levels
    <3>3. Left(c)
      BY <2>4, <3>2 DEF Accounts, Replacements, Replacing
    <3>4. \A d \in Calls : \A row \in InsertedRoles(d) : row.user = Ask[d].email
      BY DEF InsertedRoles
    <3>. QED
      BY <3>3, <3>4 DEF Left, RoleRows
  <2>. QED
    BY <2>2, <2>3, <2>4 DEF RolesReplaced
<1>. QED
  BY <1>1, SoundAccountsAlways, PTL

----------------------------------------------------------------------------
(* The accounts of a start *)

LEMMA HasRoleStays ==
    ASSUME NEW email, NEW role, HasRole(email, role), DoneStay, DOMAIN pc' = Active, Users \subseteq Users',
           RoleRows(email) \subseteq RoleRows(email)'
    PROVE  HasRole(email, role)'
<1>1. Calls' = Calls
  BY DEF Calls, Active
<1>2. email \in Users'
  BY DEF HasRole
<1>3. Replaced(email) => Replaced(email)'
  BY <1>1 DEF Replaced, DoneStay
<1>4. (\E row \in RoleRows(email) : row.role = role) => (\E row \in RoleRows(email) : row.role = role)'
  OBVIOUS
<1>. QED
  BY <1>2, <1>3, <1>4 DEF HasRole

LEMMA RegisteredStays ==
    ASSUME NEW email, Registered(email), DoneStay, DOMAIN pc' = Active
    PROVE  Registered(email)'
<1>1. Calls' = Calls
  BY DEF Calls, Active
<1>. QED
  BY <1>1 DEF Registered, DoneStay

Expected(email, role) ==
    (email = AdminEmail /\ role = "admin") \/ (role \in DOMAIN DemoEmail /\ email = DemoEmail[role])
Fits(email, role) == HasRole(email, role) \/ (email # AdminEmail /\ Registered(email))

LEMMA RolesFit ==
    /\ RolesKnown <=> \A email, role : Expected(email, role) /\ email \in Users => Fits(email, role)
    /\ RolesKnown' <=> (\A email, role : Expected(email, role) /\ email \in Users => Fits(email, role))'
<1>1. \A role \in DOMAIN DemoEmail : DemoEmail[role] # AdminEmail
  BY AdminAssumption DEF DemoEmail
<1>. QED
  BY <1>1 DEF RolesKnown, Expected, Fits

LEMMA FitsStays ==
    ASSUME NEW email, NEW role, Fits(email, role), DoneStay, DOMAIN pc' = Active, Users \subseteq Users',
           RoleRows(email) \subseteq RoleRows(email)'
    PROVE  Fits(email, role)'
  BY HasRoleStays, RegisteredStays DEF Fits

LEMMA RolesKnownStep ==
    ASSUME Typed, Levels, Flushed, Asked, Given, Replacements, RolesKnown, AdminFirst, NEW a \in Active,
           OwnStep(a), db.revision >= 2
    PROVE  RolesKnown'
<1>1. OthersStay(a) /\ DoneStay /\ Users \subseteq Users'
  BY OwnSteps, OwnDoneStay, RowsAreNew
<1>2. DOMAIN pc' = Active /\ Calls' = Calls
  BY <1>1 DEF OthersStay, Calls, Active
<1>3. ASSUME NEW email, NEW role, Expected(email, role), email \in Users'
      PROVE  Fits(email, role)'
  <2>1. email \in Users => Fits(email, role)
    BY <1>3, RolesFit
  <2>2. CASE CommitUser(a)
    <3>. DEFINE new == {[user |-> Account(a).email, role |-> r, by |-> a] : r \in Account(a).roles}
    <3>1. /\ db'.data["user_roles"] = db.data["user_roles"] \cup new
          /\ Users' = Users \cup {Account(a).email}
          /\ Registers(a)
      BY <2>2, CommitUserGives, CommitsOwn
    <3>2. CASE email = Account(a).email /\ pc[a].stage # "register"
      <4>1. role \in Account(a).roles
        <5>1. DOMAIN DemoEmail = {"teacher", "child", "parent"}
              /\ DemoEmail["teacher"] = "teacher@demo" /\ DemoEmail["child"] = "child@demo" /\ DemoEmail["parent"] = "parent@demo"
          BY DEF DemoEmail
        <5>2. pc[a].stage \in {"admin", "teacher", "child", "parent"}
          BY <3>1, <3>2 DEF Registers
        <5>3. /\ pc[a].stage = "admin" => email = AdminEmail /\ Account(a).roles = {"admin"}
              /\ \A s \in {"teacher", "child", "parent"} :
                    pc[a].stage = s => email = DemoEmail[s] /\ Account(a).roles = {s}
          BY <3>1, <3>2, EmailsReal
        <5>. QED
          BY <1>3, <5>1, <5>2, <5>3, AdminAssumption DEF Expected
      <4>2. [user |-> email, role |-> role, by |-> a] \in new
        BY <3>2, <4>1
      <4>. HIDE DEF new
      <4>3. [user |-> email, role |-> role, by |-> a] \in RoleRows(email)'
        BY <3>1, <4>2 DEF RoleRows
      <4>. QED
        BY <1>3, <4>3 DEF HasRole, Fits
    <3>3. CASE email = Account(a).email /\ pc[a].stage = "register"
      <4>1. a \in Calls /\ Ask[a].kind = "register" /\ Ask[a].email = email
        BY <3>1, <3>3, EmailsReal
      <4>2. pc'[a].stage = "done"
        BY <2>2, <3>3, OpenWhere DEF CommitUser, Goto, NextStage
      <4>3. Registered(email)'
        BY <1>2, <4>1, <4>2 DEF Registered
      <4>4. email # AdminEmail
        <5>1. AdminEmail \in Users
          BY <3>3, <4>1 DEF AdminFirst
        <5>2. ActorTyped(a) /\ pc[a].step = "commit" /\ Registers(a)
          BY <2>2 DEF CommitUser, Typed
        <5>3. tx[a].user = email /\ tx[a].user # "none"
          BY <3>3, <5>2, EmailsReal DEF ActorTyped
        <5>. QED
          BY <5>1, <5>3 DEF Flushed
      <4>. QED
        BY <4>3, <4>4 DEF Fits
    <3>4. CASE email # Account(a).email
      <4>1. RoleRows(email) \subseteq RoleRows(email)'
        BY <3>1 DEF RoleRows
      <4>. QED
        BY <1>1, <1>2, <1>3, <2>1, <3>1, <3>4, <4>1, FitsStays
    <3>. QED
      BY <3>2, <3>3, <3>4
  <2>3. CASE ReplaceRoles(a) /\ db' # db
    <3>1. /\ a \in Calls /\ Ask[a].kind = "roles" /\ pc'[a].stage = "done"
          /\ Users' = Users
          /\ db'.data["user_roles"] = (db.data["user_roles"] \ tx[a].deleted) \cup InsertedRoles(a)
          /\ \A row \in tx[a].deleted : row.user = Ask[a].email
      BY <2>3, ReplaceRolesGives
    <3>2. CASE email = Ask[a].email
      <4>1. Replaced(email)'
        BY <1>2, <3>1, <3>2 DEF Replaced
      <4>. QED
        BY <1>3, <4>1 DEF HasRole, Fits
    <3>3. CASE email # Ask[a].email
      <4>1. RoleRows(email) \subseteq RoleRows(email)'
        BY <3>1, <3>3 DEF RoleRows
      <4>. QED
        BY <1>1, <1>2, <1>3, <2>1, <3>1, <4>1, FitsStays
    <3>. QED
      BY <3>2, <3>3
  <2>4. CASE ~CommitUser(a) /\ (ReplaceRoles(a) => db' = db)
    <3>1. UsersStay
      BY <2>4, OwnUsersStay
    <3>2. RoleRows(email) \subseteq RoleRows(email)' /\ email \in Users
      BY <1>3, <3>1 DEF RoleRows, UsersStay, Users
    <3>. QED
      BY <1>1, <1>2, <2>1, <3>2, FitsStays
  <2>. QED
    BY <2>2, <2>3, <2>4
<1>4. (\A email, role : Expected(email, role) /\ email \in Users => Fits(email, role))'
  BY <1>3 DEF Expected
<1>. QED
  BY <1>4, RolesFit

\* Registrations come to a backend that serves, and so has its admin.
LEMMA AdminFirstStep ==
    ASSUME Typed, AdminFirst, \A b \in Running : KnownBy(b), NEW a \in Active, OwnStep(a), Users \subseteq Users'
    PROVE  AdminFirst'
<1>1. OthersStay(a) /\ Calls' = Calls /\ DOMAIN pc = Active
  BY OwnSteps DEF OthersStay, Calls, Active
<1>2. Serving => AdminEmail \in Users
  BY DEF Serving, KnownBy, Running
<1>3. ASSUME NEW c \in Calls, pc'[c].stage = "register"
      PROVE  AdminEmail \in Users
  <2>1. CASE c # a
    BY <1>1, <1>3, <2>1 DEF OthersStay, AdminFirst, Calls
  <2>2. CASE c = a /\ Arrive(a)
    BY <1>2, <2>2 DEF Arrive
  <2>3. CASE c = a /\ ~Arrive(a)
    <3>1. a \in Calls /\ a \notin Running /\ a \notin Backends /\ a \notin Seeders
      BY <2>3, ActorsAre DEF Calls, Running, Typed
    <3>2. InsertUser(a)
      <4>1. pc'[a].stage = "register" /\ a \in Active
        BY <1>3, <2>3
      <4>2. ~CommitUser(a) /\ ~EmailTaken(a) /\ ~LoseCall(a)
        BY <1>1, <3>1, <4>1, StageTells DEF CommitUser, EmailTaken, LoseCall, Goto, NextStage, Registers
      <4>3. ~SeeRoles(a) /\ ~DeleteRoles(a) /\ ~ReplaceRoles(a) /\ ~CreateCourse(a) /\ ~ImportStudent(a)
        BY <1>1, <4>1 DEF SeeRoles, DeleteRoles, At, ReplaceRoles, CreateCourse, ImportStudent, Goto, Step
      <4>4. pc[a].stage \notin {"down", "migrate", "admin"} \cup SeedStages
        BY <3>1, StageTells
      <4>. QED
        BY <2>3, <3>1, <4>2, <4>3, <4>4
           DEF OwnStep, Progress, StartUpgrade, Upgrade, FindAccount, StartSeeder, Seeding, InsertBadges, Settle,
               LookForStudent, SeedStudent, CountCourses, SeedContent, At, SeedFails, SeedStages
    <3>3. pc[a].stage = "register"
      BY <1>1, <1>3, <2>3, <3>2 DEF InsertUser, Step
    <3>. QED
      BY <3>1, <3>3 DEF AdminFirst
  <2>. QED
    BY <2>1, <2>2, <2>3
<1>. QED
  BY <1>1, <1>3 DEF AdminFirst

LEMMA KnownByStays ==
    ASSUME NEW b \in Active, KnownBy(b), Users \subseteq Users', pc'[b] = pc[b], downgrades' = downgrades
    PROVE  KnownBy(b)'
  BY DEF KnownBy

LEMMA OwnKnown ==
    ASSUME Typed, Levels, NEW a \in Running, KnownBy(a), OwnStep(a), Users \subseteq Users', db.revision >= 2
    PROVE  KnownBy(a)'
<1>1. /\ OthersStay(a) /\ downgrades' = downgrades /\ a \in Active
      /\ pc[a] \in [stage : Stages, step : Steps] /\ DOMAIN pc = Active
      /\ a \notin Calls
  BY OwnSteps, OpenWhere, ActorsAre DEF OthersStay, Running, Calls, Typed
<1>2. a \notin Backends => a \in Seeders
  BY DEF Running
<1>3. CASE FindAccount(a)
  <2>1. CASE Account(a).email \in Users
    <3>1. pc'[a].stage = NextStage(a)
      BY <1>1, <1>3, <2>1 DEF FindAccount, Goto
    <3>2. /\ pc[a].stage = "admin" => AdminEmail \in Users'
          /\ \A s \in {"teacher", "child", "parent"} : pc[a].stage = s => DemoEmail[s] \in Users'
      BY <2>1 DEF Account
    <3>. QED
      BY <1>1, <1>3, <3>1, <3>2, StageTells DEF FindAccount, KnownBy, NextStage, Running
  <2>2. CASE Account(a).email \notin Users
    BY <1>1, <1>3, <2>2 DEF FindAccount, Step, KnownBy
  <2>. QED
    BY <2>1, <2>2
<1>4. CASE CommitUser(a)
  <2>1. pc'[a].stage = NextStage(a) /\ Account(a).email \in Users'
    BY <1>1, <1>4, CommitUserWrites DEF CommitUser, Goto, Users
  <2>2. /\ pc[a].stage = "admin" => AdminEmail \in Users'
        /\ \A s \in {"teacher", "child", "parent"} : pc[a].stage = s => DemoEmail[s] \in Users'
    BY <2>1 DEF Account
  <2>3. pc[a].stage # "register"
    BY <1>1, StageTells
  <2>. QED
    BY <1>1, <1>4, <2>1, <2>2, <2>3 DEF CommitUser, Registers, KnownBy, NextStage
<1>5. CASE EmailTaken(a) \/ SeedFails(a)
  BY <1>1, <1>2, <1>5 DEF EmailTaken, SeedFails, Seeding, Goto, AfterTheEnd, KnownBy, Registers
<1>6. CASE StartUpgrade(a) \/ Upgrade(a)
  BY <1>1, <1>6 DEF StartUpgrade, Upgrade, Goto, AfterTheEnd, KnownBy
<1>7. CASE InsertUser(a) \/ LookForStudent(a) \/ SeedStudent(a)
  BY <1>1, <1>7 DEF InsertUser, LookForStudent, SeedStudent, At, Goto, Step, KnownBy
<1>8. CASE StartSeeder(a) \/ InsertBadges(a) \/ Settle(a)
  BY <1>1, <1>8, ActorsAre DEF StartSeeder, InsertBadges, Settle, Goto, KnownBy, Typed
<1>9. CASE CountCourses(a) \/ SeedContent(a)
  BY <1>1, <1>9 DEF CountCourses, SeedContent, At, Goto, Step, EndOfSeed, KnownBy
<1>10. CASE SeeRoles(a) \/ DeleteRoles(a) \/ ReplaceRoles(a) \/ CreateCourse(a) \/ ImportStudent(a)
  BY <1>1, <1>10, StageTells DEF SeeRoles, DeleteRoles, ReplaceRoles, CreateCourse, ImportStudent, At
<1>11. CASE Arrive(a) \/ LoseCall(a)
  BY <1>1, <1>11 DEF Arrive, LoseCall
<1>. QED
  BY <1>3, <1>4, <1>5, <1>6, <1>7, <1>8, <1>9, <1>10, <1>11 DEF OwnStep, Progress

LEMMA KnownStep ==
    ASSUME Typed, Levels, Flushed, Asked, Given, Replacements, Known, NEW a \in Active, OwnStep(a),
           db.revision >= 2
    PROVE  Known'
<1>1. OthersStay(a) /\ Users \subseteq Users' /\ RolesKnown' /\ AdminFirst'
  BY OwnSteps, RowsAreNew, RolesKnownStep, AdminFirstStep DEF Known
<1>2. ASSUME NEW b \in Running
      PROVE  KnownBy(b)'
  <2>1. b \in Active /\ KnownBy(b) /\ downgrades' = downgrades
    BY <1>1 DEF Known, Running, OthersStay
  <2>2. CASE b = a
    BY <1>1, <1>2, <2>1, <2>2, OwnKnown
  <2>3. CASE b # a
    BY <1>1, <2>1, <2>3, KnownByStays DEF OthersStay
  <2>. QED
    BY <2>2, <2>3
<1>3. Running' = Running
  BY <1>1 DEF OthersStay, Running, Active
<1>. QED
  BY <1>1, <1>2, <1>3 DEF Known

----------------------------------------------------------------------------
(* What seeds write *)

SeedTables == {"students", "student_guardian", "courses", "groups", "enrollments", "badges", "modules",
               "schedule_slots", "student_stats"}
SameBut(S) == \A t \in SeedTables \ S : db'.data[t] = db.data[t]
NoNewStudent == DemoStudents' = DemoStudents

LEMMA SeedsQuiet ==
    ASSUME Typed, Levels, NEW a \in Active, OwnStep(a), db.revision = 5,
           ~CommitUser(a), ~Settle(a), ~CreateCourse(a), ~ImportStudent(a), ~SeedStudent(a), ~SeedContent(a)
    PROVE  SameBut({})
<1>1. DOMAIN db.data = T5 /\ SeedTables \subseteq T5
  BY DEF Levels, Level, Shaped, Has, SeedTables, T5, T4, T2, T1
<1>2. CASE ReplaceRoles(a) /\ db' # db
  <2>1. Wrote(db, db', {"user_roles"})
    BY <1>2, ReplaceRolesWrites
  <2>. QED
    BY <1>1, <2>1 DEF Wrote, SameBut, SeedTables
<1>3. CASE Upgrade(a) /\ db' # db
  <2>1. Upgrades(db, db', 5)
    BY <1>3, UpgradeMakes
  <2>2. RowsGrow(db, db')
    BY <2>1 DEF Upgrades
  <2>. QED
    BY <1>1, <2>2 DEF RowsGrow, SameRows, SameBut
<1>4. CASE db' = db
  BY <1>4 DEF SameBut
<1>. QED
  BY <1>2, <1>3, <1>4
     DEF OwnStep, Progress, StartUpgrade, FindAccount, InsertUser, EmailTaken, StartSeeder, InsertBadges, LookForStudent,
         CountCourses, SeeRoles, DeleteRoles, Arrive, LoseCall, SeedFails

LEMMA WroteSeeds ==
    ASSUME Typed, Levels, db.revision = 5, NEW S, Wrote(db, db', S)
    PROVE  SameBut(S)
<1>1. DOMAIN db.data = T5 /\ SeedTables \subseteq T5
  BY DEF Levels, Level, Shaped, Has, SeedTables, T5, T4, T2, T1
<1>. QED
  BY <1>1 DEF Wrote, SameBut

LEMMA StudentsSame ==
    ASSUME NEW S, SameBut(S), "students" \notin S
    PROVE  NoNewStudent
  BY DEF SameBut, SeedTables, NoNewStudent, DemoStudents

LEMMA OthersUnknown ==
    ASSUME NEW id
    PROVE  /\ Pii(id, "none").user # DemoEmail.child
           /\ Pii(id, DemoEmail.child).user = DemoEmail.child /\ Pii(id, DemoEmail.child).id = id
  BY DEF Pii, DemoEmail

LEMMA WholeStep ==
    ASSUME Typed, Levels, Seeds, NEW a \in Active, OwnStep(a), db.revision = 5, db'.revision = 5
    PROVE  /\ Whole'
           /\ db.data["badges"] \subseteq db'.data["badges"] /\ db.data["courses"] \subseteq db'.data["courses"]
           /\ DemoStudents \subseteq DemoStudents'
<1>1. OthersStay(a) /\ crashes \in Nat /\ Whole
  BY OwnSteps DEF Typed, Seeds
<1>2. Active' = Active /\ Running' = Running /\ downgrades' = downgrades
  BY <1>1 DEF OthersStay, Active, Running
<1>3. CASE ~CommitUser(a) /\ ~Settle(a) /\ ~CreateCourse(a) /\ ~ImportStudent(a) /\ ~SeedStudent(a) /\ ~SeedContent(a)
  <2>1. SameBut({}) /\ NoNewStudent
    BY <1>3, SeedsQuiet, StudentsSame
  <2>. QED
    BY <1>1, <1>2, <2>1 DEF Whole, SameBut, SeedTables, NoNewStudent
<1>4. CASE CommitUser(a) \/ Settle(a)
  <2>1. SameBut({"users", "user_roles", "badges"}) /\ db'.data["badges"] = db.data["badges"] \cup tx[a].badges
    BY <1>4, CommitUserWrites, SettleWrites, WroteSeeds DEF SameBut
  <2>2. NoNewStudent /\ tx[a].badges \subseteq Badges
    BY <2>1, StudentsSame DEF Typed, ActorTyped
  <2>. QED
    BY <1>1, <1>2, <2>1, <2>2 DEF Whole, SameBut, SeedTables, NoNewStudent
<1>5. CASE CreateCourse(a)
  <2>1. SameBut({"courses"}) /\ db'.data["courses"] = db.data["courses"] \cup {a} /\ a \notin Running
    BY <1>5, CreateCourseWrites, WroteSeeds, ActorsAre DEF Calls, Running, Typed
  <2>2. NoNewStudent
    BY <2>1, StudentsSame
  <2>. QED
    BY <1>1, <1>2, <2>1, <2>2 DEF Whole, SameBut, SeedTables, NoNewStudent
<1>6. CASE ImportStudent(a)
  <2>1. SameBut({"students"}) /\ db'.data["students"] = db.data["students"] \cup {Pii(<<a, 1>>, "none")}
    BY <1>6, ImportStudentWrites, WroteSeeds
  <2>2. NoNewStudent
    BY <2>1, OthersUnknown DEF NoNewStudent, DemoStudents
  <2>. QED
    BY <1>1, <1>2, <2>1, <2>2 DEF Whole, SameBut, SeedTables, NoNewStudent
<1>7. CASE SeedStudent(a)
  <2>. DEFINE new == Pii(<<a, crashes>>, DemoEmail.child)
  <2>1. /\ Wrote(db, db', {"students", "guardians", "student_guardian"})
        /\ db'.data["students"] = db.data["students"] \cup {new}
        /\ db'.data["student_guardian"] = db.data["student_guardian"] \cup {<<a, crashes>>}
    BY <1>7, SeedStudentWrites
  <2>2. new.user = DemoEmail.child /\ new.id = <<a, crashes>>
    BY OthersUnknown
  <2>3. \A b \in Active : new.id # Other(b)
    BY <1>1, <2>2 DEF Other
  <2>. HIDE DEF new
  <2>4. SameBut({"students", "guardians", "student_guardian"})
    BY <2>1, WroteSeeds
  <2>5. DemoStudents' = DemoStudents \cup {new}
    BY <2>1, <2>2 DEF DemoStudents
  <2>. QED
    BY <1>1, <1>2, <2>1, <2>2, <2>3, <2>4, <2>5 DEF Whole, SameBut, SeedTables
<1>8. CASE SeedContent(a)
  <2>. DEFINE W == {"courses", "modules", "groups", "schedule_slots", "students", "enrollments", "student_stats"}
  <2>1. /\ Wrote(db, db', W)
        /\ db'.data["courses"] = db.data["courses"] \cup {a} /\ db'.data["modules"] = db.data["modules"] \cup {a}
        /\ db'.data["groups"] = db.data["groups"] \cup {a}
        /\ db'.data["schedule_slots"] = db.data["schedule_slots"] \cup {a}
        /\ db'.data["students"] = db.data["students"] \cup {Pii(Other(a), "none")}
        /\ db'.data["enrollments"] = db.data["enrollments"] \cup {<<a, Other(a)>>} \cup {<<a, s.id>> : s \in DemoStudents}
        /\ db'.data["student_stats"] = db.data["student_stats"] \cup {s.id : s \in DemoStudents}
    BY <1>8, SeedContentWrites
  <2>2. a \in Running /\ pc[a].stage = "content"
    BY <1>8, StageTells DEF SeedContent, At, SeedStages
  <2>3. SameBut(W) /\ DemoStudents' = DemoStudents
    BY <2>1, WroteSeeds, OthersUnknown DEF DemoStudents
  <2>4. PICK s \in DemoStudents : TRUE
    BY <2>2 DEF Seeds, Filled
  <2>5. <<a, s.id>> \in db'.data["enrollments"] /\ s.id # Other(a) /\ s.id \in db'.data["student_stats"]
    BY <1>1, <2>1, <2>4 DEF Whole
  <2>6. \E e \in db'.data["enrollments"] : e[2] # Other(e[1])
    <3>1. <<a, s.id>>[2] # Other(<<a, s.id>>[1])
      BY <2>5
    <3>. QED
      BY <2>5, <3>1
  <2>. QED
    BY <1>1, <1>2, <2>1, <2>2, <2>3, <2>5, <2>6 DEF Whole, SameBut, SeedTables
<1>. QED
  BY <1>3, <1>4, <1>5, <1>6, <1>7, <1>8

\* Where a seed may be when the database is not at the last revision.
LEMMA SeedsWait ==
    ASSUME Typed, Levels, db.revision # 5, NEW a \in Running
    PROVE  /\ pc[a].stage \notin {"teacher", "child", "parent", "settle", "student", "content"}
           /\ pc[a].stage # "done" \/ downgrades # 0
<1>1. a \in Active
  BY DEF Running
<1>2. CASE a \in Backends
  <2>1. pc[a].stage \in {"down", "migrate"}
    BY <1>1, <1>2 DEF Levels
  <2>. QED
    BY <2>1
<1>3. CASE a \notin Backends
  BY <1>1, <1>3 DEF Levels, Stopped
<1>. QED
  BY <1>2, <1>3

LEMMA FilledStays ==
    ASSUME NEW b \in Active, Filled(b), pc'[b] = pc[b], tx'[b] = tx[b], downgrades' = downgrades,
           tx[b].badges \subseteq Badges, db'.data["badges"] \subseteq Badges,
           db.data["badges"] \subseteq db'.data["badges"], db.data["courses"] \subseteq db'.data["courses"],
           DemoStudents \subseteq DemoStudents'
    PROVE  Filled(b)'
  BY DEF Filled

LEMMA OwnFilled ==
    ASSUME Typed, Levels, Seeds, NEW a \in Running, OwnStep(a), db.revision = 5, db'.revision = 5
    PROVE  Filled(a)'
<1>1. /\ a \in Active /\ DOMAIN pc = Active /\ DOMAIN tx = Active /\ Whole' /\ Whole /\ Filled(a)
      /\ pc[a] \in [stage : Stages, step : Steps] /\ ActorTyped(a)
      /\ downgrades' = downgrades
  BY WholeStep, OpenWhere, OwnSteps DEF Running, Seeds, Typed, OthersStay
<1>2. /\ db.data["badges"] \subseteq Badges /\ db'.data["badges"] \subseteq Badges
      /\ db.data["badges"] \subseteq db'.data["badges"] /\ db.data["courses"] \subseteq db'.data["courses"]
      /\ DemoStudents \subseteq DemoStudents'
  BY <1>1, WholeStep DEF Whole
<1>3. CASE FindAccount(a) \/ InsertUser(a)
  <2>1. tx'[a].badges = tx[a].badges
    <3>1. tx'[a] = tx[a] \/ tx'[a] = [tx[a] EXCEPT !.user = Account(a).email]
      BY <1>1, <1>3 DEF FindAccount, InsertUser
    <3>2. tx[a] = [user |-> tx[a].user, badges |-> tx[a].badges, deleted |-> tx[a].deleted]
      BY <1>1 DEF ActorTyped
    <3>. QED
      BY <3>1, <3>2
  <2>2. CASE pc'[a].stage = pc[a].stage
    BY <1>2, <1>3, <2>1, <2>2, <1>1 DEF Filled, ActorTyped, FindAccount, InsertUser, Registers
  <2>3. CASE pc'[a].stage # pc[a].stage
    <3>1. pc'[a].stage = NextStage(a) /\ pc[a].stage \in {"admin", "teacher", "child", "parent"}
      BY <1>1, <1>3, <2>3 DEF FindAccount, InsertUser, Goto, Step
    <3>2. /\ pc[a].stage = "admin" => pc'[a].stage \in {"badges", "serving"}
          /\ pc[a].stage # "admin" => pc'[a].stage \in {"child", "parent", "settle"}
      BY <3>1 DEF NextStage
    <3>. QED
      BY <1>1, <1>2, <2>1, <3>1, <3>2 DEF Filled, ActorTyped
  <2>. QED
    BY <2>2, <2>3
<1>4. CASE CommitUser(a) \/ Settle(a)
  <2>1. db'.data["badges"] = db.data["badges"] \cup tx[a].badges
    BY <1>1, <1>4, CommitUserWrites, SettleWrites
  <2>2. \/ pc'[a].stage = NextStage(a) /\ pc[a].stage \in {"admin", "teacher", "child", "parent"}
        \/ pc'[a].stage = "student" /\ pc[a].stage = "settle"
    <3>1. pc[a].stage # "register"
      BY <1>1, StageTells, ActorsAre DEF Typed, Running, Calls
    <3>. QED
      BY <1>1, <1>4, <3>1 DEF CommitUser, Settle, Registers, Goto
  <2>3. /\ pc[a].stage = "admin" => pc'[a].stage \in {"badges", "serving"}
        /\ pc[a].stage # "admin" => pc'[a].stage \in {"child", "parent", "settle", "student"}
    BY <2>2 DEF NextStage
  <2>4. pc[a].stage # "admin" => db'.data["badges"] = Badges
    BY <1>1, <2>1, <2>2 DEF Filled
  <2>5. tx'[a] = NoWrites
    BY <1>1, <1>4 DEF CommitUser, Settle
  <2>. QED
    BY <2>3, <2>4, <2>5 DEF Filled, NoWrites
<1>5. CASE InsertBadges(a)
  <2>1. /\ pc'[a].stage = "teacher" /\ db' = db
        /\ tx'[a] = [tx[a] EXCEPT !.badges = Badges \ db.data["badges"]]
    BY <1>1, <1>5 DEF InsertBadges, Goto
  <2>2. tx'[a].badges = Badges \ db.data["badges"]
    <3>1. tx[a] = [user |-> tx[a].user, badges |-> tx[a].badges, deleted |-> tx[a].deleted]
      BY <1>1 DEF ActorTyped
    <3>. QED
      BY <2>1, <3>1
  <2>. QED
    BY <1>2, <2>1, <2>2 DEF Filled
<1>6. CASE LookForStudent(a)
  <2>1. /\ db' = db /\ pc[a].stage = "student" /\ DemoStudents' = DemoStudents
        /\ pc'[a].stage = "student" \/ (pc'[a].stage = "content" /\ DemoStudents # {})
    BY <1>1, <1>6 DEF LookForStudent, At, Goto, Step, DemoStudents
  <2>. QED
    BY <1>1, <2>1 DEF Filled
<1>7. CASE SeedStudent(a)
  <2>1. db'.data["students"] = db.data["students"] \cup {Pii(<<a, crashes>>, DemoEmail.child)}
    BY <1>1, <1>7, SeedStudentWrites
  <2>2. pc[a].stage = "student" /\ pc'[a].stage = "content"
    BY <1>1, <1>7 DEF SeedStudent, At, Goto
  <2>3. DemoStudents' # {}
    BY <2>1, OthersUnknown DEF DemoStudents
  <2>. QED
    BY <1>1, <1>2, <2>2, <2>3 DEF Filled
<1>8. CASE CountCourses(a)
  <2>1. /\ db' = db /\ pc[a].stage = "content" /\ DemoStudents' = DemoStudents
        /\ pc'[a].stage = "content" \/ (pc'[a].stage \in {"serving", "done"} /\ db.data["courses"] # {})
    BY <1>1, <1>8 DEF CountCourses, CatalogueEmpty, EndOfSeed, At, Goto, Step, DemoStudents
  <2>. QED
    BY <1>1, <2>1 DEF Filled
<1>9. CASE SeedContent(a)
  <2>1. db'.data["courses"] = db.data["courses"] \cup {a}
    BY <1>1, <1>9, SeedContentWrites
  <2>2. pc[a].stage = "content" /\ pc'[a].stage \in {"serving", "done"}
    BY <1>1, <1>9 DEF SeedContent, At, Goto, EndOfSeed
  <2>. QED
    BY <1>1, <1>2, <2>1, <2>2 DEF Filled
<1>10. CASE \/ StartUpgrade(a) \/ Upgrade(a) \/ EmailTaken(a) \/ StartSeeder(a) \/ SeedFails(a)
  <2>1. pc'[a].stage \in {"migrate", "admin", "down", "serving", "failed", "badges"}
    BY <1>1, <1>10 DEF StartUpgrade, Upgrade, EmailTaken, StartSeeder, SeedFails, Goto, AfterTheEnd
  <2>. QED
    BY <2>1 DEF Filled
<1>11. a \notin Calls
  BY ActorsAre DEF Typed, Running, Calls
<1>12. CASE SeeRoles(a) \/ DeleteRoles(a) \/ ReplaceRoles(a) \/ CreateCourse(a) \/ ImportStudent(a)
  BY <1>1, <1>11, <1>12, StageTells DEF SeeRoles, DeleteRoles, ReplaceRoles, CreateCourse, ImportStudent, At
<1>13. CASE Arrive(a) \/ LoseCall(a)
  BY <1>11, <1>13 DEF Arrive, LoseCall
<1>. QED
  BY <1>3, <1>4, <1>5, <1>6, <1>7, <1>8, <1>9, <1>10, <1>12, <1>13 DEF OwnStep, Progress

LEMMA SeedsStep ==
    ASSUME Typed, Levels, Seeds, NEW a \in Active, OwnStep(a), db.revision = 5, db'.revision = 5
    PROVE  Seeds'
<1>1. /\ OthersStay(a) /\ Whole'
      /\ db.data["badges"] \subseteq db'.data["badges"] /\ db.data["courses"] \subseteq db'.data["courses"]
      /\ DemoStudents \subseteq DemoStudents'
  BY OwnSteps, WholeStep
<1>2. db'.data["badges"] \subseteq Badges
  BY <1>1 DEF Whole
<1>3. ASSUME NEW b \in Running
      PROVE  Filled(b)'
  <2>1. b \in Active /\ Filled(b) /\ tx[b].badges \subseteq Badges
    BY DEF Running, Seeds, Typed, ActorTyped
  <2>2. CASE b = a
    BY <2>2, OwnFilled, <1>3
  <2>3. CASE b # a
    <3>1. pc'[b] = pc[b] /\ tx'[b] = tx[b] /\ downgrades' = downgrades
      BY <1>1, <2>1, <2>3 DEF OthersStay
    <3>. QED
      BY <1>1, <1>2, <2>1, <3>1, FilledStays
  <2>. QED
    BY <2>2, <2>3
<1>4. Running' = Running
  BY <1>1 DEF OthersStay, Running, Active
<1>. QED
  BY <1>1, <1>3, <1>4 DEF Seeds

----------------------------------------------------------------------------
(* Seeds below the last revision, and when something ends *)

LEMMA NobodySeeds == Sound /\ db.revision # 5 => \A a \in Running : Filled(a) /\ KnownBy(a)
<1>. SUFFICES ASSUME Typed, Levels, db.revision # 5, NEW a \in Running
              PROVE  Filled(a) /\ KnownBy(a)
  BY DEF Sound
<1>1. /\ pc[a].stage \notin {"teacher", "child", "parent", "settle", "student", "content"}
      /\ pc[a].stage # "done" \/ downgrades # 0
  BY SeedsWait
<1>2. a \in Backends => pc[a].stage \in {"down", "migrate"}
  BY DEF Levels, Running
<1>. QED
  BY <1>1, <1>2 DEF Filled, KnownBy

LEMMA NobodySeedsNext == Sound' /\ (db.revision # 5)' => (\A a \in Running : Filled(a) /\ KnownBy(a))'
  BY NobodySeeds, PTL

\* The tables seeds share with the second revision.
OldSame ==
    \A t \in {"students", "student_guardian", "courses", "groups", "enrollments"} : db'.data[t] = db.data[t]

LEMMA WholeStays ==
    ASSUME Whole, OldSame, DOMAIN pc' = Active,
           db'.revision = 5 => db' = db /\ downgrades' = downgrades
    PROVE  Whole'
<1>1. Active' = Active /\ Running' = Running /\ DemoStudents' = DemoStudents
  BY DEF Active, Running, DemoStudents, OldSame
<1>2. /\ db'.data["student_guardian"] = db.data["student_guardian"] /\ db'.data["courses"] = db.data["courses"]
      /\ db'.data["groups"] = db.data["groups"] /\ db'.data["enrollments"] = db.data["enrollments"]
  BY DEF OldSame
<1>. QED
  BY <1>1, <1>2 DEF Whole

\* What ends or is taken back leaves the accounts and what seeds wrote.
LEMMA QuietSeeds ==
    ASSUME Sound', Known, Seeds, DoneStay, UsersStay, OldSame, DOMAIN pc' = Active,
           db'.revision = 5 => db' = db /\ downgrades' = downgrades,
           \A a \in Active : \/ pc'[a].stage \in {"down", "failed"}
                             \/ pc'[a] = pc[a] /\ tx'[a] = tx[a]
    PROVE  (Known /\ Seeds)'
<1>1. /\ Running' = Running /\ Users' = Users /\ \A email : RoleRows(email)' = RoleRows(email)
      /\ Calls' = Calls
  BY DEF Running, Active, Users, RoleRows, UsersStay, Calls
<1>2. RolesKnown' /\ AdminFirst'
  <2>1. RolesKnown'
    BY <1>1, HasRoleStays, RegisteredStays DEF Known, RolesKnown
  <2>2. AdminFirst'
    BY <1>1 DEF Known, AdminFirst, Calls
  <2>. QED
    BY <2>1, <2>2
<1>3. Whole'
  BY WholeStays DEF Seeds
<1>4. ASSUME NEW a \in Running
      PROVE  Filled(a)' /\ KnownBy(a)'
  <2>1. CASE db'.revision # 5
    BY <1>1, <2>1, NobodySeedsNext
  <2>2. CASE db'.revision = 5
    <3>1. /\ db' = db /\ downgrades' = downgrades /\ Filled(a) /\ KnownBy(a)
          /\ \/ pc'[a].stage \in {"down", "failed"}
             \/ pc'[a] = pc[a] /\ tx'[a] = tx[a]
      BY <2>2 DEF Known, Seeds, Running
    <3>2. CASE pc'[a].stage = "down"
      BY <3>2 DEF Filled, KnownBy
    <3>3. CASE pc'[a].stage = "failed" /\ a \notin Backends
      BY <3>3 DEF Filled, KnownBy
    <3>4. CASE pc'[a].stage = "failed" /\ a \in Backends
      <4>1. pc'[a].stage \in StagesOf(a)'
        BY <1>1 DEF Sound, Typed, ActorTyped, Running
      <4>. QED
        BY <3>4, <4>1 DEF StagesOf, SeedStages
    <3>5. CASE pc'[a] = pc[a] /\ tx'[a] = tx[a]
      BY <3>1, <3>5, <1>1 DEF Filled, KnownBy, DemoStudents
    <3>. QED
      BY <3>1, <3>2, <3>3, <3>4, <3>5
  <2>. QED
    BY <2>1, <2>2
<1>. QED
  BY <1>1, <1>2, <1>3, <1>4 DEF Known, Seeds

\* An upgrade to the last revision: the later tables come empty.
LEMMA UpgradeSeeds ==
    ASSUME Typed, Levels, Seeds, NEW b \in Active, Upgrade(b), db.revision >= 2, db.revision # 5, db'.revision = 5
    PROVE  Seeds'
<1>1. Upgrades(db, db', 5) /\ pc'[b] = [stage |-> "admin", step |-> "look"]
  BY UpgradeMakes
<1>2. OthersStay(b) /\ RowsGrow(db, db') /\ downgrades # 0
  BY <1>1, OwnSteps DEF Upgrades, OwnStep, Progress, Levels
<1>3. DOMAIN db'.data = T5 /\ T2 \subseteq DOMAIN db.data /\ "badges" \notin DOMAIN db.data
  <2>1. db.revision \in {2, 3} \/ db.revision = 4
    BY DEF Levels
  <2>. QED
    BY <1>1, <2>1 DEF Levels, Upgrades, Level, Shaped, Has, T5, T4, T2, T1
<1>4. OldSame /\ db'.data["badges"] = {}
  BY <1>2, <1>3 DEF RowsGrow, SameRows, OldSame, T5, T2, T1
<1>5. Whole'
  <2>1. Active' = Active /\ Running' = Running /\ DemoStudents' = DemoStudents /\ downgrades' = downgrades
    BY <1>2, <1>4 DEF Active, Running, DemoStudents, OldSame, OthersStay
  <2>2. /\ db'.data["student_guardian"] = db.data["student_guardian"] /\ db'.data["courses"] = db.data["courses"]
        /\ db'.data["groups"] = db.data["groups"] /\ db'.data["enrollments"] = db.data["enrollments"]
    BY <1>4 DEF OldSame
  <2>. QED
    BY <1>2, <1>4, <2>1, <2>2 DEF Whole, Seeds
<1>6. ASSUME NEW a \in Running
      PROVE  Filled(a)'
  <2>1. CASE a = b
    BY <1>1, <2>1 DEF Filled
  <2>2. CASE a # b
    <3>1. pc'[a] = pc[a] /\ downgrades' = downgrades
      BY <1>2, <2>2 DEF OthersStay, Running
    <3>2. pc[a].stage \notin {"teacher", "child", "parent", "settle", "student", "content"}
      BY SeedsWait
    <3>. QED
      BY <1>2, <3>1, <3>2 DEF Filled
  <2>. QED
    BY <2>1, <2>2
<1>7. Running' = Running
  BY <1>2 DEF OthersStay, Running, Active
<1>. QED
  BY <1>5, <1>6, <1>7 DEF Seeds

\* The first upgrade past the accounts: nobody is there, nothing is written.
LEMMA FirstSeeds ==
    ASSUME Typed, Levels, NEW b \in Active, Upgrade(b), ~(db.revision >= 2), db'.revision >= 2
    PROVE  (Known /\ Seeds)' /\ DemoStudents' = {} /\ db'.data["groups"] = {}
<1>1. /\ Upgrades(db, db', 5) /\ downgrades' = downgrades
      /\ \A t \in T5 \ T1 : db'.data[t] = {}
      /\ \A t \in People : \A row \in db'.data[t] : row.user = "none"
      /\ \A a \in Active : /\ a \in Backends => pc'[a].stage \in {"down", "migrate", "admin"}
                           /\ a \notin Backends => pc'[a] = pc[a] /\ Stopped(a) /\ (downgrades = 0 => pc[a].stage = "ready")
  BY UpgradeBegins
<1>2. /\ Users' = {} /\ db'.data["courses"] = {} /\ db'.data["groups"] = {} /\ db'.data["badges"] = {}
      /\ db'.data["modules"] = {} /\ db'.data["schedule_slots"] = {}
  BY <1>1 DEF Users, T5, T4, T2, T1
<1>3. DemoStudents' = {}
  BY <1>1 DEF DemoStudents, DemoEmail, People
<1>4. Active' = Active /\ Running' = Running
  BY OwnSteps DEF OwnStep, Progress, OthersStay, Active, Running
<1>5. Whole'
  BY <1>2, <1>3 DEF Whole
<1>6. RolesKnown' /\ AdminFirst'
  <2>1. \A c \in Calls : c \in Active /\ c \notin Backends
    BY ActorsAre DEF Calls, Typed
  <2>2. AdminFirst'
    BY <1>1, <1>4, <2>1 DEF AdminFirst, Calls, Stopped
  <2>. QED
    BY <1>2, <2>2 DEF RolesKnown
<1>7. ASSUME NEW a \in Running
      PROVE  Filled(a)' /\ KnownBy(a)'
  <2>1. \/ pc'[a].stage \in {"down", "migrate", "admin"}
        \/ /\ pc'[a].stage \in {"ready", "done", "failed", "down"} /\ a \notin Backends
           /\ pc'[a].stage # "done" \/ downgrades' # 0
    BY <1>1 DEF Running, Stopped
  <2>. QED
    BY <2>1 DEF Filled, KnownBy
<1>. QED
  BY <1>2, <1>3, <1>4, <1>5, <1>6, <1>7 DEF Known, Seeds

\* One step of an actor of the accounts' and the seeds' part.
LEMMA OwnSeeds ==
    ASSUME Typed, Levels, Typed', Levels', Accounts, Seeded, NEW a \in Active, OwnStep(a), db'.revision >= 2
    PROVE  (Known /\ Seeds)'
<1>1. CASE ~(db.revision >= 2)
  <2>1. Upgrade(a)
    BY <1>1, OwnLevel DEF Levels
  <2>. QED
    BY <1>1, <2>1, FirstSeeds
<1>2. CASE db.revision >= 2
  <2>1. Known'
    BY <1>2, KnownStep DEF Accounts, Seeded
  <2>2. Seeds /\ OthersStay(a)
    BY <1>2, OwnSteps DEF Seeded
  <2>3. CASE Upgrade(a) /\ db.revision # 5 /\ db'.revision = 5
    BY <1>2, <2>1, <2>2, <2>3, UpgradeSeeds
  <2>4. CASE db.revision # 5 /\ db'.revision # 5
    <3>1. db' = db
      <4>1. CASE Upgrade(a)
        <5>1. db' = db \/ Upgrades(db, db', 5)
          BY <4>1, UpgradeMakes
        <5>. QED
          BY <2>4, <5>1 DEF Upgrades
      <4>2. CASE ~Upgrade(a)
        BY <2>4, <4>2, OwnLevel
      <4>. QED
        BY <4>1, <4>2
    <3>2. Whole'
      BY <2>2, <2>4, <3>1, WholeStays DEF Seeds, OldSame, OthersStay
    <3>3. (\A b \in Running : Filled(b))'
      BY <2>4, NobodySeedsNext DEF Sound
    <3>. QED
      BY <2>1, <3>2, <3>3 DEF Seeds
  <2>5. CASE db.revision = 5
    <3>1. db'.revision = 5
      <4>1. CASE Upgrade(a)
        <5>1. db' = db \/ Upgrades(db, db', 5)
          BY <4>1, UpgradeMakes
        <5>. QED
          BY <2>5, <5>1 DEF Upgrades
      <4>2. CASE ~Upgrade(a)
        BY <2>5, <4>2, OwnLevel
      <4>. QED
        BY <4>1, <4>2
    <3>. QED
      BY <2>1, <2>2, <2>5, <3>1, SeedsStep
  <2>6. ~Upgrade(a) => db'.revision = db.revision
    BY OwnLevel
  <2>. QED
    BY <2>3, <2>4, <2>5, <2>6
<1>. QED
  BY <1>1, <1>2

\* A crash, a downgrade, or nothing.
LEMMA OtherSteps ==
    ASSUME Typed, Levels, NEW a, (Crash(a) /\ a \in Active) \/ UNCHANGED vars
                                 \/ (a \in 0..(LastRevision - 1) /\ Downgrade(a))
    PROVE  /\ DoneStay /\ DOMAIN pc' = Active /\ overlapped' = overlapped
           /\ db'.revision >= 2 => UsersStay /\ OldSame /\ db.revision >= 2
           /\ \A b \in Active : \/ pc'[b].stage \in {"down", "failed"}
                                \/ pc'[b] = pc[b] /\ tx'[b] = tx[b]
           /\ db'.revision = 5 => db' = db /\ downgrades' = downgrades
<1>1. CASE Crash(a) /\ a \in Active
  <2>1. /\ db' = db /\ local' = local /\ downgrades' = downgrades /\ DOMAIN pc' = Active /\ overlapped' = overlapped
        /\ \A b \in Active : \/ tx'[b] = NoWrites /\ pc'[b].stage \in {"down", "failed"} /\ b \in EndWith(a)
                             \/ tx'[b] = tx[b] /\ pc'[b] = pc[b]
    BY <1>1 DEF Crash, AfterTheEnd
  <2>2. DoneStay
    <3>1. \A c \in Calls : pc[c].stage = "done" => c \notin EndWith(a)
      BY <1>1, ActorsAre DEF EndWith, Stopped, Crash, Calls, Typed
    <3>. QED
      BY <2>1, <3>1 DEF DoneStay, Calls
  <2>. QED
    BY <2>1, <2>2 DEF UsersStay, OldSame
<1>2. CASE UNCHANGED vars
  BY <1>2 DEF vars, DoneStay, UsersStay, OldSame, Active
<1>3. CASE a \in 0..(LastRevision - 1) /\ Downgrade(a)
  <2>1. Downgrades(db, db', a) /\ a \in 0..4 /\ a < db.revision /\ db.revision \in 0..5
    BY <1>3, DowngradeMakes DEF Levels
  <2>2. db'.revision = a
    BY <2>1 DEF Downgrades
  <2>3. pc' = pc /\ tx' = tx /\ overlapped' = overlapped /\ DOMAIN pc' = Active
    BY <1>3 DEF Downgrade, Active
  <2>4. ASSUME a >= 2
        PROVE  OldSame
    <3>1. Level(db', a) /\ RowsShrink(db, db') /\ (a \in {2, 3} \/ a = 4)
      BY <2>1, <2>4 DEF Downgrades
    <3>2. T2 \subseteq DOMAIN db'.data
      BY <3>1 DEF Level, Shaped, Has, T4
    <3>. QED
      BY <3>1, <3>2 DEF RowsShrink, SameRows, OldSame, T2, T1
  <2>. QED
    BY <1>3, <2>1, <2>2, <2>3, <2>4, DowngradeUsersStay DEF DoneStay
<1>. QED
  BY <1>1, <1>2, <1>3

----------------------------------------------------------------------------
(* Seeds that do not overlap *)

LEMMA BusyAtLast ==
    ASSUME Typed, Levels, NEW a \in Running, Busy(a)
    PROVE  db.revision = 5
  BY SeedsWait DEF Busy

\* How a step gets an actor where it is busy.
LEMMA OwnBusy ==
    ASSUME Typed, Levels, NEW a \in Running, OwnStep(a)
    PROVE  /\ At(a, "student", "commit")' => LookForStudent(a) /\ DemoStudents = {}
           /\ At(a, "content", "commit")' => CountCourses(a) /\ db.data["courses"] = {}
           /\ Busy(a)' => Busy(a) \/ InsertBadges(a)
<1>1. /\ a \in Active /\ DOMAIN pc = Active /\ a \notin Calls
      /\ pc[a] \in [stage : Stages, step : Steps]
  BY OpenWhere, ActorsAre DEF Running, Calls, Typed
<1>2. CASE FindAccount(a)
  <2>1. \/ pc'[a] = [stage |-> NextStage(a), step |-> "look"]
        \/ pc'[a] = [pc[a] EXCEPT !.step = "insert"]
    BY <1>1, <1>2 DEF FindAccount, Goto, Step
  <2>2. pc[a].stage \in {"admin", "teacher", "child", "parent"}
    BY <1>2 DEF FindAccount
  <2>3. CASE pc'[a] = [stage |-> NextStage(a), step |-> "look"]
    BY <2>2, <2>3 DEF NextStage, Busy, At
  <2>4. CASE pc'[a] = [pc[a] EXCEPT !.step = "insert"]
    <3>1. pc'[a].stage = pc[a].stage /\ pc'[a].step = "insert"
      BY <1>1, <2>4
    <3>. QED
      BY <2>2, <3>1 DEF Busy, At
  <2>. QED
    BY <2>1, <2>3, <2>4
<1>3. CASE InsertUser(a)
  <2>1. pc'[a].stage = pc[a].stage /\ Registers(a)
    BY <1>1, <1>3 DEF InsertUser, Step
  <2>. QED
    BY <2>1 DEF Registers, Busy, At
<1>4. CASE CommitUser(a)
  <2>1. pc'[a] = [stage |-> NextStage(a), step |-> "look"] /\ Registers(a) /\ pc[a].stage # "register"
    BY <1>1, <1>4, StageTells DEF CommitUser, Goto
  <2>. QED
    BY <2>1 DEF Registers, NextStage, Busy, At
<1>5. CASE \/ StartUpgrade(a) \/ Upgrade(a) \/ EmailTaken(a) \/ StartSeeder(a) \/ SeedFails(a) \/ SeedContent(a)
  <2>1. pc'[a].stage \in {"migrate", "admin", "down", "serving", "failed", "badges", "done"}
    BY <1>1, <1>5 DEF StartUpgrade, Upgrade, EmailTaken, StartSeeder, SeedFails, SeedContent, Goto, AfterTheEnd, EndOfSeed
  <2>. QED
    BY <2>1 DEF Busy, At
<1>6. CASE InsertBadges(a)
  <2>1. pc'[a].stage = "teacher"
    BY <1>1, <1>6 DEF InsertBadges, Goto
  <2>. QED
    BY <1>6, <2>1 DEF At
<1>7. CASE Settle(a) \/ SeedStudent(a)
  <2>1. pc'[a].step = "look" /\ pc[a].stage \in {"settle", "student"}
    BY <1>1, <1>7 DEF Settle, SeedStudent, At, Goto
  <2>. QED
    BY <2>1 DEF At, Busy
<1>8. CASE LookForStudent(a)
  <2>1. \/ pc[a].stage = "student" /\ pc'[a].stage = "student" /\ DemoStudents = {}
        \/ pc[a].stage = "student" /\ pc'[a] = [stage |-> "content", step |-> "look"]
    BY <1>1, <1>8 DEF LookForStudent, At, Goto, Step
  <2>. QED
    BY <1>8, <2>1 DEF At, Busy
<1>9. CASE CountCourses(a)
  <2>1. \/ pc[a].stage = "content" /\ pc'[a].stage = "content" /\ db.data["courses"] = {}
        \/ pc[a].stage = "content" /\ pc'[a].stage \in {"serving", "done"}
    BY <1>1, <1>9 DEF CountCourses, CatalogueEmpty, At, Goto, Step, EndOfSeed
  <2>. QED
    BY <1>9, <2>1 DEF At, Busy
<1>10. CASE SeeRoles(a) \/ DeleteRoles(a) \/ ReplaceRoles(a) \/ CreateCourse(a) \/ ImportStudent(a)
  BY <1>1, <1>10, StageTells DEF SeeRoles, DeleteRoles, ReplaceRoles, CreateCourse, ImportStudent, At
<1>11. CASE Arrive(a) \/ LoseCall(a)
  BY <1>1, <1>11 DEF Arrive, LoseCall
<1>. QED
  BY <1>2, <1>3, <1>4, <1>5, <1>6, <1>7, <1>8, <1>9, <1>10, <1>11 DEF OwnStep, Progress

\* Only a seed's first step marks an overlap, and it does when one is on its way.
LEMMA OwnOverlap ==
    ASSUME Typed, NEW a \in Active, OwnStep(a), overlapped \in BOOLEAN
    PROVE  /\ overlapped' \in BOOLEAN
           /\ overlapped' = FALSE => overlapped = FALSE
           /\ overlapped' = FALSE /\ InsertBadges(a) => \A b \in Running \ {a} : ~Busy(b)
<1>1. CASE InsertBadges(a)
  <2>1. overlapped' = (overlapped \/ \E b \in Running \ {a} : Seeding(b))
    BY <1>1 DEF InsertBadges, Overlaps
  <2>. QED
    BY <2>1 DEF Seeding, Busy
<1>2. CASE ~InsertBadges(a)
  <2>1. overlapped' = overlapped
    BY <1>2 DEF OwnStep, Progress, StartUpgrade, Upgrade, FindAccount, InsertUser, EmailTaken, CommitUser, StartSeeder,
          Settle, LookForStudent, SeedStudent, CountCourses, SeedContent, SeeRoles,
          DeleteRoles, ReplaceRoles, CreateCourse, ImportStudent, Arrive, LoseCall, SeedFails
  <2>. QED
    BY <1>2, <2>1
<1>. QED
  BY <1>1, <1>2

\* Who writes demo students and groups.
LEMMA OwnRows ==
    ASSUME Typed, Levels, NEW a \in Active, OwnStep(a), db.revision = 5
    PROVE  /\ SeedStudent(a) \/ DemoStudents' = DemoStudents
           /\ SeedStudent(a) => \E s : DemoStudents' = DemoStudents \cup {s}
           /\ SeedContent(a) \/ db'.data["groups"] = db.data["groups"]
           /\ SeedContent(a) => db'.data["groups"] = db.data["groups"] \cup {a}
<1>1. CASE ~CommitUser(a) /\ ~Settle(a) /\ ~CreateCourse(a) /\ ~ImportStudent(a) /\ ~SeedStudent(a) /\ ~SeedContent(a)
  <2>1. SameBut({}) /\ NoNewStudent
    BY <1>1, SeedsQuiet, StudentsSame
  <2>. QED
    BY <1>1, <2>1 DEF SameBut, SeedTables, NoNewStudent
<1>2. CASE CommitUser(a) \/ Settle(a) \/ CreateCourse(a)
  <2>1. SameBut({"users", "user_roles", "badges", "courses"})
    <3>1. \/ Wrote(db, db', {"users", "user_roles", "badges"}) \/ Wrote(db, db', {"badges"})
          \/ Wrote(db, db', {"courses"})
      BY <1>2, CommitUserWrites, SettleWrites, CreateCourseWrites
    <3>. QED
      BY <3>1, WroteSeeds DEF SameBut
  <2>2. NoNewStudent /\ ~SeedStudent(a) /\ ~SeedContent(a)
    BY <1>2, <2>1, StudentsSame
       DEF CommitUser, Registers, Settle, CreateCourse, SeedStudent, SeedContent, At
  <2>. QED
    BY <2>1, <2>2 DEF SameBut, SeedTables, NoNewStudent
<1>3. CASE ImportStudent(a)
  <2>1. SameBut({"students"}) /\ db'.data["students"] = db.data["students"] \cup {Pii(<<a, 1>>, "none")}
    BY <1>3, ImportStudentWrites, WroteSeeds
  <2>2. DemoStudents' = DemoStudents
    BY <2>1, OthersUnknown DEF DemoStudents
  <2>3. ~SeedStudent(a) /\ ~SeedContent(a)
    BY <1>3 DEF ImportStudent, SeedStudent, SeedContent, At
  <2>. QED
    BY <2>1, <2>2, <2>3 DEF SameBut, SeedTables
<1>4. CASE SeedStudent(a)
  <2>. DEFINE new == Pii(<<a, crashes>>, DemoEmail.child)
  <2>1. /\ Wrote(db, db', {"students", "guardians", "student_guardian"})
        /\ db'.data["students"] = db.data["students"] \cup {new}
    BY <1>4, SeedStudentWrites
  <2>2. new.user = DemoEmail.child
    BY OthersUnknown
  <2>. HIDE DEF new
  <2>3. DemoStudents' = DemoStudents \cup {new}
    BY <2>1, <2>2 DEF DemoStudents
  <2>4. SameBut({"students", "guardians", "student_guardian"})
    BY <2>1, WroteSeeds
  <2>5. ~SeedContent(a)
    BY <1>4 DEF SeedStudent, SeedContent, At
  <2>. QED
    BY <1>4, <2>3, <2>4, <2>5 DEF SameBut, SeedTables
<1>5. CASE SeedContent(a)
  <2>1. /\ db'.data["groups"] = db.data["groups"] \cup {a}
        /\ db'.data["students"] = db.data["students"] \cup {Pii(Other(a), "none")}
    BY <1>5, SeedContentWrites
  <2>2. DemoStudents' = DemoStudents /\ ~SeedStudent(a)
    BY <1>5, <2>1, OthersUnknown DEF DemoStudents, SeedStudent, SeedContent, At
  <2>. QED
    BY <1>5, <2>1, <2>2
<1>. QED
  BY <1>1, <1>2, <1>3, <1>4, <1>5

LEMMA OwnAlone ==
    ASSUME Typed, Levels, Seeded, NEW a \in Active, OwnStep(a)
    PROVE  Alone'
<1>1. OthersStay(a) /\ Active' = Active /\ Running' = Running /\ overlapped \in BOOLEAN
  BY OwnSteps DEF OthersStay, Active, Running, Seeded
<1>. SUFFICES ASSUME overlapped' = FALSE
              PROVE  Alone'
  BY DEF Alone
<1>2. /\ \A b, c \in Running : Busy(b) /\ Busy(c) => b = c
      /\ db.revision >= 2 =>
          /\ \A s, t \in DemoStudents : s = t
          /\ \A x, y \in db.data["groups"] : x = y
      /\ \A b \in Running : At(b, "student", "commit") => DemoStudents = {}
      /\ \A b \in Running : At(b, "content", "commit") => db.data["groups"] = {}
  BY <1>1, OwnOverlap DEF Seeded, Alone
<1>3. InsertBadges(a) => \A b \in Running \ {a} : ~Busy(b)
  BY <1>1, OwnOverlap
<1>4. \A b \in Running \ {a} : /\ Busy(b)' <=> Busy(b)
                               /\ At(b, "student", "commit")' <=> At(b, "student", "commit")
                               /\ At(b, "content", "commit")' <=> At(b, "content", "commit")
  BY <1>1 DEF OthersStay, Running, Busy, At
<1>5. \A b, c \in Running' : Busy(b)' /\ Busy(c)' => b = c
  BY <1>1, <1>2, <1>3, <1>4, OwnBusy
<1>6. ASSUME NEW b \in Running, At(b, "student", "commit")'
      PROVE  DemoStudents' = {}
  <2>1. b \in Active /\ (b = a => LookForStudent(a) /\ DemoStudents = {})
    BY <1>6, OwnBusy DEF Running
  <2>2. CASE b = a
    BY <2>1, <2>2 DEF LookForStudent, DemoStudents
  <2>3. CASE b # a
    <3>1. At(b, "student", "commit") /\ Busy(b) /\ DemoStudents = {}
      BY <1>2, <1>4, <1>6, <2>3 DEF At, Busy
    <3>2. db.revision = 5 /\ ~SeedStudent(a)
      <4>1. SeedStudent(a) => Busy(a) /\ a \in Running
        BY StageTells DEF SeedStudent, At, Busy, SeedStages
      <4>. QED
        BY <1>2, <2>3, <3>1, <4>1, BusyAtLast
    <3>. QED
      BY <3>1, <3>2, OwnRows
  <2>. QED
    BY <2>2, <2>3
<1>7. ASSUME NEW b \in Running, At(b, "content", "commit")'
      PROVE  db'.data["groups"] = {}
  <2>1. b \in Active /\ (b = a => CountCourses(a) /\ db.data["courses"] = {})
    BY <1>7, OwnBusy DEF Running
  <2>2. CASE b = a
    <3>1. pc[a].stage = "content" /\ db' = db /\ a \in Running
      BY <2>1, <2>2, <1>7 DEF CountCourses, At
    <3>2. db.revision = 5
      BY <3>1, BusyAtLast DEF Busy
    <3>3. db.data["groups"] = {}
      BY <2>1, <2>2, <3>2 DEF Seeded, Seeds, Whole
    <3>. QED
      BY <3>1, <3>3
  <2>3. CASE b # a
    <3>1. At(b, "content", "commit") /\ Busy(b) /\ db.data["groups"] = {}
      BY <1>2, <1>4, <1>7, <2>3 DEF At, Busy
    <3>2. db.revision = 5 /\ ~SeedContent(a)
      <4>1. SeedContent(a) => Busy(a) /\ a \in Running
        BY StageTells DEF SeedContent, At, Busy, SeedStages
      <4>. QED
        BY <1>2, <2>3, <3>1, <4>1, BusyAtLast
    <3>. QED
      BY <3>1, <3>2, OwnRows
  <2>. QED
    BY <2>2, <2>3
<1>8. ASSUME db'.revision >= 2
      PROVE  /\ \A s, t \in DemoStudents' : s = t
             /\ \A x, y \in db'.data["groups"] : x = y
  <2>1. CASE ~(db.revision >= 2)
    <3>1. Upgrade(a)
      BY <1>8, <2>1, OwnLevel DEF Levels
    <3>2. DemoStudents' = {} /\ db'.data["groups"] = {}
      BY <1>8, <2>1, <3>1, FirstSeeds
    <3>. QED
      BY <3>2
  <2>2. CASE db.revision >= 2 /\ db.revision # 5
    <3>1. OldSame
      <4>1. CASE db' = db
        BY <4>1 DEF OldSame
      <4>2. CASE Upgrades(db, db', 5)
        <5>1. db.revision \in {2, 3} \/ db.revision = 4
          BY <2>2 DEF Levels
        <5>2. T2 \subseteq DOMAIN db.data /\ RowsGrow(db, db')
          BY <2>2, <4>2, <5>1 DEF Levels, Upgrades, Level, Shaped, Has, T4
        <5>. QED
          BY <5>2 DEF RowsGrow, SameRows, OldSame, T2, T1
      <4>3. db' = db \/ Upgrades(db, db', 5)
        BY <2>2, OwnLevel, UpgradeMakes
      <4>. QED
        BY <4>1, <4>2, <4>3
    <3>2. DemoStudents' = DemoStudents /\ db'.data["groups"] = db.data["groups"]
      BY <3>1 DEF OldSame, DemoStudents
    <3>. QED
      BY <1>2, <2>2, <3>2
  <2>3. CASE db.revision = 5
    <3>1. \A s, t \in DemoStudents' : s = t
      <4>1. CASE SeedStudent(a)
        <5>1. PICK s : DemoStudents' = DemoStudents \cup {s}
          BY <2>3, <4>1, OwnRows
        <5>2. DemoStudents = {}
          BY <1>2, <4>1, StageTells DEF SeedStudent, At, SeedStages
        <5>. QED
          BY <5>1, <5>2
      <4>2. CASE ~SeedStudent(a)
        <5>1. DemoStudents' = DemoStudents
          BY <2>3, <4>2, OwnRows
        <5>. QED
          BY <1>2, <2>3, <5>1
      <4>. QED
        BY <4>1, <4>2
    <3>2. \A x, y \in db'.data["groups"] : x = y
      <4>1. CASE SeedContent(a)
        <5>1. db'.data["groups"] = db.data["groups"] \cup {a}
          BY <2>3, <4>1, OwnRows
        <5>2. db.data["groups"] = {}
          BY <1>2, <4>1, StageTells DEF SeedContent, At, SeedStages
        <5>. QED
          BY <5>1, <5>2
      <4>2. CASE ~SeedContent(a)
        <5>1. db'.data["groups"] = db.data["groups"]
          BY <2>3, <4>2, OwnRows
        <5>. QED
          BY <1>2, <2>3, <5>1
      <4>. QED
        BY <4>1, <4>2
    <3>. QED
      BY <3>1, <3>2
  <2>. QED
    BY <2>1, <2>2, <2>3
<1>. QED
  BY <1>1, <1>5, <1>6, <1>7, <1>8 DEF Alone

LEMMA OtherAlone ==
    ASSUME Typed, Levels, Alone, NEW a, (Crash(a) /\ a \in Active) \/ UNCHANGED vars
                                        \/ (a \in 0..(LastRevision - 1) /\ Downgrade(a))
    PROVE  Alone'
<1>1. /\ DOMAIN pc' = Active /\ overlapped' = overlapped
      /\ db'.revision >= 2 => OldSame /\ db.revision >= 2
      /\ \A b \in Active : pc'[b].stage \in {"down", "failed"} \/ pc'[b] = pc[b]
  BY OtherSteps
<1>2. Running' = Running /\ Active' = Active
  BY <1>1 DEF Active, Running
<1>3. \A b \in Running : /\ Busy(b)' => Busy(b)
                         /\ At(b, "student", "commit")' => At(b, "student", "commit")
                         /\ At(b, "content", "commit")' => At(b, "content", "commit")
  BY <1>1 DEF Running, Busy, At
<1>4. OldSame => DemoStudents' = DemoStudents /\ db'.data["groups"] = db.data["groups"]
  BY DEF OldSame, DemoStudents
<1>5. ASSUME NEW b \in Running, Busy(b)'
      PROVE  OldSame
  <2>1. ~Downgrade(a)
    BY <1>5, <1>3 DEF Downgrade, Stopped, Busy, Running
  <2>. QED
    BY <2>1 DEF Crash, vars, OldSame
<1>6. \A b \in Running : At(b, "student", "commit")' \/ At(b, "content", "commit")' => Busy(b)'
  BY <1>2 DEF At, Busy
<1>7. ASSUME overlapped = FALSE
      PROVE  /\ \A b, c \in Running' : Busy(b)' /\ Busy(c)' => b = c
             /\ db'.revision >= 2 =>
                 /\ \A s, t \in DemoStudents' : s = t
                 /\ \A x, y \in db'.data["groups"] : x = y
             /\ \A b \in Running' : At(b, "student", "commit")' => DemoStudents' = {}
             /\ \A b \in Running' : At(b, "content", "commit")' => db'.data["groups"] = {}
  BY <1>1, <1>2, <1>3, <1>4, <1>5, <1>6, <1>7 DEF Alone
<1>. QED
  BY <1>1, <1>7 DEF Alone

LEMMA SeededStep ==
    ASSUME Typed, Levels, Typed', Levels', Accounts, Seeded, [Next]_vars
    PROVE  Seeded'
<1>1. ASSUME NEW a \in Active, OwnStep(a)
      PROVE  Seeded'
  <2>1. overlapped' \in BOOLEAN
    BY <1>1, OwnOverlap DEF Seeded
  <2>2. db'.revision >= 2 => (Known /\ Seeds)'
    BY <1>1, OwnSeeds
  <2>3. Alone'
    BY <1>1, OwnAlone
  <2>. QED
    BY <2>1, <2>2, <2>3 DEF Seeded
<1>2. ASSUME NEW a, (Crash(a) /\ a \in Active) \/ UNCHANGED vars
                     \/ (a \in 0..(LastRevision - 1) /\ Downgrade(a))
      PROVE  Seeded'
  <2>1. /\ DoneStay /\ DOMAIN pc' = Active /\ overlapped' = overlapped
        /\ db'.revision >= 2 => UsersStay /\ OldSame /\ db.revision >= 2
        /\ \A b \in Active : \/ pc'[b].stage \in {"down", "failed"}
                             \/ pc'[b] = pc[b] /\ tx'[b] = tx[b]
        /\ db'.revision = 5 => db' = db /\ downgrades' = downgrades
    BY <1>2, OtherSteps
  <2>2. db'.revision >= 2 => (Known /\ Seeds)'
    <3>1. Sound' /\ \A b \in Running : b \in Active
      BY DEF Sound, Running
    <3>. QED
      BY <2>1, <3>1, QuietSeeds DEF Seeded
  <2>3. Alone'
    BY <1>2, OtherAlone DEF Seeded
  <2>. QED
    BY <2>1, <2>2, <2>3 DEF Seeded
<1>. QED
  BY <1>1, <1>2 DEF Next, OwnStep

LEMMA SeededInit == Init => Seeded
<1>. SUFFICES ASSUME Init
              PROVE  Seeded
  OBVIOUS
<1>1. overlapped = FALSE /\ ~(db.revision >= 2)
  BY EmptyLevel, LegacyLevel DEF Init
<1>2. \A a \in Active : pc[a].stage \in {"down", "ready"}
  BY DEF Init, Active
<1>3. \A a \in Running : ~Busy(a) /\ ~At(a, "student", "commit") /\ ~At(a, "content", "commit")
  <2>. SUFFICES ASSUME NEW a \in Active
                PROVE  ~Busy(a) /\ ~At(a, "student", "commit") /\ ~At(a, "content", "commit")
    BY DEF Running
  <2>1. pc[a].stage = "down" \/ pc[a].stage = "ready"
    BY <1>2
  <2>. QED
    BY <2>1 DEF Busy, At
<1>4. Alone
  BY <1>1, <1>3 DEF Alone
<1>. QED
  BY <1>1, <1>4 DEF Seeded

LEMMA SeededAlways == Spec => [](SoundAccounts /\ Seeded)
<1>1. Init => SoundAccounts /\ Seeded
  BY TypedInit, LevelsInit, AccountsInit, SeededInit DEF SoundAccounts, Sound
<1>2. (SoundAccounts /\ Seeded) /\ [Next]_vars => (SoundAccounts /\ Seeded)'
  BY TypedStep, LevelsStep, AccountsStep, SeededStep DEF SoundAccounts, Sound
<1>. QED
  BY <1>1, <1>2, PTL DEF Spec

LEMMA AtMostOne ==
    ASSUME NEW S, \A s, t \in S : s = t
    PROVE  Cardinality(S) <= 1
<1>1. CASE S = {}
  BY <1>1, FS_EmptySet
<1>2. CASE S # {}
  <2>1. PICK s : S = {s}
    BY <1>2
  <2>2. Cardinality({s}) = 1
    BY FS_Singleton
  <2>. QED
    BY <2>1, <2>2
<1>. QED
  BY <1>1, <1>2

\* A backend that serves has its admin.  A seed that ran through has left its
\* accounts, student, badges and a catalogue, whatever stopped half-way before,
\* and only seeds that overlapped left two of anything (seed_demo, main.lifespan).
THEOREM StartsLeaveAll == Spec => []StartLeavesAll
<1>1. SoundAccounts /\ Seeded => StartLeavesAll
  <2>. SUFFICES ASSUME Typed, Levels, Seeded
                PROVE  StartLeavesAll
    BY DEF SoundAccounts, Sound
  <2>1. ASSUME NEW b \in Active \cap Backends, pc[b].stage = "serving"
        PROVE  HasRole(AdminEmail, "admin")
    <3>1. db.revision = 5 /\ b \in Running
      BY <2>1 DEF Levels, Running
    <3>. QED
      BY <2>1, <3>1 DEF Seeded, Known, KnownBy, RolesKnown
  <2>2. ASSUME NEW a \in Active \cap Seeders, pc[a].stage = "done", downgrades = 0
        PROVE  /\ \A role \in DOMAIN DemoEmail : HasRole(DemoEmail[role], role) \/ Registered(DemoEmail[role])
               /\ \E s \in DemoStudents : s.id \in db.data["student_guardian"]
               /\ db.data["badges"] = Badges /\ db.data["courses"] # {}
    <3>1. a \in Active \ Backends /\ a \in Running
      BY ActorsAre DEF Typed, Running
    <3>2. db.revision = 5
      BY <2>2, <3>1 DEF Levels
    <3>3. Known /\ KnownBy(a) /\ Whole /\ Filled(a)
      BY <3>1, <3>2 DEF Seeded, Known, Seeds
    <3>4. \A role \in DOMAIN DemoEmail : DemoEmail[role] \in Users
      BY <2>2, <3>3 DEF KnownBy, DemoEmail
    <3>5. \A role \in DOMAIN DemoEmail : HasRole(DemoEmail[role], role) \/ Registered(DemoEmail[role])
      BY <3>3, <3>4 DEF Known, RolesKnown
    <3>. QED
      BY <2>2, <3>3, <3>5 DEF Whole, Filled
  <2>3. ASSUME db.revision = LastRevision
        PROVE  LET seeded == db.data["courses"] \cap Running
               IN  /\ ~overlapped => Cardinality(DemoStudents) <= 1 /\ Cardinality(seeded) <= 1
                   /\ seeded = db.data["groups"]
                   /\ downgrades = 0 => seeded = db.data["modules"] /\ seeded = db.data["schedule_slots"]
                   /\ (downgrades = 0 /\ seeded # {}) => db.data["student_stats"] # {}
                   /\ seeded # {} => \E e \in db.data["enrollments"] : e[2] # Other(e[1])
    <3>1. db.revision = 5 /\ Whole /\ Alone
      BY <2>3, Revisions DEF Seeded, Seeds
    <3>2. ~overlapped => Cardinality(DemoStudents) <= 1 /\ Cardinality(db.data["groups"]) <= 1
      BY <3>1, AtMostOne DEF Alone
    <3>. QED
      BY <3>1, <3>2 DEF Whole
  <2>. QED
    BY <2>1, <2>2, <2>3 DEF StartLeavesAll
<1>. QED
  BY <1>1, SeededAlways, PTL

==============================================================================
