# Verification of the LibreSSL X.509 name-constraints checker

This directory holds TLA+ models of three parts of the repository, the TLC configurations that
model-check them and the TLAPS proofs about them:

- `src/src/lib/libcrypto/x509/x509_constraints.c`, the code that checks RFC 5280 NameConstraints along a verified certificate chain;
- `src/src/lib/libssl/ssl_seclevel.c`, the TLS security-level policy: the default security callback and the check of a certificate chain against it;
- `src/unnamed/part_000` (`bn_internal.h`), the single-word primitives of the BIGNUM code.

## 1. The system

### Components and their state

| Component | Code | State | Operations |
|---|---|---|---|
| Chain walk | `x509_constraints_chain` (1113-1186) | `i` (index), `names` (accumulated names), `permitted`/`excluded` (transient lists of the current CA), `constraints_count`, `verify_err`, `*depth` | start and empty/single-chain exits; extract the leaf's names; for each CA, extract and count its subtrees, check all names, then append its names; the names ceiling and the constraints ceiling; `goto err` |
| Extraction | `extract_names` (675-864), `general_to_bytes` (627-666), `validate` (874-945), `extract_constraints` (948-1015) | the names list being filled, `include_cn`, `include_email`, and the loop index `i`, which is shared by the altname, email and CN loops | one iteration per subjectAltName, then the subject as a directoryName, then subject emails, then CNs; one iteration per permitted or excluded subtree |
| Syntax | `valid_domain_internal` and wrappers (166-277, 418-434), `parse_mailbox` (296-416), `uri_host` (450-500), `local_part_ok` | per-byte loop state: the previous byte, the label length, the `working` buffer, `quoted`, `accept`, the host span | these are pure byte loops |
| Matcher | `match` (1021-1062), `check` (1069-1102), `sandns`, `domain`, `ipaddr`, `dirname` (502-622) | none | pure |
| Names container | `name_*`/`names_*` (38-155) | heap arrays | new, add, free, dup |
| TLS security level | `ssl_seclevel.c` (33-390) | the SSL object's level and callback; in `ssl_security_cert_chain`, `start_idx`, `i` and `*out_error` | the default callback and its per-operation handlers, the dummy callback, the certificate key and digest checks, the chain loop |
| Word arithmetic | `bn_internal.h` (25-362) | none | constant-time zero tests, double-word add, subtract and multiply |

### How the components interact

`x509_constraints_chain` calls `extract_names` on the leaf, with `is_leaf` set. It then walks the chain towards the root. For
each certificate that has a NameConstraints extension, it calls `extract_constraints`, which validates
every subtree through `validate` and the syntax checkers. It then calls `check` over all names collected
so far, and `check` calls `match` and the matchers. Only after the check does it append that certificate's own names
(`is_leaf` = 0). `extract_names` uses the syntax checkers to validate SAN names, subject emails and CN
hostnames.

The TLS library asks `ssl_security_cert_chain` about a peer's or its own chain. That function calls
`ssl_security_cert` on each certificate, which asks the SSL object's security callback (`ssl_security`) about the
key's bits and the signature digest's bits. The default callback normalises the level and dispatches on the
operation. The word primitives are called by the BIGNUM routines and do not interact with the other two parts.

### Hard behaviours

The call is synchronous and single-threaded: nothing in it runs concurrently and nothing is persisted.
The hard parts are the following:

- A loop index is reused across three loops. `i` is left after the altname loop and then passed as `lastpos` to the subject scans.
- Checks must happen in the right order. A CA's constraints are checked before its own names join.
- Two ceilings can fail a chain. Both are tested after the lists grow.
- Any of about twenty allocations can fail part-way through the walk.
- Several byte loops have boundary cases:
  - a 256-byte mailbox domain leaves no NUL in `working`;
  - `inet_pton` is called on a buffer that is not NUL-terminated;
  - `strlen` stops at an embedded NUL.
- `ssl_security_cert_chain` checks `sk[0]` as the end entity when `x509` is NULL, so its CA loop must start at 1 then and at 0 otherwise.
- The word primitives compute carries from top bits and products from half words, and must be exact at every wrap-around.

### What makes each component correct

- **Chain walk.** A return of 1 means every name of every certificate satisfies the constraints of every CA above it. A violation is reported at the depth of the first violated CA.
- **Extraction.** The spec (§4.2) says that all SAN names are extracted. For the leaf, every subject email is extracted when there is no email SAN, and every hostname-like CN when there is no DNS SAN.
- **Syntax and matcher.** Each accepts exactly the grammar the spec and RFC 5280 give.
- **Security level.** A higher level never allows what a lower one refuses. The chain check returns 1 exactly when every certificate is accepted, and otherwise reports the first refusal.
- **Word arithmetic.** Each primitive returns the exact integer its comment promises.

## 2. The models

| Module | Models | Notes |
|---|---|---|
| `X509Match` | matcher and `check` | Strings are sequences of one-character strings. `ByteAnd` is a recursive function. |
| `X509Syntax` | validators, `parse_mailbox`, `uri_host`, libc `inet_pton` | Each C byte loop is a recursive function `st[k \in 0..n]` over a step operator, which is the loop body. `inet_pton` is marked spec-modelled because it is libc. |
| `X509Extract` | `extract_names`, `general_to_bytes`, `validate`, `extract_constraints` | `ExtractNamesCode` passes the subject scans the `lastpos` the code passes. `ExtractNamesSpec` scans from the first attribute, as the spec says. |
| `X509Chain` | `x509_constraints_chain` | Variables are the function's locals plus `pc`. There is one action per segment of the loop body: `Start`, `ExtractLeafNames`, `ExtractCertConstraints`, `CheckConstraints`, `ExtractCertNames`, `AllocFail` (any allocation returning NULL) and `Returned`. |
| `MC_X509Chain` | model-checking instance | |
| `X509ChainProofs` | TLAPS proofs | |
| `SslSeclevel` | the callbacks and certificate checks of `ssl_seclevel.c` | Pure operators, one per C function. A cipher is the set of properties the callback tests (`aNULL`, `RC4`, `kDHE`, `kECDHE`, `TLSv1.3`). A certificate is its key's security bits and its signature algorithm. `ssl_tls_version`, the digest of a signature algorithm and `EVP_MD_size` are small tables, marked spec-modelled because they are outside the file. |
| `SslPolicy`, `MC_SslPolicy` | one call of the default callback | The inputs are chosen in `Init`; `Call` computes the answer. |
| `SslChain`, `MC_SslChain` | `ssl_security_cert_chain` | The variables are the inputs (`sk`, `x509`, level, callback) and the locals `i` and `out_error`, plus `pc`. The actions are `CheckEe` (lines 373-379), `CheckCa` (one iteration, 381-387), `Finish` (389) and `Returned`. |
| `SslPolicyProofs`, `SslChainProofs` | TLAPS proofs | |
| `BnWord` | `bn_internal.h` | Words are naturals below `2^BN_BITS2`; `Wrap` is C's unsigned wrap-around. `BN_LLONG` selects the double-width or the portable code. The bit operations of the portable carry formulas act on top bits only, so they are written with `Msb`. |
| `BnCalls` | a caller of the primitives | `Init` picks a primitive and its arguments; `Call` computes the result. |
| `BnWordProofs` | TLAPS proofs | |
| `BnProductProofs` | TLAPS proofs of the multiply primitives | |

`X509Chain` is parameterised by the extractors, `CONSTANTS ExtractNames(_, _), ExtractConstraints(_)`. Their
result types are `ASSUME ExtractorAssumption`. A second assumption, `ExtractorErrorAssumption`, says that the
extractors never report `EXCLUDED_VIOLATION` or `PERMITTED_VIOLATION`. This is true of the code: only
`x509_constraints_check` sets those errors (lines 1083 and 1097). The MC module binds them to `ExtractNamesCode` and
`ExtractConstraintsCode`, so TLC runs the real extractors and checks the assumption on every run. The proofs hold for
any extractors of those types. This also keeps the proof module free of the recursive byte loops,
about which the provers cannot reason.

Each certificate is the record the decoding layer hands over. It has its SAN `GENERAL_NAME`s, its subject
attributes, and its permitted and excluded subtrees (with a min/max flag). An empty `local` stands for NULL.

## 3. Runs

| Run | cfg | Expect | Checks |
|---|---|---|---|
| `chain_pass` | `MC_X509Chain.cfg` | pass (about 33,000 distinct states, under 10 s) | `TypeOK`, `NamesConstrained`, `ViolationAtFirstDepth` |
| `chain_subject_scan` | `MC_X509Chain_SubjectScan.cfg` | violation | `NamesConstrainedSpec` |
| `chain_names_ceiling` | `MC_X509Chain_NamesCeiling.cfg` | violation | `CheckedNamesBounded` |
| `bn_words` | `BnCalls.cfg` | pass (about 680,000 states, 20 s) | `CarryIdentity`, `ProductIdentity`, `ZeroTests` |
| `bn_carry_bits` | `BnCalls_CarryBits.cfg` | violation | `CarriesAreBits` |
| `policy_levels` | `MC_SslPolicy.cfg` | pass (about 320,000 states, 5 s) | `PolicyMonotone` |
| `seclevel_chain` | `MC_SslChain.cfg` | pass (about 264,000 states, 16 s) | `TypeOK`, `ChainVerdict`, `Termination` |


`CheckedNamesBounded` says what design §5 says of the ceilings: no `check` runs over more than `MAX_CHAIN_NAMES` names.
It is run with `MAX_CHAIN_NAMES = 2`, so a leaf with three names exposes that the ceiling is not tested after the leaf.

**Bounds.** Chains have zero to three certificates.

- **Leaves** combine 7 SAN choices with 6 subject choices:
  - SAN choices: none, the DNS names `b.a` and `ba`, the email `x@b.a`, the IP `10.0.1.5`, the URI `h://c`, and the malformed DNS name `-a`;
  - subject choices: none, the CNs `c`, `C` and `b.a`, the email `x@c`, and three O attributes followed by a CN.
- **CAs** take one of 9 NameConstraints:
  - none;
  - permitted DNS `b.a`;
  - excluded DNS `a`;
  - excluded email domain `c`;
  - permitted URI `c`;
  - permitted IP `10.0.0.0/255.255.255.0`;
  - permitted directoryName plus excluded DNS `c`, which is two subtrees;
  - a min/max subtree;
  - a malformed `*a`.

With `MAX_CHAIN_NAMES = 4` and `MAX_CHAIN_CONSTRAINTS = 2`, both ceilings are reached by three-certificate
chains. Every branch of the walk happens:

- every error of the extractors and of `check`, excluded and permitted;
- the suffix match `a` against `ba`;
- the IP mask;
- the case folding of CNs and directoryNames.

A third CA or a longer name would repeat these cases without adding a new one.

No fairness is assumed and no liveness is claimed. The function is a terminating loop with no
waiting. `Returned` keeps a returned call as a stuttering step, so deadlock checking stays on.

**Security level bounds.** `policy_levels` takes every level from -1 to 6, so the clamping at both ends of
`ssl_security_normalize_level` and every row of the minimum-bits table are reached. It takes bits at and around each
minimum (-1, 0, 79, 80, 112, 127, 128, 192, 256), every version libssl knows and an unknown one, and all 32 cipher
property sets. `seclevel_chain` takes stacks of zero to two certificates, with `x509` given or NULL, so the loop starts
at 0 and at 1, runs zero, one and two times, and stops early. Keys have -1, 80, 112 or 128 bits, which sit on each side of
the level 1 to 3 minimums. Signatures are SHA-1 (80 bits), SHA-256 (128), Ed25519 and an unknown algorithm, which
both have no digest strength. Both callbacks are included.

**BIGNUM bounds.** `bn_words` uses 4-bit words with 2-bit halves (`BN_BITS2 = 4`) in the portable build. Every
argument of every primitive is enumerated, all 16^4 of them for `bn_mulw_addw_addw`. `c2` of `bn_mulw_addtw` is
limited to {0, 1, 14, 15} to keep the run short; those values include both ends. The portable code is the one with the
top-bit formulas and half-word products, and the double-width build is covered by the proofs.

**Fairness.** `seclevel_chain` checks `Termination` under `WF_vars(Next)`. The call runs on one thread from its
start to its return, with no lock, wait or callback that could stop it, so once a step is enabled it is taken. The
other specifications assume no fairness and claim no liveness. The x509 walk terminates too: its loop
runs `i` from 1 up to the chain length, and each iteration either ends by advancing `i` or leaves the loop.

**Mutants.** Each property of `chain_pass` is broken by a plausible bug of the code:

- `GotoErrDepthMinusOne` (`*depth = i - 1`) breaks `TypeOK`;
- `GotoErrDepthPlusOne` breaks `ViolationAtFirstDepth`;
- `ExtractCertNamesReplacing` (each certificate's names replace the accumulated ones) breaks `NamesConstrained`.

The properties of the other passing runs are broken as follows:

- `BnCtNeZeroSigned` (`w - 1` without the wrap) breaks `ZeroTests`;
- `BnSubwNoBAndNotA` (the borrow formula without its `b & ~a` term) breaks `CarryIdentity`;
- `AddPartialNoCarry` (the carry of the middle product dropped) breaks `ProductIdentity`;
- `LevelToMinimumBitsTypo` (92 bits at level 4) breaks `PolicyMonotone`;
- `CheckEeSkipTwo` (`start_idx` of 2) breaks `TypeOK`;
- `CheckCaPastEnd` (`i <= sk_X509_num(sk)`) breaks `ChainVerdict`;
- `CheckCaNoIncrement` (no `i++`) breaks `Termination`.

## 4. Findings

**Code bug: the subject scan.** `chain_subject_scan` shows a bug in `extract_names` (lines 802-804, 831-833). The altname loop leaves `i`
at `Len(altnames) + 1`. That value is then passed as `lastpos` to `X509_NAME_get_index_by_NID`, so the email scan
skips subject attributes 0 .. `Len(altnames)` + 1. When the leaf has an email SAN, the CN scan starts from the same place.
TLC's counterexample is a leaf with no SANs whose subject is `emailAddress=x@c`, under a CA that excludes email domain `c`.
The chain is accepted. The spec (§4.2) says the leaf's subject emails are constrained.

**Spec gap: the names ceiling.** `chain_names_ceiling` shows that the names ceiling (line 1170) is tested only after a CA's
names are appended, never after the leaf's (line 1134). The first `check` therefore runs over all of the leaf's names.
Design §5 says the ceilings bound the work of a call; that holds only from the second certificate on.

**Divergence: carries of 2.** `bn_carry_bits` shows that `bn_addw_addw` and `bn_subw_subw` return a carry or borrow
of 2 when both of their steps carry. On 4-bit words, `addw_addw(15, 15, 15) = <<2, 13>>` (the trace TLC prints reaches `addw_addw(2, 15, 15) = <<2, 0>>`) and `subw_subw(0, 15, 15) = <<2, 2>>`.
Design §4.6 and §8 say these outputs are 0 or 1. The results are still exact (`CarryIdentity` holds and is proved), so
the code is right and the design's description is not.

## 5. Proofs

`X509ChainProofs` proves two theorems for every set of chains, every pair of ceilings and every pair of extractors
satisfying `ExtractorAssumption` and `ChainAssumption`:

- `TypeCorrect`: `Spec => []TypeOK`;
- `ChainSound`: `Spec => []NamesConstrained`.

Neither property is inductive as it stands. Two gaps have to be closed:

- The loop body reads `chain[i + 1]`, which is a certificate only while `i < Len(chain)`.
- A `done` state says nothing about what was checked on the way.

The inductive invariant `IInv` has four parts:

- `TypeOK`;
- `PcInv`: where `i` is at each point (`i = 0` before the leaf, `1 <= i < Len(chain)` in the loop body, `i = Len(chain)` at a successful return);
- `ListsInv`: at `check`, the transient lists are the subtrees of `chain[i + 1]`;
- `WalkInv`:
  - from `nc` on, every name of `chain[1..i]` is an element of `names`;
  - those names passed the constraints of every CA in `chain[2..i]`;
  - at `names`, they also passed those of `chain[i + 1]`.

The key step is `CheckStep`. When `check` returns 1, no element of `names` violates the current subtrees (`CheckSound`), and
every earlier certificate's names are elements of `names`, so none of them violates either. `NamesStep` appends
a certificate's names and keeps the inclusion, using `ElemsConcat`. TLC checked `IInv` as an invariant of `chain_pass` before it was proved.

`X509ChainProofs` also proves `ViolationDepthCorrect`: `Spec => []ViolationAtFirstDepth`. This one also uses
`ExtractorErrorAssumption`. `IInv` shows that every walked name is in `names`. A reported violation must come from
a walked name, so the proof also needs the converse. `NamesFrom` states it: `names` is empty before the walk, and
every element of `names` is a name of some certificate of `chain[1..i]`. The inductive invariant is
`DInv == IInv /\ NamesFrom /\ ViolationAtFirstDepth`. TLC checked it on the `chain_pass` instance before it was proved.
Every step except one either keeps `names` and `i`, or appends `NamesOf(i + 1)` and moves to `i + 1`, or returns an
error that is not a violation (`QuietErr`). The exception is a failing `x509_constraints_check` (`CheckDInv`):
- `CheckFails` gives a name in `names` that violates the current subtrees;
- `NamesFrom` gives the certificate `j <= i` it came from;
- `ListsInv` says the subtrees are those of `chain[i + 1]`;
- `WalkInv` says every certificate in `chain[2..i]` passed.
So `depth = i` is the first violated CA.

`BnWordProofs` proves `CarryCorrect` (`Spec => []CarryIdentity`) and `ZeroTestsCorrect` (`Spec => []ZeroTests`)
for every word size `BN_BITS2 = 2 * BN_BITS4` and both values of `BN_LLONG`, from `BnMacrosAssumption`. The provers
cannot reason about `2^n` symbolically, so the assumption also states the relations between the macros the proofs
use, such as `BN_MASK2 = 2 * BN_TBIT - 1`, which follow from the definitions. The lemmas state the value of each
top-bit formula in terms of the sum or difference. For example, `AddCarryCorrect` says that the portable carry of
`a + b` is a bit and that carry times `2^BN_BITS2`, plus the wrapped sum, is `a + b`.

`BnProductProofs` proves `ProductCorrect` (`Spec => []ProductIdentity`) under the same assumptions, plus the
redundant macro fact `BN_MASK2l \in Nat \ {0}`.
`H = BN_MASK2l + 1` is the weight of a half word, and `H * H = 2^BN_BITS2` (`HalfFacts`). The argument for the
portable `bn_umul_hilo` goes as follows:
- `HalvesOfWord`: a word is its high half times `H` plus its low half, and both halves are below `H`;
- `HalfProduct`: a product of two halves is a word, so it never wraps;
- `ShiftLo`: shifting a middle product by `BN_BITS4` splits it at `2^BN_BITS2`, and the wrapped shift is its low half times `H`;
- `AddPartialCorrect`: adding a shifted middle product into the pair `(h, l)` with the code's carry is exact whenever the sum fits in two words;
- `HighWord`: the high word of a sum below `Base^2` is itself a word.

The other primitives follow from the earlier lemmas:
- `bn_umul_lo` and `bn_umul_hi` are the two words of that product;
- `MulwAddwCorrect` and `MulwAddwAddwCorrect` add one or two words, and the bound `a * b + c <= Base^2 - Base` rules out a carry out of the high word;
- `MulwAddtwCorrect` holds only under the precondition the caller must keep (that `c2` does not overflow), which is the hypothesis `ProductIdentity` states for it.

Division and remainder by a symbolic modulus are handled by the uniqueness of quotient and remainder (`DivModUnique`), not by SMT's `\div`.

`SslPolicyProofs` proves `PolicyMonotoneCorrect` (`Spec => []PolicyMonotone`) for every set of levels, bits and
versions. The lemmas are as follows:

- `MinimumBitsTable`: the table;
- `LevelBitsMonotone`: the level and the bits of `LevelAndMinimumBits` grow with the level;
- `DefaultCbMonotone`: one case per operation.

The inductive invariant `PolicyInv` says that `res` is -1 or the callback's answer for the state's inputs, which never change. `PolicyInvMonotone` then gives `PolicyMonotone` from `DefaultCbMonotone`.

`SslChainProofs` proves `ChainVerdictCorrect` (`Spec => []ChainVerdict`) for every stack length, level and callback.
`ChainVerdict` is not inductive: in the loop, nothing says that the certificates already passed were accepted. `IInv` adds
the following:

- `i = 0` at `start`;
- in the loop and at `done`, `StartIdx <= i` and `Verdict(k).ok` for every `k` up to `i - StartIdx + 1`;
- at `done`, `i >= Len(sk)`;
- at `fail`, the failure verdict.

`CheckCaStep` extends the prefix by one certificate. `Verdict(i - StartIdx + 2)` is `SecurityCert` of `sk[i + 1]`, which is `SkValue(i)`.

`SslChainProofs` also proves `ChainTypeCorrect` (`Spec => []TypeOK`). `TypeOK` is inductive by itself:
- `CheckEe` sets `i` to `start_idx`, which is at most 1;
- `CheckCa` increments `i` only while `i < Len(sk)`;
- `SecurityCertError` bounds `*out_error` to the three reasons and 0.

**Only model-checked.** The following are checked by TLC only:

- everything about the extractors and the syntax checkers, which are recursive functions over byte strings (the provers cannot do induction over data);
- `Termination`, which is liveness (TLAPS does not handle liveness under fairness here).

## 6. Not modelled

- **Names container.** This is memory management. The models use sequences, and a failing `names_add` is `AllocFail`.
- **Unchecked `strdup` at line 935.** This is an allocation failure the code does not treat as one. The models fail the whole call instead.
- **`x509_constraints_uri` (560-584).** It is unused.
- **The syntax hazards** (the 256-byte mailbox over-read, the backslash escape, `inet_pton` on an unterminated buffer, `strlen` at an embedded NUL) are modelled in `X509Syntax` and `X509Extract` as the code behaves. No property compares them with an independent grammar, because the design states that grammar only in prose.
- **The DH wrappers** `ssl_ctx_security_dh` and `ssl_security_dh` (236-254). They only compute `DH_security_bits` and call the callback with `SSL_SECOP_TMP_DH`, which `SecopTmpDh` covers. `ssl_ctx_security` is `ssl_security` with the context's level and callback, so it is the same operator.
- **The build without `LIBRESSL_HAS_SECURITY_LEVEL`.** In that build, `ssl_security_cert` returns 1 at once. The models take the build that has it.
- **The `#else` version of `bn_umul_hilo`** (lines 229-275) is compiled out. The `HAVE_BN_*` assembly overrides are outside the repository.
- **The constraints ceiling** (line 1154). A ceiling failure is an error return, and the runs and proofs show it is safe. Whether a valid chain may fail this way is a question of availability that the design leaves open.
