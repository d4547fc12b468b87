# A TLA+ verification of felica-oracle

felica-oracle lets the holder of a FeliCa card prove to a third party that a
genuine card answered, and what one of its blocks says. A server, the *oracle*,
holds the card's service keys (GSK, USK) and answers three JSON-RPC calls;
between them the holder's device talks to the card:

    holder            oracle                 card
      | challenge(idm, r1) ->                            C1A, node path
      | Authentication1(node path, C1A) ------------->   C1B, C2A
      | settle(idm, r1, c1b, c2a, read_spec?) ->         C2B, ecmd?
      | Authentication2(C2B) ------------------------>   AUTH2 ciphertext
      | ecmd ---------------------------------------->   encrypted block
      | (commit to ecmd and response, register with the verifier)
      | attest(idm, c1b, c2a, auth2, cm?) ->             IDi, R2, Groth16 proof

The oracle remembers nothing between the calls. After `attest` has published the
session key R2, everybody can open the encrypted block; that the block is the
card's then rests on the commitment and on the chain of transaction numbers (TN)
`AUTH2(0) -> ecmd(1) -> response(2)`.

Sources are cited relative to the repository: `service.rs` is
`src/server/src/api/service.rs`, `schedule.rs` and `oracle/mod.rs` are below
`src/server/src/oracle/`, `handler.rs` below `src/server/src/api/`.

## Inventory

| Component | Source | State it keeps | Operations | What makes it correct |
|---|---|---|---|---|
| Challenge schedule, secure messaging | `schedule.rs` | none | key derivation, C1A/C1B/C2A/C2B, command encryption, MAC check, Read response decryption | a frame opens under its own R2, opcode, TN and TID only |
| Session verification | `oracle/mod.rs` | none | `verify_auth2`, `verify_session` | parts of different sessions never verify together |
| RPC service | `service.rs`, `types.rs`, `error.rs` | none between calls; the deployed config | `challenge`, `settle`, `attest`, key RPCs | statelessness is safe: repeats, losses and mixes of calls do no harm; error codes name the fault |
| Wire layer, key cache | `handler.rs` | `pk_cache: OnceLock` | delegation, `load_cached`, warm-up | one key, no panic, whichever call fills the cache |
| Start-up, configuration | `main.rs`, `config.rs`, `params.rs` | config, key bytes | `from_env`, `ensure_present`, `load`, bind | bad provisioning fails the start-up, not a call; a restart recovers |
| Prover | `prover/src/lib.rs`, `setup.rs` | none | `prove`, `verify_attestation`, key (de)serialization | what is proved is what was verified |
| Session circuit | `prover/src/circuit.rs` | none | seven constraints over eight public inputs, DES gadgets with interpolated S-boxes | the relation of the native checks, no other witness; packing injective |
| Native DES | `prover/src/des.rs` | none | DES, 3DES, CBC, MAC | decryption undoes encryption; the standard's tables; equal to the circuit's |
| Commitment | `prover/src/commit.rs` | none | Poseidon over 31-byte limbs | one opening per digest |
| Key ceremony | `prover/src/bin/felica-setup.rs` | two key files | generate, write, round trip | a run that reports success leaves a matching pair; nothing is overwritten unasked |
| Key provisioning | `prover/src/bin/felica-keys.rs` | two key files | read records, check, ask, derive, write | what is written is one system's; both files; nothing overwritten unasked |
| Deployment | `manifests/`, `Dockerfile` | the pod | one replica, recreated; memory limit, CPU quota | at most one process; comes back; concurrent proves fit |
| End-to-end client | `examples/rpc_attest.rs`, `oracle/fixture.rs` | the session's values, one after the other | the flow above, twice, with `verify_attestation` | what it ends well with is genuine; outages between calls cost nothing |
| Holder, card, verifier | felica-rs and callers (not in the repository) | session, card session, last TN, registry | | external: modelled from how the code uses them |
| Benchmarks | `prover/benches/` | none | measurements | not modelled |

Interactions: the holder calls the oracle and the card, and every value it got
may appear, late or again, in any later call. The RPC handlers run concurrently on
the runtime's threads and share the configuration, the key bytes and the key
cache, nothing else. `attest` calls the prover in place. The process reads its
environment and the key file at start-up only.

The hard parts, each at its line in `PROJECT.json` under `hazards`: several settles
of one session; another Secret, with another node path and other keys, between two calls of a session; values of
different taps in one request; challenges that share a TID; cards whose IDms
share DES key bits; lost, repeated and late calls; racing first calls on a cold
cache; a key file replaced while it is being read; start-ups that fail half-way;
crashes with calls in flight; proves that keep a runtime worker for seconds and half
a gigabyte each; key files of which one was written and the other not; commitments and
strings beyond the order of the field; the native values a gadget takes its S-box
outputs from, beside the wires; a length that must fit one byte.

## Modules

| Module | What it is |
|---|---|
| `Schedule` | operators of `schedule.rs` and `verify_auth2` for perfect ciphers: key schedule, challenges, frames |
| `OracleService` | the handlers of `service.rs`, `verify_session`, `prove` and the circuit's relation, as operators from a request to a reply, early returns in the code's order |
| `Attestation` | the protocol: cards, holders, the oracle's three calls, the verifier's registry, redeployment |
| `AttestationGoal` | what the protocol promises, without messages |
| `HolderFlow` | `rpc_attest.rs` call by call against a server that crashes, restarts and is deployed anew |
| `OracleProcess` | the process: `main` statement by statement, the key cache, concurrent calls, crashes, restarts, provisioning |
| `Runtime` | the worker threads, the queue of calls, the memory that proves take, kills |
| `Loops` | the one form that every loop over data has, `Iterate` |
| `Des` | operators of `des.rs`: DES, 3DES, CBC and the MAC on bits, with the tables of the standard |
| `DesRounds` | `tdes_encrypt` and `tdes_decrypt` round by round |
| `Frames` | `schedule.rs` and the verification of `oracle/mod.rs` on bytes |
| `Circuit` | the constraints of `circuit.rs` and the checks `prove` makes first, on bits |
| `SessionBytes` | one session on bytes, a byte lost on the wire or wrong in the witness, judged by oracle, prover and circuit |
| `FrameLengths` | frames of every length, sealed by one MAC and opened by the other |
| `SboxPolynomial` | the elimination that gives `circuit.rs` its S-box polynomials, and the gadget's constraint |
| `PublicInputs` | packing into field elements, the wire, the client's rebuilt attestation, `verify_attestation` |
| `Commitment` | `commit.rs`: limbs and the absorption into the sponge |
| `KeyCeremony` | `felica-setup`: two files, written one after the other by runs that may fail anywhere |
| `KeyProvisioning` | `felica-keys`: the wizard line by line, two files |
| `KeyTools` | `KeyCeremony` and `KeyProvisioning` in one instance |
| `MCAttestation`, `MCPublicInputs`, `MCKeyTools` | values for the constants of the module named |
| `MCBytes` | `DesRounds`, `SessionBytes`, `FrameLengths`, `SboxPolynomial` and `Commitment` in one instance |
| `MCServing` | `Runtime` and `HolderFlow` in one instance |
| `OracleServiceProofs`, `CipherProofs` | lemmas about the operators: perfect ciphers and replies; DES, frames and circuit on bytes |
| `AttestationProofs`, `OracleProcessProofs`, `KeyToolsProofs` | theorems about the module named |
| `ServingProofs` | theorems about `Runtime` and `HolderFlow` |
| `BytesProofs` | theorems about `DesRounds`, `FrameLengths` and `SessionBytes` |
| `FieldProofs` | theorems about `PublicInputs`, `Commitment` and `SboxPolynomial`: what is computed in the field |

The composition: `Attestation` and `HolderFlow` extend `OracleService`, which extends
`Schedule`; `Attestation` implements `AttestationGoal` under the substitution named
`Goal`. `SessionBytes` extends `Frames` and `Circuit`, which extend `Des`;
`FrameLengths` extends `Frames`, `DesRounds` and
`SboxPolynomial` extend `Des`. `Des` and `Commitment` extend `Loops`. `OracleProcess`, `Runtime`,
`PublicInputs`, `KeyCeremony` and `KeyProvisioning` stand by themselves.

The instances of several modules are sums and not products: a behaviour is of one
of the parts, whose name is in `part` (`tool`), and the variables of the others stay as they are.
Each property speaks of its own part.

The seams between them: `OracleProcess` abstracts an attest request to what
`verify_session` will find in it, and `Attestation` takes the key as loaded, which is
what `OracleProcess` shows of a listening server (`VerdictNotMasked`). `Attestation`
takes ciphers as perfect and the proof as the relation; that the bytes behave like that
where it matters is shown by `DesRounds`, `SessionBytes` and `FrameLengths`, that the
proof's strings carry the relation's values by `PublicInputs`, that a commitment stands
for one opening by `Commitment`. `OracleProcess` reads a key file that
`KeyCeremony` may have left torn or of another ceremony than the verifier's.

### How state and actions correspond to the code

*Perfect ciphers.* A ciphertext is a record of its key and its plaintext; decrypting
it under another key gives `junk`, a value nobody drew. 3DES stays a bijection:
encrypting that junk under the same key gives the ciphertext back, so the checks
the code itself calls tautological (`prove`'s re-encryptions) are so in the model too. DES
ignores parity bits, so `KeyBitsOf` lets different IDms share the pair (alpha, L).
The six-byte TID is kept apart from the eight-byte R1 (`TailOf`): two challenges
may share one. A frame's opcode fixes its length.

*Attestation.* `cfg` is `AppConfig`. `challenges`, `settled` and `attested` are the
oracle's replies so far, `taps`, `auth2s` and `reads` the card's. They only
grow, so a reply may be lost, late, repeated or combined with any other. `Challenge`, `Settle` and
`Attest` are the three RPCs: they evaluate the handler's operator on
inputs drawn from those sets and record an OK reply; an error reply changes nothing.
A settle reply is recorded with the request it answers, which only properties
look at. `Redeploy` is the pod recreated from another `Secret`: node path and keys come
together, as in `FELICA_KEYS_JSON`, and the keys are generated from the nodes of the path
(`felica-keys.rs:146`), so `KeysOf` gives every list keys of its own. A card has the keys of
the list it is authenticated with. A session whose Secret has been replaced is refused, and goes
on when it is back; `tdes_encrypt` and `tdes_decrypt` give `junk` for what was made under other keys.
`card` and `lastTn` are the card: Authentication1 starts over, whatever was going on;
Authentication2 demands the C2B of its own R2; a command needs the session key,
the TID and a TN above the last. `CardReset` takes the card out of the field, and
its memory of TNs may or may not survive. Holders are honest: they present the R1
they drew and what cards and oracle have answered.

*OracleProcess.* `phase` is the statement of `main` to run next; `addr`, `bytes` and
`cache` are what `from_env`, `ProvingKeyBytes::load` and `load_cached` have left
behind. `Get`, `Deserialize`, `Set` and `Reuse` are the four steps of `load_cached`
and interleave between calls. `Reuse` is disabled where `expect` would panic.
`provision` changes at any moment. The environment is captured in `FromEnv`
because a container's environment is fixed when it starts.
`LibrarySpec` is the way the tests build `OracleImpl`: no `main`, cold cache, any
bytes, and nothing around it that changes or restarts it. `EitherSpec` starts as either.

*Runtime.* tokio starts a worker for each CPU of the container's quota; `Take` and `Finish` are
a handler's start and end, with no await in between, so the worker is kept. A call that
proves takes `ProveMemory` as long as it is on a worker, and `Kill` is the kernel's, when
the limit is exceeded, or any other. Its calls and its queue die with the process.

*HolderFlow.* `pc` is the statement of `main` in `rpc_attest.rs` that is next, `v` its
variables. Every RPC opens a connection of its own and any failure panics; `rpc` is
that. `Rerun` starts the program again. `Crash`, `ServerRestart` and `Deploy` (another
Secret or another ceremony's key) happen between any two statements. The fixture's card has one
service and the keys of that path, whatever the server has; of a C1A made under other keys it
makes junk, and answers. The replies are those of the
operators of `OracleService`.

*DES and frames.* A block is the set of the positions of its one-bits, so `xor` is the
symmetric difference and a permutation of bits an image. `DesRounds` runs the six calls of
a `tdes_encrypt` and its `tdes_decrypt` one `DoRound` at a time; `trail` keeps the halves of the
first three for the properties and proofs. `Frames` computes what `Schedule`
postulates: `pad_des`, the MAC that is folded by `encrypt_command` and unfolded by
`check_mac`, the length in one byte.

*SessionBytes.* `Authenticate`, `Settle` and `Respond` put real bytes on the wire;
`Hit` changes one byte of what the holder has, at the moment it is the last thing that
came. `VerifySession`, `Precheck` and `CheckSatisfiable` are the three implementations of one
judgement; `CheckSatisfiable` also gives the circuit a witness with one wrong byte. In
`Circuit` a gadget is given its wires and, beside them, the native values its S-box outputs are
allocated from, as `des_gadget` is; `hints` is whether the two ever part.

*SboxPolynomial.* `Pivot` and `Eliminate` are the two halves of the loop over the columns
in `interpolate`; `Allowed` is what the constraint of `sbox_gadget` lets on the wires.

*PublicInputs.* Eight bytes are a number below `Base`, and the order `Prime` of the field lies
between sixteen bytes and 32, as that of BN254 does. A hex string is a number and whether
its length is that of 32 bytes. `Receive` is the client's `to_attestation`; the
`Change...` actions alter one thing of what is to be verified. A proof is the key and
the inputs it was made for.

*Commitment.* `Absorb` is one limb, `Squeeze` the digest: what the rate was given before each
permutation, which stands for the permutation's output.

*KeyCeremony, KeyProvisioning.* A file is absent, torn (truncated when opened, filled
later) or whole. `Fail` is a kill or a failing call between any two steps. `Init` of
the first has the keys of any earlier runs. In the second, `input` grows by a line at a time
and `SamePath` says whether `OUT` ends in `.jsonl`.

Definitions marked `Faulty:` are variants of a definition with a plausible bug.
No specification uses them; they serve to see that each property notices one.

## What TLC checks

Run as `tlc -config X.cfg M`. Two workers need about two minutes for `Bytes` and less
for each of the others.

| Run | Module | Shows | Distinct states |
|---|---|---|---|
| `TwoCards.cfg` | `MCAttestation` | `CertifiedSessionIsGenuine`, `PublishedOnlyAfterSettle`, `ReadExecutedAtMostOnce`, `FirstCommandAccepted`, `RefinesGoal` | 63,405 |
| `Redeploy.cfg` | `MCAttestation` | `TypeOK`, `PresentationIsAuthentic`, `SessionBelongsToItsSecret` | 96,610 |
| `Process.cfg` | `OracleProcess` | `TypeOK`, `ServedKeysAgree`, `VerdictNotMasked`, `ExpectNeverPanics`, `RecoversOnceProvisioned`, `EveryCallAnswered` | 80,328 |
| `Serving.cfg` | `MCServing` | `MemoryFits`, `CallersAreAnswered`, `OkIsGenuine`, `OutagesAreHarmless`, `ClientEndsWell` | 10,566 |
| `Bytes.cfg` | `MCBytes` | `DecryptInverts`, `SpecVector`, `ParityIgnored`, `VerifiersAgree`, `CircuitMirrorsChecks`, `HintsFollowWires`, `OnlyTheGenuine`, `GenuineGoesThrough`, `OpensUnderItsCode`, `LengthsFit`, `GadgetIsTable`, `OneOpening` | 10,977 |
| `PublicInputs.cfg` | `MCPublicInputs` | `VerifiedWasProved`, `GenuineVerifies`, `TamperingIsNoticed` | 521,237 |
| `KeyTools.cfg` | `MCKeyTools` | `ReportedPairMatches`, `OnlyForceReplaces`, `EventuallyMatched`, `WrittenIsOneSystem`, `BothWritten`, `WizardAsksForForce` | 46,156 |
| `EcmdOnce.cfg` | `MCAttestation` | violated: `OneEcmdPerSession` | |
| `TamperedAuth2.cfg` | `OracleProcess` | violated: `TamperedAuth2IsMacMismatch` | |
| `UnboundFields.cfg` | `MCPublicInputs` | violated: `ProofBindsTheAbove` | |
| `SameOut.cfg` | `MCKeyTools` | violated: `BothWritten` | |

In words:

- `ReadExecutedAtMostOnce`: however many commands settle has issued for a session,
  the card runs one. `FirstCommandAccepted`: and it does run the first.
- `CertifiedSessionIsGenuine`: R2, IDi and TID of a certificate are of one
  authentication that this card completed. `PublishedOnlyAfterSettle`: no R2 is
  published for a session settle has not answered.
- `RefinesGoal`: sessions are opened under fresh keys, admitted, completed, read at
  most once and certified as what they are, in this order.
- `PresentationIsAuthentic`: what a recipient opens with a published R2, for a
  commitment the certificate carries, is the block the committed command asked
  for, read by the certified card.
- `SessionBelongsToItsSecret`: while the Secret a session was opened under is deployed, its values pass
  settle and attest, at any later time and also when another one has been in its place, so a lost reply can be
  asked for again. Under any other Secret settle refuses them as `C1B_MISMATCH` and attest as
  `MAC_MISMATCH`: no command ever names a slot of a list the card was not authenticated with,
  although a request does not say which list that was.
- `ServedKeysAgree`: everything one process hands out is of one ceremony.
  `VerdictNotMasked`: the error code of a server that `main` has started is about the
  request. (A library may hold bytes that are no key; see `TamperedAuth2` below.)
  `ExpectNeverPanics`: the `expect` of `load_cached` holds.
- `OkIsGenuine`: when `rpc_attest.rs` prints OK, the block is of the card in front of it and
  the proof, under the key the oracle served, commits to that command and response.
  `OutagesAreHarmless`: it fails only if it calls while the server is down, if the
  server is deployed anew under it, or if its Secret is not that of the node path it expects.
- `MemoryFits`: however many attests are sent at once, those that prove fit the
  container, because each keeps its worker. This is so for as many workers as proves
  fit: two, from the quota of two CPUs. A machine that gave the process a third would exceed
  the limit. The headroom of `backend.yaml` rests on the CPU limit beside it, which no comment
  says.
- `VerifiersAgree`: `verify_session`, with the `des` crate and the MAC unfolded, and
  `prove`, with `des.rs` and the MAC folded, accept the same sessions and give the same
  error otherwise. `CircuitMirrorsChecks`: and so does the circuit. `HintsFollowWires`:
  the native values of a gadget are those on its wires, also for a session that is refused.
- `GenuineGoesThrough`: the bytes of an honest session are accepted whatever the TN of
  AUTH2 is, with the card's challenges and IDi, and the block comes back unless the card
  refuses the command's TN. `OnlyTheGenuine`: a byte lost on the way is noticed before
  anything is proved or when the answer is read, and a witness with a wrong byte satisfies
  the circuit in nothing but the parity bits of a key.
- `OpensUnderItsCode`, `LengthsFit`: a frame of any length opens under its opcode and no
  other. A payload of no bytes is the exception, and nothing in the code seals one.
- `GadgetIsTable`: the elimination finds a pivot in every column, and on each of the 64 inputs the
  gadget's constraint allows what the S-box has, and nothing else.
- `VerifiedWasProved`: what verifies, read back from its strings, is what was
  proved, in every field; the commitment modulo the order. `GenuineVerifies`,
  `TamperingIsNoticed`: what was not altered verifies; a string that is another number, one more or
  less, or the points of another statement do not. Points stand for their statement: Groth16 lets
  anybody turn a proof into other points that prove the same.
- `OneOpening`: the bytes of command, response and randomness can be read back from a digest.
- `ReportedPairMatches`: a run of `felica-setup` that reports success has left two files of
  one ceremony. One that was killed may leave files of two, or half a file, and then no run without
  `--force` goes on; `EventuallyMatched` says that runs with it mend that.
- `WrittenIsOneSystem`, `BothWritten`, `WizardAsksForForce`: the same kind for `felica-keys`.
- `EveryCallAnswered`, `RecoversOnceProvisioned`, `CallersAreAnswered`, `ClientEndsWell`,
  `EventuallyMatched`: liveness, below.

### The four violated properties

They state what a comment or a test says and the code does not do.

1. `schedule.rs:137`: "The oracle issues exactly one `ecmd` per session". A second
   settle of the same C2A, with another target, issues a second one.
   `ReadExecutedAtMostOnce` shows why no harm comes of it: both carry TN 1.
2. `tests/common/mod.rs:20`: "the request path under test never deserializes" the
   helper's 32 zero bytes. `attest` does so before anything else and answers -32020
   to every request, while `tests/attest_flow.rs:86` expects -32010.
3. `prover/src/lib.rs:101`: "Groth16 proof binding the above", the fields of `Attestation` before it.
   `verify_attestation` looks at the proof and its strings alone; `VerifiedWasProved` is about the
   strings, which is what a caller has to read.
4. `prover/src/bin/felica-keys.rs:10`: it writes `keys.json` next to `keys.jsonl`. When `OUT`
   ends in `.jsonl` both have one path, the derived keys are replaced by the records, and the run
   reports two files.

Two more remarks of the source hold with a grain of salt, which the definitions of `PublicInputs`
show without a run of their own. `prover/src/circuit.rs:369` says that a `cm` beyond the order "would
wrap identically on both sides, never creating a second byte-string for one proof"; `attest` takes any 32
bytes, and two that differ by the order have the same public inputs, which is why `VerifiedWasProved`
speaks of the commitment modulo the order. `prover/tests/circuit_robust.rs:181` says that
`verify_attestation` rejects wrong lengths; bytes after the 32nd are ignored, so a string that is
only longer verifies, and `TamperingIsNoticed` is not about it.

### Bounds, and why they suffice

- Cards, holders: two of each in `TwoCards`, the least for mixing cards and
  sessions; one of each in `Redeploy`. Two R1 and two R2, so each session can be tapped
  again, and a certificate can draw on two taps.
- `TwoCards` gives both R1 one TID and both IDms one key; `Redeploy` has two TIDs.
  `TwoCards` uses the symmetry of holders, of the R1 and of the R2: there `TailOf` is the
  same for all of a kind, no other constant names one of them, and no property of
  that run is a liveness property.
- `MaxSettles = 2`: the second settle is the interesting one. `MaxAttests = 1`: no
  property relates two certificates. `MaxRedeploys = 2`: away from a Secret and back to it.
- `SlotLimit = 2` stands for 16 and a list of three services oversteps it.
- `TwoCards` fixes the Secret, `Redeploy` has two whose lists disagree about the
  slot of `s1`.
- `Process`: two calls racing, two keys, one crash, one change of the provisioning, which may come
  between any two statements of a start-up, after it has failed, or while calls are served; start-ups
  themselves are not bounded. The library has none of these left to spend.
- `Serving`, the client: the path it takes for granted, one with its service elsewhere and one
  without it, each with its keys; two ceremonies; two crashes and two deployments, so one of each can fall into
  either half of the flow. Two R2, one for each of its authentications. The workers: memory in units
  of a tenth of a gigabyte, as `backend.yaml` has it (500 MB a prove, 1536Mi); three calls
  that prove, one more than fit, and one that does not; one kill.
- `Bytes`, DES: the standard's vector, a challenge of the tests and all ones, three keys of which two
  differ in parity alone. Sessions: a card of the tests, and one of edge values
  (IDm, R1 all zero, IDi all ones) that reports TN 7; one byte is hit, at the ends and
  at block borders of each part, or any byte of what the witness holds beside the wire, in its parity
  bit or in its first bit. A bit changed in DES changes half of the block, so other bits tell nothing else.
- `Bytes`, frames: payloads of 0 to 24 bytes, each residue of the block length three times, and of 234
  to 258, which cross 256 bytes. S-boxes: all eight boxes and all 64 points; `Order = 257` in place
  of the order of BN254's scalar field: any prime above 64 keeps the points apart, which is all
  that the elimination needs, as `GadgetsAreTables` proves.
- `Bytes`, commitments: `Radix = 2`, `LIMB_LEN = 3`, `Modulus = 11`: a limb fits and a byte more
  does not, as 31 bytes fit and 32 do not. Three frames of 3, 4 and 3 bytes: three limbs and a third,
  every border within a limb or frame, the last limb short, a permutation in the middle, as for the 100
  bytes of the source.
- `PublicInputs`: `Base = 2`, `Prime = 5`: the order lies between `Base^2` and `Base^4`. Commitments
  below, at and above it; two sessions whose IDi and R2 are exchanged, for an ambiguous pi6.
- `KeyTools`: three ceremonies (the two in the files and a new one), three failures. The wizard: two
  records a section (the first decides), records that are good, of another
  system and not parseable; one failure, any number of runs.
- `CHECK_DEADLOCK FALSE` stands where the program ends: the protocol of `MCAttestation`
  with all challenges drawn and all bounds reached, the computations of `MCBytes`, one verification of
  `PublicInputs`, a client of `MCServing` that ended well. `Process` and `KeyTools` check deadlock.

The proofs below need none of these bounds.

### Fairness

Four modules state liveness.

`OracleProcess`: `WF(Main)`: `main` is sequential code that does
not wait for anyone. `WF(Restart)`: the Deployment keeps one replica and
recreates it (`manifests/backend.yaml`). `WF(CallStep(c))` for each call: the runtime
polls every spawned handler, and handlers hold no lock and wait for nothing. The arrival of
calls, crashes and changes of the provisioning are not fair.
`RecoversOnceProvisioned` says that once file, Secret, ConfigMap and port are right and stay
so, the process comes to listen for good, whatever earlier start-ups have read.

`Runtime`: `WF(Take(w))` and `WF(Finish(w))` for each worker: tokio polls what is ready, and a
prove is a finite computation. `WF(Restart)`: the kubelet. `CallersAreAnswered` takes
`WF(Send(c))` as its premise, for the call it is about: the client has to keep calling. Kills by
anything but memory are bounded by `MaxKills`; those by memory are not.

`HolderFlow`: `WF(Program)` and `WF(Rerun)`: the program runs on, and someone who wants an attestation
starts it again; `WF(Restart)`. Crashes and deployments are bounded and not fair. `ClientEndsWell` takes as
its premise that the node path is in the end the one the program expects.

`KeyCeremony`: `WF(Step)`: a run that is not killed goes on. `SF(Start(TRUE))`: its operator
will at some time try once more with `--force`; weak fairness would not do,
because runs without it may come in between. Failures are bounded.

`Attestation` has safety properties alone: nothing obliges a holder to go on.

## What TLAPS proves

For every value of the constants allowed by the named assumptions (R1 and R2
disjoint, junk is no challenge and does not become one when settle enciphers it again, a challenge has a TID, what does not parse is none of the values
honest parties send, lists are sequences of services with keys of their own (`KeysGoWithTheList`), bounds
are naturals; those of the other modules are named `...Type` or `...Fit`
where the constants are declared, and are stated below where they carry the argument):

| Theorem | Module | Statement |
|---|---|---|
| `TypeCorrect` | `AttestationProofs` | `Spec => []TypeOK` |
| `CertificatesGenuine` | | `Spec => []CertifiedSessionIsGenuine` |
| `PublicationFollowsSettle` | | `Spec => []PublishedOnlyAfterSettle` |
| `ReadOnce` | | `Spec => []ReadExecutedAtMostOnce` |
| `FirstCommand` | | `Spec => []FirstCommandAccepted` |
| `PresentationsAuthentic` | | `Spec => []PresentationIsAuthentic` |
| `SessionsBelong` | | `Spec => []SessionBelongsToItsSecret` |
| `Refinement` | | `Spec => RefinesGoal` |
| `TypeCorrect` | `OracleProcessProofs` | `EitherSpec \/ Spec \/ LibrarySpec => []TypeOK` |
| `OneCeremonyServed` | | `EitherSpec \/ Spec \/ LibrarySpec => []ServedKeysAgree` |
| `ExpectIsSafe` | | `EitherSpec \/ Spec \/ LibrarySpec => []ExpectNeverPanics` |
| `VerdictsUnmasked` | | `Spec => []VerdictNotMasked` |
| `TypeCorrect` | `ServingProofs` | `Spec => []TypeOK` |
| `ProvesFit` | | memory for a prove on each worker implies `Spec => []MemoryFits` |
| `EndingWellIsGenuine` | | `FlowSpec => []OkIsGenuine` |
| `OutagesDoNoHarm` | | `FlowSpec => []OutagesAreHarmless` |
| `TypeCorrect` | `BytesProofs` | `Spec => []TypeOK` |
| `DecryptionInverts` | | `Spec => []DecryptInverts` |
| `ParityIsIgnored` | | `Spec => []ParityIgnored` |
| `FramesOpen` | | `FrameSpec => []OpensUnderItsCode` |
| `LengthsAlwaysFit` | | `FrameSpec => []LengthsFit` |
| `TheVerifiersAgree` | | `SessionSpec => []VerifiersAgree` |
| `HintsAlwaysFollow` | | `SessionSpec => []HintsFollowWires` |
| `TheCircuitMirrors` | | `SessionSpec => []CircuitMirrorsChecks` |
| `SatisfiedBinds` | | a witness that satisfies the circuit publishes what its own keys decrypt |
| `ThePublishedIsBound` | | `SessionSpec =>` no witness of a session satisfies the circuit with other R1, R2 or IDi than `prove`'s |
| `ParityStaysUnbound` | | `SessionSpec =>` no parity bit of either key matters to the circuit |
| `GenuineSessionsGoThrough` | | `SessionSpec => []GenuineGoesThrough` |
| `VerifiedSessionsWereProved` | `FieldProofs` | `Spec => []VerifiedWasProved` |
| `GenuineAttestationsVerify` | | `Spec => []GenuineVerifies` |
| `TamperedAttestationsFail` | | `Spec => []TamperingIsNoticed` |
| `DigestsOpenOnce` | | `CommitSpec => []OneOpening` |
| `GadgetsAreTables` | | `SboxSpec => []GadgetIsTable` |
| `TypeCorrect` | `KeyToolsProofs` | `Spec => []TypeOK` |
| `ReportedPairsMatch` | | `Spec => []ReportedPairMatches` |
| `KeysAreKept` | | `Spec => OnlyForceReplaces` |
| `WizardWritesOneSystem` | | `ToolsSpec => []WrittenIsOneSystem` |
| `WizardWritesBoth` | | two paths imply `ToolsSpec => []BothWritten` |
| `WizardKeepsFiles` | | two paths imply `ToolsSpec => WizardAsksForForce` |

*Protocol.* `OracleServiceProofs` says once what a cipher gives (`DecryptType`,
`OpensForOneCard`, `AnswerOpens`) and what an OK reply implies (`SettleOK`,
`AttestOK`), so that the rest need not expand handlers. The properties are not
inductive: that a certificate is of one session depends on where each of
its values came from. `Inv` follows them: a challenge reply holds its
holder's IDm and R1 (`ChallengesMatch`); C1B and C2A of a tap hold that tap's R1 and R2
under the card's key (`TapsSealed`), no two taps share an R2 (`TapsDistinct`); a settle
reply answers the C2A of a tap (`SettledAnswers`); a card in a session is in a tap
(`CardsInTaps`); an AUTH2 comes from a tap that settle has answered
(`Auth2sFromTaps`). `ReadsCounted` is the TN chain: while the card is in a session
that has executed its Read, its last TN is above `ECMD_TN`. The step to notice is
`CardReset`, which may wipe the TNs: the part survives because the session's key
goes with it. `Refinement` maps each action to a step of the goal or a stutter, from
`Inv` before and after. `ReadsInvariance` adds two parts over `Inv`: a command names the block and slot
asked for (`SettledNames`), and a response is of the one execution in a tap, of the block commanded
(`ReadsFromTaps`); with the certificate's tap having the same R2, and so being the same, they give
`PresentationsAuthentic`. `SessionsBelong` needs `Inv` alone: an AUTH2 under a tap's R2 is that tap's, and the
C1B and C2A of a tap are made with keys that only its own Secret has.

*Process.* `Inv` says that the cache, each key on its way to it and each answer
agree with the bytes read at start-up, and that they exist only while the process is
at or past the statement that makes them. `Warmed`, for the server alone, says that nobody listens on a
cold cache, so that no call takes the filling path.

`Inv` of the protocol was checked with TLC on the constants of `TwoCards` before it
was proved.

*Client.* `FlowInv` gives the client's variables at each of its statements, as terms of the
challenge and of the card's present R2: what C1B, C2A, AUTH2, the command and the response are
(`SessionHeld`, `AnswersHeld`), and of which session and key the proof is (`ProofHeld`). A C1A of
another Secret makes the card answer junk, so a client that has got past settle got it from the one its
card belongs to (`SettleRefuses`). The lemmas `SettleReply` and `AttestReply` evaluate the handlers on
those terms: they answer OK exactly under that Secret (`Expected`). What remains is that a
statement that fails does so because the server is down, was deployed anew, or has another Secret.
`OutagesAreHarmless` is a part of the invariant: nothing else says why a run failed.

*Memory.* A worker runs one call at a time (`OneEach`), so the calls that prove are no more than the
workers. The theorem's premise is `IdleMemory + ProveMemory * |Worker| <= MemoryLimit`.

*Loops on data.* Every loop of `des.rs`, `schedule.rs`, `circuit.rs` and `commit.rs` over data is an
`Iterate` of `Loops`. The lemma `Iterates` of `CipherProofs` says that it takes a sequence of values and yields
the last; its proof is by induction on the number of turns, over the set of those up to which there is such a
sequence (`Inductive`). After it an induction is one over the positions in that sequence
(`InductiveTo`), never over the data, so that no operator has to be a parameter. This gives, for all
bytes, keys and lengths: DES and 3DES undo themselves (`DesInverts`, `TdesInverts`), CBC opens what it sealed
(`CbcInverts`), folding and unfolding a MAC over any number of blocks meet (`FoldUndone`,
`MacAgrees`), a frame opens under its own code only (`FrameOpens`), and a gadget on the wires of a block
and a key puts out the wires of the native block, with every S-box constraint met (`GadgetIsNative`,
`ConstraintsAreChecks`).

*DES round by round.* For every block and every two keys. A round is undone by the same round on the
exchanged halves (`xor` twice is nothing, whatever the round function is), and FP and IP cancel
between two calls and leave just that exchange. So the last three calls walk back through the
halves of the first three: the invariant says that `trail` holds the rounds of the first three
calls (`Trailed`) and that the later halves are those of the trail, exchanged and backwards
(`Retraced`). Of the tables it uses that IP is a permutation (`IPPermutes`), the lengths of IP, P and PC2
(`TableLengths`) and that PC1 leaves the parity bits out (`PC1SkipsParity`); TLC evaluates these
assumptions.

*Frames.* `FrameInv` says that what is sealed is the frame of the payload, and what was opened its
decryption; `FrameOpens` does the rest. The codes are bytes and the lengths naturals (`FrameType`).

*Sessions.* `SessionInv`: once the oracle has judged, nothing changes the wire, and each verdict is that
of the wire as it is. So `VerifiersAgree` becomes a statement about any bytes at all: both
verifiers are brought to one form (`VerdictOfServer`, `VerdictOfProver`), where `prove`'s re-encryptions drop
out by `TdesInverts` and the two MAC checks meet by `LastBlock`. `ConstraintsAreChecks` brings the circuit
to that form too, for any witness; with the values `prove` recovers it gives `CircuitMirrorsChecks`, and
`SatisfiedBinds` for a witness somebody else made. `ThePublishedIsBound` compares such a witness with that of `prove`: if it has the session's ciphertexts and its
keys are `prove`'s up to parity (`OfTheSession`), its R1, R2 and IDi are `prove`'s too, all bytes of them.
`ParityStaysUnbound` is the other direction: with those values it satisfies the circuit when `prove` accepts,
whichever parity bits of either key are changed. Both rest on what PC1 leaves out: keys that are the
same up to parity have the same round keys and encipher alike (`SameRounds`, `SameCipher`). `HonestInv` follows the parts of the wire while no byte
the verifiers read is hit: they are the card's answers, the oracle's command and the card's response.
`MessageOpens` takes such a message apart again at every length it has, which gives
`GenuineGoesThrough`. The cards, keys and blocks are any (`SessionType`), the TN of AUTH2 too.

*Packing.* For every width of the fields and every order that sixteen bytes fit below: a number
below the square of `Base` is its quotient and its remainder, so that what was packed is unpacked;
and what a proof verifies for is what some issued proof was made of. For the attestation in hand,
`HeldOfSource` keeps what it was rebuilt from and what was changed since: a changed number, count or
point is one the equation of the verifier is not about.

*Commitment.* For every base of the bytes, every length of limbs and frames, and every order above
the greatest limb (`SizesType`, `LimbsFit`; that is what the source's comment on `LIMB_LEN` claims
for 31 bytes). A limb is at most that of the greatest bytes, so it is not reduced (`NotReduced`),
and its bytes are read off it again (`ByteOf`); both are inductions over the turns of the loop that
makes it. `CommitInv` says that the limbs the sponge has taken are the first of the preimage's, each
where the rate was at its turn, and that the others are still to come. So the digest gives back
every limb, each limb its bytes, and no byte is left out.

*S-box polynomials.* For every prime order above 64 (`OrderIsPrime`; the source's field is arkworks'
`Fr` of BN254, whose order is a prime of 254 bits) and the eight tables. `Congruent` is equality
modulo the order; that an element that is not zero has an inverse (`Inverses`, `InverseOf`) follows
from primality: the least positive combination of the element and the order divides both. A row of
the system says something of a list of coefficients when its sum with them is zero (`Vanishes`); a
row of the initial system says that Horner's scheme at its point has the value of the table there
(`SystemSays`). `SboxInv` is inductive: the columns that are done are unit columns, the pivot that
was brought up is one, and what all rows are zero on, the system of the box was zero on (`Solves`):
elimination never brings a solution in. That is the direction both parts of `GadgetIsTable` need. If
a column had no pivot, the columns before it would express it (`KernelVanishes`), which is a
polynomial of degree 63 with the leading entry -1 and 64 zeros; `ManyRoots`, division by one zero
after the other, says that such a polynomial is zero (`PivotExists`). At the end the same list is
the polynomial that `eval_poly` evaluates, so its values are those of the table
(`PolynomialIsTable`), and as the table's values are below the order no other output is allowed. The
proofs speak of the degree as `deg`, and of 63 and 64 only where they meet the actions (`Literals`).

*Key tools.* In `felica-setup` a run that is about to write the second file holds the keys of the first one,
and one that is filling a file has torn it itself (`Running`), for any number of failures. In `felica-keys`
the sections read are whole and of one system from the statement on that has checked them
(`SectionsRead`), and so is all that any run ever wrote. `FilesFollow` relates the two files to the run that
is writing them, and holds if they have two paths: `BothWritten` is false without (`SameOut`).

The type invariants of `DesRounds`, `KeyCeremony` and `Runtime` are proved and not part of a run: the
proofs leave nothing for TLC to add. `SatisfiedBinds`, `ThePublishedIsBound` and `ParityStaysUnbound` are not
part of a run either: they are what a proof can say of `OnlyTheGenuine`, below.

*Model-checked only.*

- The liveness properties `RecoversOnceProvisioned`, `EveryCallAnswered`, `CallersAreAnswered`,
  `ClientEndsWell` and `EventuallyMatched`: temporal logic with fairness is out of this prover's reach.
- `SpecVector`: the value of DES on one block, a computation that TLC does and an SMT solver does not.
- `OnlyTheGenuine`: that a flipped byte is noticed need not be so for all keys and blocks: a MAC has
  eight bytes, and different payloads may share one. Nor need two keys that differ in more than parity
  encrypt the two challenges differently. What holds for all is proved as `ThePublishedIsBound` and
  `ParityStaysUnbound`.

## Not modelled, and why

- Groth16 and the constraint system of arkworks: a proof stands for the key and the inputs it was made
  for, a constraint is the equation it states. Points of the curve: they are the proof's or
  garbage. The scalar field of BN254 is a small prime; what depends on its order is checked on both
  sides of it.
- Poseidon's permutation and its constants: arkworks', taken as perfect.
- The `des` crate: modelled external by `Des`, whose `SpecVector` fixes it by the standard's vector.
- `sbox_mapped` of `des.rs`: nothing calls it; it copies the circuit's `mapped_table`, which is modelled.
- The derivation of GSK and USK from the node keys: felica-rs, not in the repository.
- `attested_at` in the service (no check reads it; it is in `PublicInputs`), and the `INTERNAL` reply of a
  clock before 1970; SF1, SF2 and the block count, which no check reads; `ping`; logging.
- The `Malformed` branches behind fixed-length input, which cannot be reached.
- Encoding and the round trip in `felica-setup`: they change no file and succeed for the keys just drawn.
- Probes, which open a TCP connection and read nothing; ingress; the build of the image.
- Benchmarks; the fixture's fixed values, which are model values.

## Plan

Done: every component of the inventory but the benchmarks (of the deployment the parts that bear on
the process), every invariant and action property of the runs that a proof can reach, and the refinement.
What is left to TLC is listed above, with the reason for each.

When the code changes: a new check or a new error branch is a disjunct of the action it belongs to and
a case of the lemma that evaluates its handler (`SettleReply`, `AttestReply`, `VerdictOfServer`,
`VerdictOfProver`); a new constraint is a field of `Constraints` and a line of `ConstraintsAreChecks`; another
layout of the commitment is another set of lengths, which the proofs do not depend on.
