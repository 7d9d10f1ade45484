# gpa-verify: specification, model checking and proofs

`gpa-verify` is an offline verifier: it takes one file (an evidence ZIP, a
sealed PDF, an unsealed copy) and says VERIFIED, FAILED, INTEGRITY ONLY or NOT
VERIFIABLE, with an exit code scripts rely on. It keeps nothing between runs
and has no threads. What makes it hard is not concurrency but *composition*:
some thirty checks, each of which compares two or three parts of a package,
have to add up to one statement about all of it, for packages that were
re-packed, cut, mixed and edited before they arrive, and with exceptions that
may leave any check half-way. These modules state what the verdicts promise and
show that the checks, in the order and with the early returns of the code, keep
the promise.

## Inventory of the system

| Part | Source (`src/src/gpa_verify/`) | State it keeps during a run | Operations | Correct when |
|---|---|---|---|---|
| Evidence package verifier | `core.py` 177-347, 354-545, 2189-2624 | `report.checks` (name, passed, skipped, informational), `report.summary` | `verify_evidence_zip`: open, structure, manifest, fourteen layers in a fixed order, verdict, summary | no verdict it does not deserve; sealed and not-sealed lists true; no intact package refused |
| Chain integrity | `core.py` 552-636 | position in the list of entries, failures | parse, walk, compare the head | a passing chain is a piece of the service's log |
| Token check (Layer 4) | `core.py` 643-955, `tsp_verify.py` 116-406 | `TokenInfo` | parse CMS, compare imprint, verify signature, EKU, validity | passes only for a token over these bytes |
| Trust chain | `trust.py`, `tsp_verify.py` 409-497 | the chain so far, the pool | `build_chain`, `check_trust_root`, `extra_roots` | ends in a pinned or supplied root, valid at the stamp's time |
| Trusted Lists | `core.py` 1645-1826, `tsp_verify.py` 505-653 | services and their status histories | `parse_tsl_qtst`, `status_at`, `check_tsl` | "qualified" only as the list says, at the time of the stamp |
| OTS receipt, Bitcoin node | `core.py` 1007-1294 | attestations found so far | walk the receipt, ask the node | a contradicted attestation fails |
| Anchor inclusion and witness | `core.py` 1443-1573, 1880-2132 | cursor on the witness, node on the audit path | `merkle_root_from_path`, `check_anchor_inclusion`, `check_anchor_witness` | accepts exactly the path of the leaf at the index |
| Forensic Browser packages | `forensic_browser.py` 184-660 | report | pages, files, TS metadata against the payload | as for evidence packages |
| Sealed PDF | `forensic_browser.py` 665-1731 | revisions after the seal, allowed objects | find signatures, check byte range, classify every later change, attachments | nothing a reader sees changed after the seal |
| Plain copies, reports, media | `forensic_browser.py` 1772-2224 | report | compare with the original | never VERIFIED by themselves |
| PDF parser | `pdfmini.py` | xref entries, revisions, offsets visited | `_load_xref`, `_read_xref_table`, `_read_xref_stream`, `get` | ends; later sections win |
| QR decoder | `qrdecode.py` | none | decode one image | a wrong codeword is refused |
| Dispatch and CLI | `dispatch.py`, `cli.py` | kind, report | `detect_kind`, `_route`, `verify_bytes`, `exit_code` | always an exit code, 0 only for VERIFIED |

How they interact: the CLI calls `verify_bytes`, which detects the kind, opens
the context of the operator's extra roots (`trust.extra_roots`, the one piece
of module state), routes to one verifier and catches whatever it raises. A
verifier calls its layers in sequence; each reads members of the package and
returns a `CheckResult`; two of them (`anchor_inclusion`, `sealed_identity`)
take the result of an earlier layer. The verdict, the summary and the exit code
are computed from the list of results.

What is hard: the interplay of layers over packages nobody wrote a test for;
skips that are right one by one and wrong together; an exception after some
layers have already failed; facts reported from members another layer was
supposed to compare; loops with an off-by-one at either end. `PROJECT.json`
lists these hazards at their lines.

## Modules

| Module | Models |
|---|---|
| `EvidenceBundle` | an evidence package, and every layer of `core.py` as an operator over it |
| `EvidenceSeal` | what a package deserves, said without the layers |
| `SealVerdict` | the abstract promise: a package is judged once, with a verdict it deserves |
| `EvidenceZip` | the run: holder's changes, the layers in order, exceptions, summary, exit code |
| `EvidenceZipProofs` | theorems about `EvidenceZip` |
| `ForensicZip` | a Forensic Browser package and each check of `verify_fb_zip` as an operator over it |
| `SealedPdf` | a sealed PDF with its signatures, revisions and attachments, and each check of `verify_sealed_pdf` |
| `Routes` | any file from `detect_kind` to the exit code: dispatch, the verifiers step by step and their calls of each other |
| `RoutesProofs` | theorems about `Routes` |
| `HashChain` | `check_chain_integrity`, entry by entry |
| `HashChainProofs` | theorems about `HashChain` |
| `PostSeal` | `_analyze_post_seal`: what may follow the sealed byte range of a PDF |
| `PostSealProofs` | theorems about `PostSeal` |
| `TrustChain` | `extra_roots`, `_anchors`, `build_chain`, `check_trust_root` |
| `Extrema`, `TrustChainProofs` | lemmas on minima and maxima, theorems about `TrustChain` |
| `TokenChecks` | `verify_token`, `parse_tsl_qtst`, `status_at`, `check_tsl`, `token_checks` |
| `TokenChecksProofs` | theorems about `TokenChecks` |
| `AuditPath` | `merkle_root_from_path`, one step per element and per shift |
| `Anchor` | `check_anchor_canonical_hash`, `check_ots_receipt`, `_bitcoin_verify_via_node` with a node that changes, `check_anchor_inclusion` |
| `AnchorProofs` | theorems about `Anchor` and `AuditPath` |
| `MCEvidenceZip`, `MCHashChain`, `MCPostSeal`, `MCTrustChain`, `MCRoutes`, `MCTokenChecks`, `MCAnchor` | instances for TLC |

`Routes` composes `ForensicZip` and `SealedPdf` (EXTENDS) and is itself the
composition of the verifiers: a copy, a report or a media archive is verified
by verifying its original first. `Anchor` composes `AuditPath`, whose steps are
among its own, with the Bitcoin node. Where a component has a module of its own
and is also used by another, the user takes its outcome: `Routes` takes the
verdict of `EvidenceZip` and the outcome of `PostSeal`, `TokenChecks` and
`TrustChain` (a token is good, its TSA is under a root, a list grants it), and
`EvidenceBundle` the outcome of the last two and of `Anchor`.

### EvidenceBundle, EvidenceSeal, EvidenceZip

*Data.* Comparing SHA-256 digests is all the layers do with most bytes, so the
bytes of a member are abstracted to the **version** of the package they come
from: `zip[p]` is a version, `Null` (missing) or `Corrupt` (listed, unreadable:
`zipfile` raises). `Sha(p, v)` is injective. A version is a whole proof as
someone wrote it: `Stamped` versions carry a token of a TSA under a pinned
root, `SelfStamped` ones a token of any other TSA; `Bound[v]` are the members
whose digests the payload of `v` lists; versions nobody issued (`x` in the
instance) are edited or self-made packages. `proof.json` and `manifest.json` are
records of the fields the layers read, so they can be edited field by field.
A token file is more than one version: `Stamps[v]` is the payload its signature
is over, `Signer[v]` the certificate that made it, and `Certs[v]` the unsigned set
of certificates it carries, to which anyone may add and from which anyone may
take. A package has two Trusted Lists (`timestamp/tsl/*.xml`), each a set of
services with certificate, type and status, or one that does not parse.

*Actions.* `Hold` is the time between issue and verification: members are
replaced by those of another version, removed or damaged, alone or in groups;
fields of the two documents are changed; `manifest.files` is recomputed
(`Relist`, as often as one likes: "which anyone can recompute"). It is no code
of the repository, and mapped as external. `Start`, `OpenZip`, the fourteen
layer actions, `Summarise`, `Return`, `Abort` and `Exit` are the code, in its
order: each layer action reads its members first (`...Reads`; a `Corrupt` one
raises, and only then) and appends one result. `check_tsa_trust_root` is
nondeterministic where the greedy chain building of `tsp_verify.build_chain` may
be diverted by other certificates of the package.

*Runs.* `breadth`: three issued packages (with timestamp and anchor; with
timestamp, in file-digest mode; without timestamp), every command line, every
single change to any one member or field. `depth`: two changes at a time, over
the groups of members a mix-up has to exchange together to get past the
pairwise comparisons; one of the groups is the whole sealed part. One version is a token of
the first package with a certificate of another TSA put into it in place of its
issuer's, together with a list that does not parse; one list withdraws what
another grants, one grants the other TSA's certificate. One change
shows each layer, two are what it takes to make two layers agree with each
other about the wrong thing, and the group that exchanges everything stands for
the longer sequences. Larger bounds add versions, which the layers only compare
for equality.

*Properties.* `ExitZeroMeansSealed`, `SealedListSound`, `InventoryComplete`,
`QualifiedMeansListed` say what a reader of the report may conclude;
`IntactVerifies` that no intact package is refused; `FailureReachesExit` and
`AlwaysAnswers` that no path through early returns and handlers loses a failure
or the answer; `KeepsPromise` that all of it implements `SealVerdict`.
`QualifiedMeansListed` is deliberately no stronger than the code:
`check_tsl_qualified` (`core.py:1779-1792`) accepts a match on any certificate of
the token file in any list the package ships, so "qualified" means that some
certificate the token carries is granted as TSA/QTST in some bundled list, not
that the signer's is. What ties the result to a genuine stamp is the other
layers: without `--trust-root` the stamp is a pinned TSA's. The run
`witness` shows a disagreement between a comment and the code (see Findings).

*Fairness.* Weak fairness of `Run`, the steps of the verifier itself: it is a
sequential Python program and a step of it is always possible until it
returns. Nothing is assumed of the holder, who need never start a
verification.

### HashChain

The service's log is built entry by entry with the hash of the code
(`prev_hash|event_type|proof_id|data_hash`, a missing `prev_hash` hashed as the
empty string), some piece of it is exported with its head, and the two files
are edited: lines changed field by field, hashes recomputed, dropped, swapped,
re-linked, the head replaced or removed. `Parse`, `WalkEntry` and `CheckHead`
are the code: all lines are parsed before any is checked, the loop never stops
early, and the head is optional. `SuffixOfLog` says what a passing chain is
worth: trust its last entry (the anchor does), and all of it is the log's.
Three entries over two contents are enough for a chain to be cut at both ends
and have an inner entry; two edits for one to repair the link the other broke.

### PostSeal

*State.* `revisions` are the documents the parser resolves after each
incremental update, object number to object; `revisions[1]` is the sealed one,
the last is what a reader sees. Objects are records by kind, with the entries
the rules look at; a *mark* stands for everything in an object no rule looks
into and is only compared. What the parser reports about the file's own
structure (objects no xref lists, an object listed twice, duplicate keys,
a changed generation, ...) is a set of `oddities`.

*Actions.* Writers are external: long-term validation software adds
time-stamps, adds a DSS or renews it the way `forensic_browser.py:875`
describes (pyHanko's `ltaupdate` leaves superseded DSS objects behind), other
software writes any object of `Rewrites`, in a revision of its own or together
with what the last one wrote, spoils the structure or appends bytes. `Analyze`
is the code: structure, DSS of the final document and of the revisions between,
later signatures, and `_classify_change` on every object that differs.

*Properties.* `AcceptedShowsSealed` compares what a reader sees (`View`: pages,
contents, visible annotations and fields with their appearances, catalog, form
and document information), which no rule of the code mentions.
`RenewalKeepsVerdict` is an action property: a legitimate renewal never costs
an accepted document its verdict, up to the code's limit on revisions. Its
hypothesis `Sound` came out of the proof, and both of its halves are needed. The
check looks at the DSS only once something follows the seal, so a document
sealed with a DSS of unusual keys passes and its first time-stamp fails it. And
`later_sig_nums` (`forensic_browser.py:895`) keeps the number of every object
that was a signature in any later revision: a sealed page that one revision
overwrites with a signature and the next puts back equals the sealed page and
passes, until a time-stamp annotates it (three revisions after the seal, more
than the limit of the run; TLC finds it with `MaxRevisions = 3`). Neither is
what long-term validation software writes.

*Run.* `post_seal` checks these two properties (the types are proved, see
below): three sealed documents (no form; inline form and a DSS;
indirect form with a field on no page), up to four revisions after the seal, one
past the limit of the run (`MAX_REVISIONS_AFTER_SEAL` is 2), and two foreign
writes, since it takes one write to prepare a reference and another to abuse it,
and since what a renewal leaves behind only piles up over several.

*Assumed* (`SealAssumption`): a sealed document is well formed, and the
signature fields it has are invisible, as the service writes them. *Left out*:
an indirect `/Annots` or `/Fields` array, a direct (inline) DSS and a trailer
that points at another `/Info`; all three are further alternatives of rules
that are modelled.

### TrustChain

*State.* `extra_roots` is the context variable of `trust.py`, `tokens` what
each open block resets it to, `granted` (auxiliary) what each was given. The
rest is one call of `check_trust_root`: its arguments, the chain so far and the
result. A certificate is a record of names, keys, dates and the extensions the
code reads; `directly_issued_by` is name and key, since a signature verifies
with exactly the key that made it.

*Actions.* `EnterRoots`, `LeaveRoots` (at any point: an exception leaves the
block too), `check_trust_root` (any signer, any two certificates shipped with
the file, any time), `ExtendChain` and `EndChain` (one round of `build_chain`:
the first certificate of the pool that fits is taken and never given up),
`Judge`. A call without a signer certificate returns at once and is left out.
`Longer` names the pairs of subjects one of which begins with the other: the
code tells the errors of the certificates up to the anchor from the others by
`startswith`.

*Properties.* `PassMeansPath`: a pass has a certification path in the sense of
RFC 5280, defined without the algorithm. `PathFound` is the other direction: the
greedy search finds a path if the certificates at hand hold one. Its hypotheses
are what the code itself gives up on, and each is needed: two certificates of
one name and key (`Unambiguous`; the first decides, by design); a path that goes
through a root, or through a certificate that names itself as its issuer, such
as the old key's certificate of the new one (`Straight`; the check stops at the
first root, `build_chain` at the first self-issued certificate, so a root given
below another and a key rollover end the search early); an expired certificate
past the root whose name begins with one before it (`Confused`; line 349 of
`trust.py` says "errors past it are irrelevant", and tells them apart by how
they begin).
`RootsOfThisRun`: no root outlives the block it was granted for. `ChainEnds`:
circles of certificates do not keep the check from ending. A root the operator
passes with `--trust-root` although it is pinned counts as granted, so the rule
that only SK's time-stamping CAs may issue does not apply to it
(`trust.py:249-256`, the later entry of one key is kept). `PathFound` is what
would notice the wrong one of the two being kept: its paths may end at a granted
root under no such rule. The path definition
follows `src/README.md`, "under a root you supply, any CA chain to it is
accepted".

*Run.* `trust`: two pinned roots, the bundled TSA CA, eleven signers; shipped
with the file any one of eleven certificates (wrong key under the right name,
shorter-lived re-issue, two CAs in a circle, a CA below one with pathLen 0, the
new key of a root, a CA with a pinned key under another root, ...), or two of
which one may issue the other, or two of one subject in both orders (only these
compete for a link). Two root files (a foreign root with a CA below a pinned
one, a pinned root), up to two nested blocks of extra roots, entered and left in
any order before the one check and left at any point of it. Two shipped
certificates are enough for a circle and for a decoy beside the right one;
`PathFound` looks for paths of up to three certificates.

*Fairness.* Weak fairness of `BuildChain` and of `Judge`: sequential code that
can always go on. None of the operator's blocks and calls.

### ForensicZip, SealedPdf, Routes

*Data.* As in `EvidenceBundle`, bytes are those of a version. A package is its
members and its `manifest.json` as a record; a PDF is a sequence of revisions
(the body, an attachment, validation data, a signature, any other edit), and a
signature states what it was made over, so that the imprint of a genuine
time-stamp is the sequence of the revisions before it. A copy carries what its
QR code and its text say of the original. `PackageSealed` and `DocumentSealed`
say what a package and a document are worth without mentioning a check.

An attachment is a file (`p` of version `v`), what it is called (`Labels`: name,
filename, description, whether the name goes on with an extension, whether the
name tree has it in front) and the revision it lies in. The label says nothing
of the file: whoever attaches it chooses it. `_match_attachment` is the code's
(`forensic_browser.py:1373-1386`): a listed path is the first attachment
described by it, else the first named so, else the first whose name continues
it with "."; one attachment may be two paths', which digests allow if the files
are the same (`Twin`), and is then kept under the later one (`Order`, `by_path`).
Three simplifications: a label is compared as the path it spells (with "/" or
"_", a description up to its first space), so a name that spells no path is
`Null`; an attachment named `manifest.json` or `proof.json` that is another file
is read as none, as the code does unless its content is such a document; and
what belongs to a body is labelled as the app labels it, so that other labels
come in as attachments of their own, of a body that leaves them out.

*Actions.* `Dispatch` is `detect_kind` and `_route`; then one action for every
check of `verify_fb_zip` and of `verify_sealed_pdf` with the early returns, a
loop over the signatures (`NextSignature`), the outputs (`CopyIdentification`,
`CopyBinding`, `ReportIntegrity`, `ReportBinding`, `SaasReport`,
`MediaCompanion`), the way back from the original (`EndVerifier`), `Finish`,
`Raised` (the handler of `verify_bytes`) and `Exit`. `FirstStep` names the
action a kind begins with; `inner` says that a verifier works for another.

*Properties.* `PackageVerifiedMeansSealed`, `PdfVerifiedMeansSealed`,
`AttachmentsAsListed`, `CopyVerifiedMeansNamed`, `ReportVerifiedMeansShipped`
and `UnsealedNeedsSealed` say what a reader may conclude from exit code 0 for
each kind. `AttachmentsAsListed` is about content, since names prove nothing:
every listed path has an attachment that claims to be it, by description, name
or filename, and has the listed digest, and nothing else is attached but the
manifest. `OwnSealDecides` is about the kind itself, which the others take as
`detect_kind` gives it: a signed document that also carries the marks of a copy
or a report, given with a sealed original, is not verified for that original,
nor a package of this app because its manifest calls it another.
`QualifiedMeansAll` says what "qualified" means for a document with several
time-stamps; `IntactAccepted` that nothing the app writes, renewed as
often as one likes, is refused; `FailureReachesExit` that no failed check is
lost. Those about PDFs are stated for runs in which a time-stamp was verified
(`TimestampVerified`), because of the third finding below.

*Runs.* `routes`: about 15 000 command lines. Packages: five versions (two
issued, one of another format, one stamped by a TSA outside the pinned roots,
one not stamped), every member and the groups that belong together exchanged,
removed or damaged, listed anew or not, every flag and field of the manifest.
Documents: up to four revisions, with every token, over every body, since it
takes a seal, a renewal, and something before and after it. For the attachments,
sealed documents of a body with two listed paths of the same bytes, to which one
or two files are attached under every kind of label: described rightly and named
wrongly, the reverse, with an extension, in front of the right one, one for both
paths. One file (`Garbled`) makes `list_attachments` raise. For the kinds, signed
documents that are not sealed with the marks of a copy or a report, and the
sealed original those marks speak of. Outputs: what QR
code and text may say, alike, different, or one of them alone, with every
original that is whole, damaged, of another kind or missing. `unstamped` and `report_verdict`
show the two disagreements (see Findings).

*Fairness.* Weak fairness of `Next`: all of it is sequential code of the
verifier.

### TokenChecks

*Data.* A token is what the steps of `verify_token` look at: content, signer
infos, the identifier of the signer, certificates, signed attributes, and a
signature, which is by a key over attributes. `HonestAssumption` is what a TSA
promises: a signature by an honest key, wherever it is found, is over a stamp
it issued. So tokens may be put together from parts of any others. A Trusted
List is a sequence of services with certificates and a status history in no
particular order.

*Actions.* `Load`, `Content`, `Signer`, `Attributes`, `Signature`, `Profile`
collect errors and return early where the code does (a malformed attribute
raises, and `verify_token` makes an error of it); `TokenReport` is the first
half of `token_checks`; `ParseLists` and the search over lists, services and
certificates (`NextList`, `NextService`, `NextCert`, `Found`, `NotListed`) are
`check_tsl`.

*Properties.* `PassMeansStamped`; `PassMeansGranted` and `GrantedPasses`, both
stated over the history as a whole (`InForceAt`: started by then, and not
replaced by then) and not over the way `status_at` finds the entry.

*Run.* `tokens`: every stamp of a TSA that certified its key twice, with one
part exchanged (one genuine token: two), tokens of an owner whose certificate
has the unit's issuer and serial number, three sets of foreign certificates;
all histories of up to three entries over three times, one list of one or two
services, and two lists. Two entries can be unsorted, three have one between.
No liveness is stated, so no fairness: the search is bounded by the input.

### AuditPath, Anchor

*Data.* Hashes are terms. `Tree[n]` is the tree over `n` leaves by levels, as an
anchor service builds it; what an anchor payload or an inclusion proof *claims*
is any record. An attestation is a height and the operations of the receipt
from the digest to a block's root.

*Actions.* `CanonicalHash` and `OtsHeader` are the two layers before the
inclusion check. `Parse`, `Probe`, `GetBlockHash`, `GetBlockHeader`, `AllAsked`
are `_bitcoin_verify_via_node`, one action per call of the node; it runs for
`OtsAnswer` and again for `Answer`. `RecomputeLeaf` enters
`merkle_root_from_path`, which is `AuditPath!Element`, `Shift` and `PathEnds`.
`NodeMoves` is the environment: between any two steps the node may be
reorganised to another chain, go down and come back.

*Properties.* `VerifiedMeansLeaf`, against the tree and not against the
algorithm; `IssuedVerifies`, the other direction; `ConfirmedMeansMined`, "at
some time of the run", because the hash and the header of a block are fetched
one after the other and a node answers for a block that is no longer active;
`AttestedNeverPending`; `StableNodeConfirms`, no false alarm with a node that
stays as it is; `AlwaysAnswers`.

*Run.* `anchor`: all leaves of all trees of up to five leaves (sizes 3 and 5
have promoted nodes, 5 over two levels), each under every index, size and path
of another and with its own path cut, extended and turned; every edit of
`inclusion.json` together with every edit of the rest, over four packages;
receipts of up to two attestations, right and wrong, with three chains that
share blocks and two moves. Two moves are enough to leave a chain and come
back, or to go down and come up.

*Fairness.* Weak fairness of `Verify`, the verifier's steps. A call of the node
answers or times out after 30 seconds (`core.py:1049`), so a step is always
possible. Nothing is assumed of the node.

## Findings

* **A failing witness decides the verdict** (run `witness`). `core.py:1549-1550`
  says of the witness "Skip, never fail: the witness is informational and cannot
  change a verdict"; a witness that is there and does not link fails, and with
  it the report. `src/README.md:355-358` documents half of it: the check "never
  fails a bundle on its own account beyond detecting an inconsistent witness".
* **`seq` of an inner entry is unprotected** (run `chain_seq`). The threat table
  of the README (`src/README.md:396`) has Layer 3 catch "Modify chain entry";
  `seq` is neither hashed nor compared, except the last one's with the head.
* **A PDF without a time-stamp can be VERIFIED** (run `unstamped`). A signature
  that is not a document time-stamp is skipped (`forensic_browser.py:1439`), no
  seal is found, and line 1464 finishes with the one result that is left,
  `pdf_structure`: passed. `cli.py:16` promises "a qualified timestamp verified"
  for exit code 0.
* **A report gets its package's verdict** (run `report_verdict`).
  `cli.py:216-217` says "never a VERIFIED verdict for a report"; line 2037 of
  `forensic_browser.py` finishes without a verdict of its own, so a report with
  its package is VERIFIED, exit code 0. (`src/README.md:162` has only a report "without
  `--original`" as not verifiable by itself, which implies this much;
  `ReportVerifiedMeansShipped` says what the verdict is then worth.)

Observed while modelling, and modelled as the code has it: `parse_tsl_qtst`
leaves out history entries of another service type, so a service that was
something else for a while keeps its older status for that time; a receipt is
compared with `manifest.anchor.payload_sha256` only where the manifest declares
it (`check_anchor_inclusion` does compare); with `--bitcoin-rpc` a receipt whose
body does not parse is reported as pending, and passes.

## What is proved

TLAPS checks, for every value of the constants (any set of versions, assets,
bound members, edits and command lines; logs and files of any length; any sealed
documents and revisions; any certificates):

* `EvidenceZipProofs!TypeCorrect`, `ExitZeroSound`, `IntactAccepted`,
  `Implements`. The inductive invariant is `SoundInv /\ IntactInv /\ ExitInv`.
  `ExitZeroMeansSealed` alone is not inductive: it speaks of the last step, and
  says nothing of the results it is computed from. `SoundInv` adds what each
  recorded result attests about the package (`Attested`: a layer that passed
  has compared what it compares), that the layers ran in order (`Ordered`), that
  a result is recorded for every layer already run (`Recorded`) and that layers
  only run over a readable container (`Opened`). `IntactInv` is the other
  direction: on an unchanged complete package no layer fails or raises.
  `ExitInv` ties the exit code to the summary. The package itself is fixed once
  the run has started (`PackageStable`), so what a result attested stays true.
  `SealedListed`, `InventoryListed`, `QualifiedListed` say what the summary's
  lists and its qualified status mean, the latter for any certificates put into
  the token and any lists put beside it; they follow from `SoundInv` at the one
  step that writes the summary (`SummaryJudged`) and stay true because the
  package does not change after it (`NextJudged`).
* `HashChainProofs!TypeCorrect`, `SuffixAuthentic`. The chain is verified from
  the front and trusted from the back, so the invariant is indexed by the entry
  the loop has reached (`Walked`): wherever the log holds its hash, the file up
  to it is what precedes that point of the log. The lemma `WalkBack` is the
  step: injectivity of the hash gives the link, the link gives the entry before,
  and the empty `prev_hash` of the log's first entry, which is no digest, keeps
  the two from running past the log's beginning. `UneditedAccepted` is the other
  direction: `CleanInv` says that on an export as it was made nothing is counted.
* `PostSealProofs!TypeCorrect`, `AcceptedSound`, `RenewalSound`, for any number
  of revisions, objects and writes. The verdict is a function of the revisions,
  so the invariant needs little of the history; the work is in what the rules
  imply together. `Untouched`: a sealed stream or widget is there as it was.
  `Structure`: catalog, information, pages and forms change at most by their
  own rule; the exception for DSS objects cannot be used on them, because an
  object that was there must have been a DSS. `TimestampInvisible`, the crux:
  what counts as a time-stamp's field is an invisible widget, and an object a
  DSS lists, now or in a revision between, cannot be one, for then that DSS
  would not be well formed. From these `PageKept`, `FormKept`, `CatalogKept`
  and `InfoKept` give the view. `RenewalSound` is about one step and every
  object of the next revision. An object the renewal does not write
  (`ObjectKept`) meets the same rule as before: `Fresh` says that numbers from
  `/Size` on were never used in any revision, so no widget or stream is
  overwritten, `LaterSigsNext` and `AppearancesKept` that signatures and their
  appearances are not forgotten, and `DssLeftBehind` that what the final DSS
  listed is, one revision later, what a DSS between left behind. An object it
  writes (`TimestampOwnOk`, `TimestampPageOk`, `TimestampFormOk`, `DssNewOk`,
  `DssObjectOk`, `AddDssKeeps`, `RenewDssKeeps`) meets the rule for it; the
  chain of reasons is circular in the code as well, since the field is
  permitted because its signature is later, and the page and the form because
  of the field. The first renewal is the step from no comparison at all to all
  of them, hence `OddInv`: only a document with later revisions has defects in
  them.
* `TrustChainProofs!TypeCorrect`, `RootsScoped`, `PassSound`, `PathComplete`,
  `EveryPathComplete`, for any certificates and any nesting of blocks.
  `RootsOfThisRun` says nothing of what leaving a block resets to, so
  `StackInv` says of each token that it holds the roots of the blocks further
  out. `PassMeansPath` says nothing of the chain before the verdict, so
  `ChainInv` says what each round keeps: the chain begins with the signer and
  every link is signed and authorised. `Judge` then adds the dates (the name of
  a certificate begins with itself, so no error of a certificate up to the
  anchor is missed) and `AnchorKnown` the root. Minima and maxima (`hit`, the
  first issuer, the last root of a key) come from well-foundedness of the
  naturals (`Extrema`). The other direction, `PathComplete`, speaks of
  certificates no one has picked yet: `FollowInv` says of every path at hand
  (`Candidates`) that the chain is the beginning of it for as long as it is
  shorter, because each round that has not reached the path's end has the
  path's next certificate among its issuers and no other (`NextOfCandidate`),
  and that a chain that ended is not shorter. `CandidatePasses` then goes
  through the conditions of the verdict, and `VerdictInv` keeps it.
  `EveryPathComplete` is the same for paths as long as the loop can make them,
  where the run looks at up to three certificates: the proof shows that no
  pathLenConstraint, no circle and no decoy cuts the loop's bound short.
* `TokenChecksProofs!TypeCorrect`, `StampSound`, `ListSound`, `ListComplete`, for
  any tokens, lists and histories. `ErrorInv` says of each place in the code
  which comparisons are behind it as long as no error was recorded; at the end
  the signature is by the signer's key over attributes that name this content
  and this certificate, and `HonestAssumption` turns them into a stamp. For the
  lists, `LookInv` says that the search has passed only services without a
  certificate of the chain, and `StatusFound` that `status_at` picks an entry in
  force.
* `AnchorProofs!TypeCorrect`, `LeafSound`, `IssuedSound`, `ConfirmedSound`,
  `NeverPending`, `StableSound`, for trees of any size, any claims and any
  moves of the node. The loop invariant of the audit path (`WalkOver`) is read
  backwards: if the hash reached so far is that of the node at `<<fn, sn>>` of
  the tree, then the hash it began with is that of the leaf at the index. Each
  step has one preimage, because hashes are free, and the shifts of the inner
  loop are the levels at which the node is promoted. For the node the invariant
  (`ShownBefore`) counts: as many attestations verified as asked as long as
  there is no error, each against a block that was active. `IssuedSound` reads
  the loop forwards: `IssuedInv` says that the elements to come are the audit
  path of the node the loop is at (`OnPath`, over the paths `PathOf` of *every*
  node, not of the leaf alone, which is what makes it inductive), that the hash
  is that node's, and that no check on the way has failed, of a package that
  fits the checks of its documents (`OwnFits`). Where a node is promoted the
  code needs the next element to be on the left; `LastBeginsLeft` shows, by a
  least counterexample, that the path of the last node of a level begins there.
  `StableInv` says of a node that has not moved that no call has failed yet.
* `RoutesProofs!TypeCorrect`, `PackageSound`, `ReportSound`, `PdfSound`,
  `InventorySound`, `QualifiedSound`, `CopySound`, `UnsealedSound`,
  `OwnSealSound`, `GenuineAccepted`, for any packages, revisions, attachments
  and labels, copies and command lines. A verdict is computed from the
  failed checks alone, and a check that was never made has not failed: each
  invariant says, of each step, what is known *as long as nothing failed*.
  `StepInv` says which kinds can be at which step and in whose verifier (a copy
  is always verified with `inner` set, a document never); `PackageInv` and
  `PdfInv` which checks lie behind the step. The loop over the signatures gives
  "every signature before `cur` is genuine" (`Genuine`), and a signature that is
  no document time-stamp is genuine for want of anything to check, so that only
  `HasPrimary` ties the seal to the verdict: `ListInv` adds that a time-stamp is
  only ever reported of a document that has one, and that in the end each has an
  answer of the list. `GenuineMeansSealed` and `ChecksMeanSealed` are then about
  the operators alone. `InventorySound` rests on
  `InventoryIsExact`: of the candidates for a path there is a first, because the
  revisions are numbered (`FirstIsIn`), and each of them claims the path.
  `OwnSealSound` adds two invariants: no `saas_report` is ever verified
  (`SaasInv`), and a ZIP that is not of this app only by the rules of its own
  format (`OtherZipInv`). `GenuineAccepted` is the other direction, `IntactAccepted`:
  `GenuinePasses` and `GenuineDocPasses` show that every check passes on what the
  app wrote, and `AcceptInv` carries through the steps that nothing failed or
  raised and that, past the first check, something passed, since a report
  without a passed check is FAILED too.

The assumptions are the named `ASSUME`s of the modules: SHA-256 is injective
(by construction of `Sha` and `Digest`), the anchor service builds the tree
and the audit paths of RFC 6962 (`TreeAssumption`, `PathAssumption`) and writes
its packages from them (`IssuedAssumption`), the marks `Null`, `Corrupt`,
`Malformed` are no versions or digests, a file of the command line has the
parts of its type and no TSA in force is a mark (`LineAssumption`), and the sets have the shapes given.
TLC evaluates them on every run.

Only model-checked: the liveness properties (`FailureReachesExit`,
`AlwaysAnswers`, `ChainEnds`), which are beyond TLAPS here.

## Not modelled

* `pdfmini.py`: a parser of bytes. What it yields is an input of `PostSeal` and
  `SealedPdf` (revisions of resolved objects) and of `Routes` (it raises or
  not). Lexing, filters, fonts and the decoding of cross-reference streams are
  conversions without state; the chain of `/Prev` offsets ends because each is
  visited once.
* `qrdecode.py`: decodes one image, bit by bit, without state.
* The layout of `cli.py` and its argument parsing, the embedded root
  certificates, and ASN.1, X.509, XML and JSON parsing.
* Left out inside modelled parts: URLs printed on copies, sizes and SHA-512
  beside SHA-256, the MD5 of an attachment; an indirect `/Annots` or `/Fields`
  array, a direct DSS and a replaced `/Info` (see PostSeal).

## Plan

1. (done) `EvidenceBundle`, `EvidenceZip` with `SealVerdict`: the verdict.
2. (done) `HashChain`: Layer 3 as a loop.
3. (done) `PostSeal`: what may follow the sealed byte range.
4. (done) `TrustChain`: greedy `build_chain` and `check_trust_root`.
5. (done) `AuditPath`, `Anchor`: the audit path, the receipt and the node.
6. (done) `ForensicZip`, `SealedPdf`, `Routes`: the other packages, kinds, routes
   and exit codes.
7. (done) `TokenChecks`: tokens and Trusted Lists.
8. (done) `RoutesProofs`: what exit code 0 means for every kind, and what gets it.
9. (done) `AnchorProofs`, `TrustChainProofs`: the other direction, what is
   genuine is accepted.
10. (done) `RenewalSound`: a renewal keeps the verdict, for any history.
11. Left: the witness file as a loop; `EvidenceBundle` composed with
    `TrustChain` in place of its nondeterministic outcome.
