# A verification development for Diatreme

Diatreme is a GitHub Action (`action.yml` and `scripts/`) that builds images on
pull requests and releases them, and a token broker (`broker/`, in Python on AWS
Lambda, and `worker/`, in TypeScript on Cloudflare) that exchanges a workflow's
OIDC token for a GitHub App token scoped to one repository. Neither has a
database that serialises its work: a release is what many workflow runs, each
started from nothing, leave on the remote, and a verdict of the broker depends
on caches of other people's keys. That is what the specifications here are
about.

## Inventory

| Part | State it keeps | Operations | What is hard | What makes it correct |
| --- | --- | --- | --- | --- |
| **Release runs** (`action.yml`, `resolve-release-line-version.sh`, `resolve-promote-from.sh`, `verify-promote-from-images.sh`, `push-release-tag.sh`) | tags of the remote, images and `:latest` in the registry, GitHub Releases; per run only its step outputs | resolve a version; promote a candidate; push the tag; retag or build; publish | runs race for a tag, die after any step, are run again, use what they read minutes ago | a version names one commit forever, ships what was built (or tested) for it, is announced after it ships, and is announced in the end |
| **Broker, signing keys** (`broker/app/oidc.py`, `jwks_store.py`, `broker.py`) | key set and two throttles in each Lambda environment; a snapshot in DynamoDB | verify a token; reload; save; rescue | rotation at the issuer, stale caches and reads, lost writes, recycled environments, an issuer that is down | a retired key expires, a published one is honoured, "cannot tell" is never "no" |
| **Broker, configuration** (`config.py`, `ssm.py`) | parameters cached for the environment's life, a failure for 30 s | load once, read | missing, late or rotated parameters; SSM out of reach | secrets that are in order at last lead to a token; an outage is got over |
| **Broker, token request** (`broker.py`, `github.py`, `lambda_handler.py`) | none | the ladder of checks, installation lookup, mint | which failure becomes which status, because the action falls back on a 5xx only | a job gets its token as long as a broker in order is behind the URL it asks last |
| **Worker, `/token`** (`worker/src/index.ts`) | jose's key set and a throttle per isolate, snapshot in KV | verify; jose's reload; forced reload; put; rescue | concurrent requests with a fetch each, answers late and out of order, a snapshot that is dated anew | the same contract on verdicts as the Lambda's, with bounds of its own |
| **Worker, `/webhook` and `/sign`** | none; they write branches through GitHub | update pull requests of a pushed branch; commit on a branch | events handled concurrently, updates that are pushes themselves, lost answers, retries | no pull request forgotten, no change committed twice unseen, no endless circle |
| **Worker, `/releases`** | one entry in KV | crawl installations and repositories; store; answer | caps and pages, failed calls, requests that crawl for each other | a short list says so, an answer is recent, calls stay in budget |
| **Release branches** (`cut-release-branch.sh`, `merge-back-release-branch.sh`, `clean-up-release-branches.sh`) | branches of the remote, the merge-back pull request | cut, merge back, delete | what was checked has moved when it is used | no commit is lost, every fix gets back |
| **Authentication of the action** (`request-public-app-token.sh`, `resolve-auth-token.sh`) | none | ladder of credentials, second URL | which failure falls through | the strongest credential that works |
| CI builds, previews; scans, signatures, SBOMs; versioning tools; suites; version files and packages; guards; promotion pull requests; boards and summaries | none beyond one run | see `PROJECT.json` | mostly external tools | |

How they interact: the action asks the broker (or the Worker) for a token, then
acts on the remote with it. The release runs work on branches that the
release-branch scripts create and delete, and take images that the CI runs
pushed. Runs talk to each other only through the remote: its tags, its registry
and its releases. Environments of the broker talk to each other only through the
snapshot, isolates of the Worker through KV. The Worker's two writers of branches
meet on GitHub: a commit of `/sign` is a push event for the webhook, and so is
each update the webhook asks for.

`PROJECT.json` lists every component with its status, and under `hazards` the
places in the code where an order of events, a stale read or a failure half way
is likely to matter and hard to test, each with the properties that cover it or
the reason why none does.

## Modules

| Module | What it is |
| --- | --- |
| `VersionLedger` | What a release promises about a version number: claimed once, shipped once claimed, announced once shipped. Abstract; no workflow in sight. |
| `ReleaseRuns` | The release runs of one release line, step by step, and their properties. Implements `VersionLedger` (`KeepsLedger`). |
| `MCReleaseRuns` | Constants, constraints, symmetry and the view for TLC. |
| `ReleaseRunsProofs` | Theorems about `ReleaseRuns`: ownership of tags, images, the ledger, promotions. |
| `ReleaseNumberingProofs` | Theorems about the numbers `ReleaseRuns` gives out and about `:latest`. |
| `SigningKeys` | Key resolution in the broker's environments. |
| `MCSigningKeys` | Constants, symmetry and the view that removes the hour. |
| `SigningKeysProofs` | Theorems about `SigningKeys`. |
| `ReleaseBranches` | Cutting, merging back and cleaning up release branches. |
| `MCReleaseBranches` | Constants, symmetry and the bound on commits. |
| `ReleaseBranchesProofs` | Theorems about `ReleaseBranches`. |
| `TokenVerdicts` | What a broker promises of its verdicts, whichever it is. Abstract; implemented by `SigningKeys` and by `WorkerKeys` (`KeepsVerdicts` in each). |
| `WorkerKeys`, `MCWorkerKeys`, `WorkerKeysProofs` | Key resolution in the Worker's isolates, its TLC constants and view, its theorems. |
| `BranchWriters`, `MCBranchWriters`, `BranchWritersProofs` | `/webhook` and `/sign`, the branches and the pull requests they write. |
| `ReleasesView`, `MCReleasesView`, `ReleasesViewProofs` | `/releases` and its entry in KV. |
| `TokenExchange`, `MCTokenExchange`, `TokenExchangeProofs` | A job's request for a token, from the action over both URLs and the brokers behind them to GitHub. |

### `ReleaseRuns`

A run is a process: `ask[r]` is the event it was started for, `job[r]` its step
outputs, `pc[r]` the step it is at. The remote is `tags`, `image`, `latest` and
`releases`; `landed` is what has been pushed to the branches; `served` is a
history variable, the images each candidate's tag ever had, and so is the output
`saw`, the stable versions a run's clone held when the run read it.

| Action | Code |
| --- | --- |
| `PushRun`, `OverrideRun`, `PromoteRun` | what starts a run; `Detect environment` decides `stable` |
| `StartLine` (`LineAnswers`, `ReleasedAt`, `Shipped`, `NextPatch`, `Numbers`, `NextCandidate`) | `resolve-release-line-version.sh` and its caller |
| `StartOverride` | `version-override` |
| `StartPromote` (`MayPromote`, `StableOf`, `IsNewest`) | `resolve-promote-from.sh`, the second checkout |
| `ProbeSource` | `verify-promote-from-images.sh` |
| `ResumeCheck`, `PreCheck`, `PushTag`, `ReCheck` (`SameRelease`) | the four conversations `push-release-tag.sh` has with the remote, one step each |
| `PublishImage`, `MoveLatest`, `RebuildAfterRetag` | `Promote images` |
| `PublishRelease` | `Publish GitHub Release` |
| `Land` | a fix is merged into a branch |
| `Fail` | a failed step, a cancelled job, a lost runner |

A version is a patch number and a candidate number (0 in a stable version), a tag
is a commit and the candidate its `Promoted-From:` line names, an image is the
commit it was built from and the number of the build (0 is the image that the
pull request's CI pushed). Commits have a first parent (`Parent`), and a branch grows
on its tip. `Promote images` looks for the pull request of the tagged commit and, if it
finds none, of its first parents, five commits in all (action.yml:3213-3235), and the
provenance check compares the image with the commit where the walk stopped: `Walk` is
that set, and `PullRequestImages` what a release may take from it. Whether a commit has
a pull request of its own, and whether the query for it is answered, is left open.
Checkout and version resolution are one step, because
both read the one clone; every query of the remote after that is a step of its
own, and other runs come between. `LineEnvs` says which environments pushes
target, and `CarryForward` whether the deployment model lets a later environment
take the image of the one before (`tbd`) or not (`bbd`).

Not in the model: several images per release (the loop of `Promote images` is
one image), `image-skip-existing`, more than one prerelease channel, a candidate
typed by hand for production, the tools behind `versioning-tool` (they end in the
same push script), signing and attestation after the image step, and tags,
images or releases deleted by a person. The guards on who may release end a run
early and are covered by `Fail`.

### `SigningKeys`

One issuer (state is kept per issuer). `cache[e]`, `forced[e]` and `written[e]`
are `_jwks_cache`, `_last_forced_reload` and `_last_write` of environment `e`,
`snapshot` is the DynamoDB item, `lagging` the older item an eventually
consistent read may return, and `earlier[e]` a history variable, when the set before the
cached one was fetched. A request is `Receive`, then `Resolve` (which ends in
a verdict if the key is cached), `Fetch`, `Reload` and `Rescue`; the network
calls are where other environments, the clock and the issuer come between.
`Store` is what an answered fetch leaves behind, `FetchFails` any
`JwksUnavailable`, which leaves nothing. A token is the key it names and whether
everything else about it holds. `PublishKey` and `RetireKey` are the issuer's: a
retired key is never served again.

Not in the model: two keys with one `kid` (`key_ambiguous`), clocks that differ
between environments, and a fetch answered with what the issuer served before
the fetch started (a fetch takes at most 5 s, against bounds of minutes).

### `ReleaseBranches`

A commit is a number and a branch the set of commits reachable from its head, so
that the `compare` API is set inclusion. `heads[b]`, `mb[b]` and `pr[b]` are
release branch `b`, its merge-back branch and whether the pull request from that
is open; `target` is the default branch. A run is a process, `job[r]` what its
shell knows.

| Action | Code |
| --- | --- |
| `StartCut` (`MayCut`), `LookUp`, `Create` | `cut-release-branch.sh`: version check on the clone, lookup, creation |
| `StartRelease` (`NextVersion`, `Containing`, `Highest`), `PushTag` | a stable release of the line, shortened to its version and its tag (`ReleaseRuns` has the rest); which branch is merged back |
| `ReadHead`, `CompareWithTarget`, `ReadMergeBack` | the three reads of `merge-back-release-branch.sh` |
| `CreateMergeBack`, `KeepMergeBack`, `MoveMergeBack`, `MergeIntoMergeBack`, `WriteFails` | its write, by what was read |
| `FindPullRequest`, `CreatePullRequest` (`Report`) | its pull request |
| `DeleteLine`, `DeleteMergeBack`, `KeepLine`, `Finish` | `clean-up-release-branches.sh` |
| `LandOnTarget`, `LandOnBranch`, `Resolve`, `MergePullRequest` | people |
| `Stop` | a failed step, a cancelled job, a lost runner |

A call that fails is in every action that has one: as `WriteFails`, as a read
that finds nothing, as the branch that ends the step with a warning. The check
and the deletion of the clean-up are one step: it compares a commit of the clone
with a branch that only grows. What may move in between is the branch that is
deleted; it may have moved since the checkout anyway, which is earlier. `promised`
and `dropped` are history variables: the commits for which a run has reported a
pull request without a warning, and those that went with a deleted merge-back
branch.

Not in the model: candidates (a promotion takes the head of the branch at its
checkout; an older candidate differs in its tag only), squash merges of the
pull request (which the documentation forbids), a merge's own commit, which
changes nothing, pull requests closed by hand, and force pushes by people.

### `TokenVerdicts`

A token is asked about, and the verdict is one of four: accepted, rescued (from a
snapshot), 401 or 503. `Allowed` is the contract: a key is honoured for
`HonouredFor` after it was last served, through a snapshot for `RescuedFor`; a
good token is refused only while its key is younger than `LearntIn`; a 503 may
always be given. The Lambda broker implements it with `CacheTTL`, `CacheTTL +
MaxAge` and `Cooldown`; the Worker with `CacheMaxAge + Timeout`, `CacheMaxAge +
Timeout + MaxAge` and `Cooldown + Timeout`. So the Worker's snapshot, which is
dated when it is put, can carry a retired key for longer than the 24 hours of
`JWKS_SNAPSHOT_MAX_AGE_MS`: by the cache's five minutes and a timeout, and no
more.

### `WorkerKeys`

One issuer. `jwks[i]` is jose's set in isolate `i`, `forced[i]` the issuer's entry
in `lastForcedReload`, `versions` what reads of KV may return. A request waits in
`flight[r]` for the fetch it sent; jose does not share a fetch between requests
on Workers (index.ts:121).

| Action | Code |
| --- | --- |
| `Receive` | `handleTokenRequest` up to `verifyOidc` |
| `Resolve`, `Loaded`, `Retried` (`Select`, `Verify`, `Miss`) | `jwtVerify` over the remote set: a lookup, jose's own reload, the forced reload if `mayForceReload` |
| `Forced` | `jwks.reload()` and the second `jwtVerify`, which puts nothing in KV |
| `FetchFails` | `jwks_unavailable` of `classifyOidcError`, by timeout, status or body; of a forced reload it is final |
| `Put` | `snapshotJwks` |
| `Rescue` (`Usable`) | `verifyFromSnapshot` |
| `IssuerAnswers`, `PublishKey`, `RetireKey`, `Recycle`, `Tick` | the issuer, the platform and the clock |

Not in the model: two keys with one `kid`, clocks that differ between isolates,
a forced reload in an isolate less than five seconds after 1970 (`?? 0`), and the
time between a set's arrival and the put of its snapshot, in which a newer set
may take its place.

### `BranchWriters`

Commits are numbers and a branch the set of those it contains, as in
`ReleaseBranches`. `deliveries` are push events on their way, `todo[h]` the pull
requests a handler has listed and not yet updated, `accepted` the updates GitHub
has answered 202 to and not carried out. `call[s]` is where a caller of `/sign`
is, `read[s]` its `expected_head_oid`, `strays[s]` the calls it has given up and
GitHub may still carry out. `missed`, `landed` and `blind` are history variables.

| Action | Code |
| --- | --- |
| `Receive` (`Pages`) | `handlePushEvent` and `updateOpenPullRequestsForBase` up to the list; the list is one page |
| `Update` | `updatePullRequestBranch`; the loop goes on after a refusal |
| `GiveUp` | a call of the loop that throws: the rest is left, the delivery is acknowledged |
| `LoseDelivery` | a delivery that does not come, or whose token or list fails: `handlePushEvent` acknowledges it |
| `Ask` | `handleSignRequest` up to the mutation |
| `Execute` (`MayCommit`, `Commit`) | `createSignedCommitOnBranch`, with its answer or without |
| `LoseCall`, `ExecuteStray` | `sign_failed`, and a mutation that is carried out after its sender gave up |
| `Land`, `MergePull`, `OpenPull`, `CarryOut`, `DropUpdate`, `ReadHead` | GitHub, people and callers |

Not in the model: deleted branches, pull requests closed without a merge or
moved to another base, pull requests from forks (whose updates are refused),
force pushes, and the content of a commit.

### `ReleasesView`

`list[p]` is what a request has collected: for each repository the number of its
latest release, 0 for none. `stored` is the entry in KV, at most one. The history
variables `stays` (what has been there since the crawl began), `marred` (a call
failed), `calls` and `visits` are what the properties speak of.

| Action | Code |
| --- | --- |
| `Start` (`Visited`, `OverCap`) | `handleReleasesRequest` when KV has nothing, `listAppInstallations`, the cap on installations |
| `Enter` | `createInstallationTokenAllRepos`, `listInstallationRepos`; an installation that fails is passed over |
| `Read` | `getLatestRelease`; a failure is listed as "no release" |
| `StopFull`, `Finish` | the two checks of the cap on repositories, the end of the loop |
| `Store`, `GiveUp` | the put and the answer; a thrown error |
| `Tick` (`Kept`), `Publish`, `Change` | expiry, GitHub |

A hit in KV changes nothing and is no action. `truncated` is also set when a list
is full and nothing is left out, as the code does. Not in the model: the order of
the list, names with no owner part, and the delay with which KV shows a put
elsewhere, which adds to the age of an answer.

The documentation says "the list is never silently shortened"
(docs/reference/limits.md:58-59; index.ts:1349 says "never silent"). That is so of
the caps and pages (`NeverShortUnmarked`), and only of them: an installation whose
token or list fails is left out and a repository whose call fails is listed
without a release, and nothing marks either (`marred`). "Repositories per
installation | 40" of the same page is 40 in all.

### `TokenExchange`

A job is a process: `at[j]` is the stage of its request, `broker[j]` the URL it asks,
`behind[u]` the broker that a URL reaches: as shipped the Lambda behind both
(docs/operations/deployment.md:13-14), and the Worker after a rollback, which is a change
of a name in the DNS (`Repoint`). `env[j]` the Lambda environment that has it, `settings[j]` the key it goes by and
whether `TOKEN_PERMISSIONS` parses. What verification says is any verdict:
`SigningKeys`, `WorkerKeys` and `TokenVerdicts` say which, and the stages after it
do not look at the key set again.

| Action | Code |
| --- | --- |
| `Start`, `Fall`, `NoAnswer` | `request-public-app-token.sh`: the primary URL; another URL, if one is given, on no answer or 5xx |
| `ReadParameters`, `SsmFails`, `UseCached`, `Unmute` | `ssm.py`: one read for the environment's life, a failure for `NEGATIVE_TTL_SECONDS` |
| `UseDeployed` | the Worker's environment |
| `Verified`, `Rejected` | the verdict and the checks on the repository |
| `LookedUp`, `NotInstalled` | `findInstallationId`, `find_installation_id` |
| `Unparsed`, `Minted` | `parsePermissions`, `createInstallationToken`, `mint_installation_token` |
| `Errs` | any 5xx, of whatever cause |
| `Install`, `AddKey`, `Seed`, `Deploy`, `DropKey`, `Repoint`, `Recycle` | owners, operators, the platform |

Not in the model: the GHE identity and explicit installation ids, malformed
requests (the script sends none), `/readyz` (which reads and keeps parameters as
a request does), the expiry of the token that was made. A Lambda's
`TOKEN_PERMISSIONS_JSON` that does not parse is one of the causes of `Errs`; the
Worker's is a 400 and has an action of its own.

An environment that has read an empty path, or a key that was rotated away later,
answers 503 or 500 for the rest of its life. ssm.py:61-63 says that "a late-seeded
parameter recovers without a redeploy" and config.py:162-163 says the same; that
holds of an environment that was first asked after the seeding, or whose read
failed, and not of one whose read was answered. Whether the second URL helps depends
on what is behind it. The script compares URLs, and as shipped both reach the same
Lambda: the second call may meet the same environment, with the same kept answer, and
"the parameters are in order at last" does not lead to a token. TLC finds the
environment that keeps the empty answer. The shipped fallback makes up for a hostname
that is out of reach, not for what is kept behind it. `FallbackSuffices` is what holds,
and `InOrder` says of what: the Worker, after a rollback of the second URL, with
settings of its own that are in order, or the Lambda with parameters that are in order
and that no environment has missed. `OutagesPass` needs no second URL.

Not every trouble of a broker's own is a 5xx. The Worker's unreadable
`TOKEN_PERMISSIONS` is a 400 (`Unparsed`), for which the second URL is not asked;
`PrimaryParses` assumes it away in both properties. A good token may be refused with a
401 during a rotation (`Rejected`); for how long is the business of `SigningKeys`, and
here a job is asked to be re-run.

## Runs

TLC, two workers; times on a small machine.

| Run | Properties | Bounds | States | Result |
| --- | --- | --- | --- | --- |
| `release_line` | `TypeOK`, `ReleasedRunOwnsItsTag`, `ImageFitsTag`, `NothingCutTwice`, `NumbersInv`, `RerunsFindTheirRelease`, `LatestInv`, `LatestOnlyOvertaken` | 1 branch, 2 commits, one on the other, 2 runs, X.Y.0 with 2 candidates and X.Y.1, pushes to both environments, `tbd`; one image of each version on a commit (`OneImageEach`) | 1,136,930 | holds, 129 s |
| `promotion` | `PromotedImageWasTested`, `PromotionInv`, `PromotionsCanBeRerun`, `KeepsLedger` | 2 commits, one on the other, 2 runs, X.Y.0 with 2 candidates (one may be typed by hand, so that two sit on one commit), the image of the first commit's pull request and a build of each commit (`OnePullRequest`), `bbd` | 1,096,407 | holds, 85 s |
| `resume` | `CandidateAnnounced`, `PromotionAnnounced` | 1 commit, 2 runs, X.Y.0 with 1 candidate, 2 builds; fair | 52,203 | holds, 24 s |
| `signing_keys` | `KeysInv`, `SpacedInv`, `RetiredKeysExpire`, `RotationIsFollowed`, `FetchesAreSpaced`, `KeepsVerdicts` | 1 environment (and its successors), 2 keys, limits 1 < 2 < 3 = 3 < 4; no bound on time | 930,736 | holds, 73 s |
| `release_branches` | `BranchesInv`, `PromisesAreCarried`, `BranchesOnlyMoveForward`, `LinesStayClean`, `DeletesTakeOnlyLateCommits` | 2 lines with a branch each, X.0.0, X.0.1 and Y.0.0, 2 runs; 3 commits on one line or 2 on both (`CommitBound`) | 1,239,601 | holds, 110 s |
| `worker_keys` | `KeysInv`, `ForcedReloadsAreSpaced`, `KeepsVerdicts` | 1 isolate (and its successors), 2 requests, 2 keys, forced interval, timeout, cooldown and snapshot age 1, cache age 2, 1 version in KV; no bound on time | 1,100,357 | holds, 99 s |
| `branch_writers` | `WritersInv`, `DuplicatesAreVisible`, `NothingForgotten`, `CascadesEnd` | 3 branches, 3 pull requests, two of them against each other, pages of 1, 2 handlers, 1 caller with 2 tries; fair | 467,287 | holds, 55 s |
| `releases_view` | `ViewInv`, `NeverShortUnmarked`, `AnswersAreRecent`, `BudgetKept` | 2 installations, 3 repositories in one of them, 2 requests, caps of 1 installation and 2 repositories, pages of 2, `TTL` 1, 2 ticks, 1 change on GitHub | 1.86 million | holds, 107 s |
| `token_exchange` | `ExchangeInv`, `FallbackSuffices`, `OutagesPass` | 1 job, 2 environments, 2 keys, 2 URLs, the first reaching the Lambda at first and the second either broker, 2 changes by owners and operators; fair | 61,139 | holds, 90 s |
| `lost_race` | `LosingRunGoesRed` | as `release_line` without production | | violated |
| `stable_push_rerun` | `StableAnnounced` | 1 commit, pushes to production; fair | | violated |
| `late_fix` | `NothingIsLost` | as `release_branches`, 2 commits | | violated |

Why the bounds are enough to be interesting: every race in `push-release-tag.sh`
is between two runs for one tag; two commits are enough for the tag to be "on
another commit" and one for "the same commit, another release"; two candidates
and a second patch are enough for a number to be cut twice, and for a promotion
that is run again to meet a newer version that has `:latest`; that one is a fresh
build because it has no candidate to take. Which image a version has on which commit
multiplies the states, so the runs with safety properties fix it: `OneImageEach` gives
the second commit's first candidate the image of the first commit's pull request, and
what has a candidate before it no image of its own, and `OnePullRequest` leaves the
second commit without a pull request. `EndsAlike` does not tell a run that has ended
from one that never began, which the actions do not either. `resume` and the violated
runs have neither constraint nor view; the theorems have any commits, parents and
builds. A third run or a second branch brings no
new pair of steps. The ordering of the limits in
`signing_keys` is that of the code (5 s, 30 s, 300 s = 300 s, 24 h); the time
itself is unbounded, because `KeysView` identifies states that differ in the hour
only and every guard compares an age with a limit. Two environments at once are
beyond TLC here; the theorems have no such bound. In `release_branches` a second
line is there to be the newer one, and its release deletes the older line; three
commits (two fixes and the resolution of a conflict) on one line are what a
stale read of a merge-back branch needs to do harm.

In `worker_keys` the limits are equal where the code has them in order (5 s = 5 s
< 30 s < 300 s < 24 h): a larger snapshot age or cooldown is beyond TLC with two
requests, and the theorems have any limits. Two requests of one isolate are what
can overtake each other; the theorems have any number of isolates and requests.
`branch_writers` has two pull requests against each other, so that updates go
round, and onto one branch one more than a page shows; a client that tries twice
is what a duplicate needs, and two handlers what it takes for an update to be
asked for twice. `releases_view` goes past both caps and past a page with three
repositories and two installations. `ViewAssumption` has what the numbers of the
code meet: a page (100) is larger than the cap on installations (10) and not
smaller than the one on repositories (40). Without it an unmarked list could be
short. In `token_exchange` jobs meet only in what an environment keeps, so one
job and the changes around it show what another would; the invariant is proved for any
number. Two changes are a rotation (a key is put in, the old one dropped) or a rollback
and one of its causes. The run starts with the App installed, the first URL at the
Lambda and the keys named in the order of their use (`InitInTurn`).

Symmetry is used in the runs with safety properties only.

### What the violated runs show

Each states a sentence of the documentation or of a comment, quoted in
`PROJECT.json`, and TLC finds a behaviour of the code against it.

- `lost_race`. Two pushes resolve the same candidate number. One pushes the tag
  between the other's resume check and its pre-check. The pre-check does not ask
  what the tag is on, so the loser ends green with nothing released, where the
  documentation has it fail. (One query earlier or later it does fail.)
- `stable_push_rerun`. A run to production that dies after its tag push cannot be
  resumed: the version script reports the commit as released.
- `late_fix`. The clean-up compares the commit its clone has for an older line,
  and deletes the branch by name at the end of the run: a fix merged into that
  line since the checkout is on no branch any more. `DeletesTakeOnlyLateCommits`
  says that nothing else can be lost that way.

### Known disagreements without a run

Others that were met, each with the sentence it is at odds with:

- A promotion is overtaken by a run to production: the run resolves X.Y.0 for its
  commit, a promotion then tags X.Y.0 on that commit, and the run's resume check
  has no marker to ask for, takes the tag for its own and may build
  (push-release-tag.sh:131). docs/action.md:335 says of a promotion "It never
  rebuilds". This is why `promotion` assumes `LineEnvs = {FALSE}`.
- `:latest` moves by a decision made before the tag push
  (resolve-promote-from.sh:265): an older promotion that is overtaken by a newer
  one moves it back. docs/action.md:340 says "`:latest` only moves forward".
  `LatestOnlyOvertaken` is what holds: it goes back only from a version that was
  tagged after the run had read the tags.
- A good token under a new key is answered 401 while the forced reload is
  throttled (oidc.py:215), and a retry seconds later succeeds.
  docs/reference/broker-api.md:93-95 says "Retrying a 401 will not help".
  `RotationIsFollowed` and `KeepsVerdicts` bound how long it can last.
- A late-seeded parameter does not recover an environment that has read the empty
  path (ssm.py:61-63); see `TokenExchange`.
- A release may ship the image of an earlier commit. A tagged commit that has no merged
  pull request of its own, or whose query fails, is released with the `pr-<N>` image of
  the first of the four commits before it that has one, because the provenance check
  is made against the commit where the search stopped (action.yml:3213-3235,
  verify-promote-source.sh:71,109). verify-promote-source.sh:2-10 has "Verify that a
  pr-<N> CI image was built from the code being released" and "correctness requires
  proof that the image matches the release commit";
  docs/how-to/release-from-release-branches.md:167-168, docs/glossary.md:42-45 and
  docs/architecture.md:41-43 say the same. `ImageFitsTag` is what holds: the image is of one of those five
  commits, never of one further back or of one that came after.
- docs/reference/limits.md:33-35 and docs/worker.md:56 have forced reloads "limited to
  once every 5 seconds across the whole broker" and "across the whole deployment". The
  throttle is a variable of a process: `FetchesAreSpaced` is about one
  environment of the Lambda and `ForcedReloadsAreSpaced` about one isolate, and each of
  them has its own.
- A 4xx is not always "a decision about this token, not an outage"
  (request-public-app-token.sh:58-60; action.yml:43-50 has "a rejected token is an answer, not an
  outage"). The Worker answers 400 when its own `TOKEN_PERMISSIONS_JSON` does not parse, "A
  broker misconfiguration, not a caller error" (docs/reference/broker-api.md:82), and
  either broker may answer 401 to a good token during a rotation, as above; the job
  ends without asking the second URL.
- docs/reference/broker-api.md:138 explains `502 sign_failed` by a stale
  `expected_head_oid` and advises to read the head again and retry. A stale head
  is a 422; a `sign_failed` is a lost answer, after which a caller that reads the
  head again without looking for its change in it commits the change twice
  (`DuplicatesAreVisible` says that this is the only way).

### Fairness

Safety runs use `Spec`, with no fairness. `ReleaseRuns`: `FairSpec` says that a
run in flight moves or fails (GitHub gives a job a time limit), that a release
which is tagged and not announced is run again (a person presses "Re-run"; strong
fairness, because there is not always a free run), and that the runs of one event
do not all die: if they die over and over, then over and over one gets to an end
of its own. Nothing is assumed about which end; that the re-run finds its tag,
takes it for its own and announces it is what the properties say.
`StableAnnounced` fails under the same fairness.

`BranchWriters`: a handler goes on, because each call it waits for is answered or
fails; GitHub carries out or drops what it has accepted. People and callers of
`/sign` have no fairness, and the bounds on their number are what "when nobody
else writes any more" means in `CascadesEnd`.

`CascadesEnd` is checked, and meant, for pull requests that form no circle or
circles of two. Of a circle of three (a into b, b into c, c into a) with three
pushes TLC shows that the updates can chase each other for as long as no pull
request is merged, so nothing is claimed of longer circles; no document says
anything of them either.

`TokenExchange`: a job in `Patient` is re-run and its request goes on (weak
fairness); of the calls it makes over and over, to SSM, to the issuer and to
GitHub, each is answered at last, at each URL (strong fairness: a call may fail
any number of times before). `Unmute` is a clock. Nothing is assumed of
`Recycle`: a platform that keeps an environment busy need not replace it. A token that
is presented over and over is verified at last, which after a rotation is
`RotationIsFollowed`.

## Theorems

Checked by TLAPS, for all values of the constants that meet `ReleaseAssumption`
(versions are records of natural numbers, closed under "the stable version of";
there is a branch; `None` is none of the values; `Parent` names a commit or none), `KeysAssumption` and `NoneAssumption` (limits are
natural numbers), `IntervalsAssumption` (the interval between forced reloads is no
longer than the cooldown and the TTL: 5 s, 30 s and 300 s in `oidc.py`),
`BranchesAssumption` (a branch is named by a version),
`WritersAssumption` (a pull request has two branches), `ViewAssumption` (finite
sets; a page is larger than the caps) and `ExchangeAssumption` (`None`, `Unread`
and `Empty` are no keys, `None` is not the first URL).

`ReleaseRunsProofs`. `RunsInvariant` proves the inductive invariant `RunsInv`.
`ReleasedRunOwnsItsTag` alone is not inductive: that `PushTag` claims the tag for
the right candidate needs `JobsOK` (a run with a marker releases the stable
version of that candidate from the candidate's commit), and that a promotion's
image fits the tag's commit (is a build of it, or the image of a pull request that the
walk from it may find) needs the candidate's image to, which is tagged on the same
commit. `TagsStay` (a tag
is never moved) carries ownership over the steps of the other runs. From the
invariant follow `TypeCorrect`, `ReleasedRunsOwnTheirTags`, `ImagesMatchTags`
and, with `AnnouncedShips`, the refinement `RunsKeepTheLedger`: a `PushTag` that
claims is a `Claim`, a served image is a `Ship`, a published release is an
`Announce`, all else stutters. `PromotionInvariant` and
`PromotedImagesWereTested` assume that no push targets production (`LineEnvs
\subseteq {FALSE}`), as the guide to promotions sets a repository up; without
that it does not hold (Known disagreements). Its invariant adds that only stable
tags carry a marker and that no run without one publishes under such a tag.
`PromotionsStayOpen` is the safety half of `PromotionAnnounced` and needs no such
hypothesis: while its tag is there, a promotion may be started again, because
neither its candidate's tag nor its own is ever moved, and only a promotion's tag
says what it was promoted from.

`ReleaseNumberingProofs`. `NothingIsCutTwice` and `RerunsAreFound` are about a line
whose branches start at the same number and where nobody types a version
(`OneNumbering`); a version typed by hand may be out of turn, and two branches that
start apart leave a gap. `NothingCutTwice` alone is far from inductive: a run pushes
a number it computed from tags of long ago. `NumbersInv` says what it can still rely
on. The patches of a line, and the candidates of each, are `Contiguous`, so that the
greatest number plus one is the first that is free, and every tag is `InTurn`: the
numbers before it are taken, and the commit holds none of them. What a run may still
push is in turn as well, unless its clone held the tag already (`known`), which the
pre-check sends away. It stays so: a tag that put the commit on an earlier number
would need that number to be free, and the earlier numbers are all taken. Two tags of a kind on one commit would each have to come before the other.
`RerunsAreFound` is the safety half of `CandidateAnnounced`: from the same
invariant, whatever has been tagged since, the script answers a run of a candidate's
commit with this candidate and no other, to be resumed.

`LatestInvariant` and `LatestIsOnlyOvertaken` have no hypothesis on the line. A run
to production takes a number above all it has seen, a promotion moves `:latest` only
if its version is the newest it has seen, and `saw` does not change after that. A
commit that is released already (`known`) gets no further than the pre-check.

`SigningKeysProofs`. `KeysInvariant` proves `KeysInv`: a cached set holds only
keys that were served when it was fetched or later, and all that had been served
by then; a snapshot's keys were served within `CacheTTL` of its date, because the
set it is saved from may be that old. `RetiredKeysAreRefused` and
`RotationsAreFollowed` are action properties that follow from it at each verdict. `SpacedInvariant` relates the last two sets of
an environment: the later of two that are less than the interval apart was a forced
reload's, and the throttle of forced reloads then keeps the next one away.
`FetchesStaySpaced` concludes that of three fetches that are answered the last comes
the interval after the first. Two may come together, and the code means them to: the
miss on a set that has just been fetched is followed by a forced reload. It needs
`IntervalsAssumption`. A fetch that fails is recorded nowhere (oidc.py:209), so
nothing of the kind holds of failures.

`ReleaseBranchesProofs`. The argument is `Monotone`: no step takes a commit from
the target, and a merge-back branch grows, has come back or goes into `dropped`.
From it `BranchesInvariant` proves that what a run has read (`mbHead`) or written
(`head`) is still carried when it reports, for every run that does not move at
once; `PromisesAreCarried` alone says nothing about a run before its report.
`BranchesMoveForward` and `DeletesTakeOnlyLate` are action properties that follow
from it and from what the API refuses. `ReleaseLinesStayClean` adds that every
ref and every run knows commits that have been made only (`OnlyMade`), so that a
commit that lands on a release branch is not on the target.

`LambdaKeepsVerdicts` (in `SigningKeysProofs`) and `WorkerKeepsVerdicts` are the
refinements of `TokenVerdicts`: each step that gives a verdict is a `Decide` of
an allowed one by the invariant, the platform's loss of an environment is a
`Lose`, all else stutters or is the issuer's.

`WorkerKeysProofs`. `KeysInvariant` cannot say, as `SigningKeys` does, that a
cached set has what was served at its date: an answer is dated when it arrives.
`FlightOK` says it of the answer on its way relative to when the fetch was sent,
`SetOK` of a stored set up to `Timeout`, `SnapshotOK` of a snapshot up to
`CacheMaxAge + Timeout`, because it is put only of a set that was fresh. `sent[i]`
is a history variable, when isolate `i` last sent a forced reload, whether that was
answered or not. The last conjunct, that the throttle's
`forced` says the same, makes `ForcedReloadsSpaced` follow when the next one is sent: an action property, of any two forced reloads that are sent one after the other.

`BranchWritersProofs`. `WritersInvariant` is an argument about heads: commits are
numbered, a head that has been left is never a head again, so a call made with
the head before the change cannot pass `MayCommit` after it. `NoDuplicateUnseen`
follows from it; `NoPullForgotten` needs each step that makes a pull request fall
behind its base to be a `Land`, which sends the event.

`ReleasesViewProofs`. `CrawlInv` says that what has been there all the time is
listed, named or in an installation not yet visited, unless the crawl was cut or
marred or has reached the cap, and counts calls by visits and listed
repositories. A page that hides something has at least as many names as the cap
on repositories, so the crawl that works through it ends in `StopFull`, marked;
the lemmas under this are about cardinalities of finite sets.
`ShortListsAreMarked`, `AnswersRecent` and `BudgetIsKept` follow.

`TokenExchangeProofs`. `ExchangeInvariant` says that the environment of a request
in hand still has the key the request goes by (it is busy, so it is neither
recycled nor asked again), whatever is seeded, rotated or repointed meanwhile, and that
nothing of a request is left when it has its answer.

Every safety property that a passing run checks, and every action property, is a
theorem. Model-checked only: the liveness properties `CandidateAnnounced`, `PromotionAnnounced`, `CascadesEnd`,
`FallbackSuffices` and `OutagesPass` (liveness under fairness is beyond this
prover; of the first two the safety halves are proved, see above), and what is
violated.

## Not modelled

- The tools behind `versioning-tool`, scanners, signers, uploads, boards and
  ClickUp: their behaviour is outside the repository and they keep no state
  between runs here.
- CI image builds and previews: one actor per pull request. A release needs of
  them the image of a pull request, labelled with the tree it was built from, which is
  build 0 of `ReleaseRuns`.
- `publish-package.sh`: what a registry answers to a version it has differs by
  ecosystem and is not in this repository.
- `resolve-auth-token.sh`: a table over the inputs that are set.

## Plan

1. Candidates in `ReleaseBranches`, composed with `ReleaseRuns` through the tags.
2. Several images per release (the loop of `Promote images`), with `:latest` of each.
3. Pure parts: version comparison and suite changelogs as operators, checked
   against a reference definition.
