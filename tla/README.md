# Formal models of packer-plugin-numspot

This directory holds TLA+ models of the NumSpot plugin for Packer, the TLC
configurations that check them, and proofs that TLAPS checks.  Paths below are
relative to the repository (`src/` is its root).

## 1. The system

Packer calls the plugin's `numspot-bsu` builder.  `Builder.Run`
(`builder/bsu/builder.go:103`) builds one image: it launches a VM from a source
image, lets Packer provision it, stops it, registers an image of it and removes
what it created on the way.  It does so with a list of up to seventeen *steps*,
run by the SDK's step runner: `Run` of each step in order until one halts or
the build is cancelled, then `Cleanup` of every started step, last one first.
Steps communicate through a *state bag* (a map).  All lasting effects are calls
to the NumSpot service through a generated HTTP client, for which only a
transport failure is a Go error: a refusal (4xx, 5xx) leaves the error nil and
the typed body nil, and many handlers do not look at the body.

| component | source | state it keeps | operations | made correct by |
|---|---|---|---|---|
| Builder.Run | `builder/bsu/builder.go` | the steps, the bag | Prepare, Run | the order of the steps; an answer that agrees with what was left behind |
| name check | `step_pre_validate.go` | none | Run | no VM is launched while the name is taken |
| source image | `step_source_image_info.go`, `image_filter.go` | bag: source_image | Run | the selected image matches, and is the most recent of those |
| network | `step_network_info.go` | net, subnet, zone | Run | the subnet is one the user asked for |
| key pair, public IP, group | `step_key_pair.go`, `step_public_ip.go`, `step_security_group.go` | the id to delete | Run, Cleanup | created once, deleted whatever happens later |
| source VM | `step_run_source_vm.go` | vmId; bag: vm | Run (launch, wait, link, read), Cleanup | terminated before what it uses is deleted |
| volumes | `step_cleanup_volumes.go` | none | Cleanup | only unattached volumes the user did not map are deleted |
| Windows password | `step_get_password.go` | a goroutine and a channel | Run | one of answer, timeout and interrupt wins, and the others do no harm |
| stop | `step_stop_bsu_backed_vm.go` | none | Run | the VM has stopped before its image is made |
| deregistration | `step_deregister_image.go` | none | Run | old images go only with force, and late |
| image | `step_create_image.go` | the image read back; bag: images | Run, Cleanup | an aborted build withdraws its image |
| attributes, tags | `step_update_image.go`, `step_create_tags.go` | none | Run | |
| artifact | `artifact.go` | images, StateData | Destroy, State | Destroy deregisters the images |
| waits | `numspot/helpers.go` | ticker, timer | 4 waits | success only in the awaited state, an end in any case |
| client and token | `numspot/client.go` | token, expiry, lock | GetClient, authenticate | no call with an expired token, no blocked caller |
| SSH host | `ssh.go` | bag: vm | SSHHost | finds an address the service reports |
| configuration | `run_config.go`, `image_config.go`, `access_config.go`, `block_device.go` | the configuration | Prepare | only consistent configurations are accepted |
| data source | `datasource/image/data.go` | none | Execute | |
| generated client | `numspot/api.gen.go` | none | 120 operations | a call that brings the data, or says that it does not |
| retry | `retry/retry.go` | none | Run | bounded tries and intervals (used by nothing) |

What is hard in it:

* **failure**: any of some thirty calls may be refused, fail, or be executed
  without its answer; each step has its own idea of which of these it notices;
* **cancellation**: the context may be cancelled at any point, also between
  the last step and the return, and the bag's `cancelled` key follows later,
  set by another goroutine;
* **order**: Cleanups delete resources that depend on each other (the group and
  the linked public IP cannot go before the VM; volumes are listed after it);
* **environment**: the VM and the image change state by themselves while
  handlers wait for them;
* **shared state**: the token and its lock, the password goroutine, the VM in
  the bag, which `SSHHost` overwrites from a goroutine of the SDK, and the
  images of one name, which several builds may make and deregister at a time.

`PROJECT.json` lists the components with what is modelled of each, and the
hazards with the line where each bites and the property that would see it.

## 2. The modules

| module | models |
|---|---|
| `Cloud` | the part of the service one build touches: the source VM's life, its volumes, the temporary resources, the images of the destination name. External code: written from what the plugin's calls and waits rely on |
| `Build` | one `Builder.Run`: the runner, every step's `Run` and `Cleanup`, the result, `Artifact.Destroy`, the user's interrupt. EXTENDS `Cloud` |
| `BuildPromise` | what a build owes its user, in five actions; `Build` instantiates it with a refinement mapping |
| `MCBuild` | configurations for TLC |
| `BuildProofs` | proofs that `Build` is type correct, leaks no resource it knows of, accounts for the volumes, treats the images as it says, implements `BuildPromise`, and takes a bounded number of steps |
| `Builds`, `MCBuilds`, `BuildsProofs` | several builds of one image name over one catalogue of images and snapshots; proofs for any number of builds |
| `Waiter` | the four waits of `numspot/helpers.go`: ticker, timeout, context and the call that is out, each apart |
| `WaitPromise`, `WaitProofs` | what a wait owes its caller; proofs that `Waiter` implements it and is in time, and proofs about `PasswordWait` |
| `TokenClient` | `numspot/client.go`: the shared token, its lock, expiry and refresh, and handlers that keep a client |
| `TokenPromise` | what `GetClient` owes its callers; `TokenClient` instantiates it |
| `MCTokenClient`, `TokenProofs` | lifetimes for TLC; proofs of the token client's safety and promise |
| `ApiRequests`, `ApiResponses`, `Api` | the generated client: of each operation the request, the statuses its answer is decoded for, and the two together |
| `ApiCall`, `MCApiCall` | one call, from the parameters a step fills to what it concludes, for every place in the code that makes one |
| `CallPromise`, `ApiCallProofs` | the outcomes of a call; proofs that `ApiCall` implements it, and of what its calls ask and learn |
| `PasswordWait`, `MCPasswordWait` | `step_get_password.go`: `Run`, its goroutine and the variables they share; the same under names that can stand beside those of `Waiter`, for TLC and for `WaitProofs` |
| `ImageSelect` | `image_filter.go`: filters, query, the loop for the most recent image; also the core of the data source |
| `MCImageSelect`, `SelectProofs` | filter keys for TLC; proofs about the image chosen |
| `Network`, `MCNetwork`, `NetworkProofs` | `step_network_info.go`: the choice of net, subnet and zone; proofs about it |
| `Config` | `Builder.Prepare`: what becomes of a template, and what is said of it |
| `VmAddress`, `MCVmAddress`, `VmAddressProofs` | from a template to a connection: `Prepare` (EXTENDS `Config`), key pair, launch, published address, password, `SSHHost` in its goroutine, Cleanups; proofs about it and about `Config` |

How they compose.  `Build` is the whole; the others look into what it has as a
single action with several outcomes:

* a wait is one action of `Build` that ends in one of the answers of
  `WaitPromise`; `Waiter` shows that the code's loop gives no others, and that
  it ends;
* a call has the outcomes of `CallPromise`; `ApiCall` shows that, whatever the
  service answers, a call of the code has no others.  A failed `GetClient` is a
  failed call: `TokenClient`;
* the source image, network and password steps continue or halt;
* the connection continues or halts; `VmAddress` has what it needs to succeed;
* another build of the same name is the environment in `Build`'s catalogue,
  which stays as the build left it; in `Builds` it is not.

### State of `Build` and the code

| variable | code |
|---|---|
| `cfg` | the prepared `Config`, reduced to the fields that steer control flow; a constant of the behaviour |
| `pos`, `pc` | the runner's place in the list of steps and its phase (`runner`, `run`, `unwind`, `return`), or a label inside a handler that waits |
| `interrupted`, `bag` | the context is done; the keys of the state bag that are tested: `error`, `cancelled`, `halted`, `vm`, `images` |
| `known` | the ids the steps have stored for Cleanup: `doCleanup` of the key pair and the public IP, `createdGroupID`, `vmId`, `s.image` |
| `todo`, `doomed` | what remains of the two loops (old images to deregister, volumes to delete) |
| `keyFile` | the debug key file |
| `result` | what `Run` returned |
| `lost`, `abandoned` | history, for the properties only: resources whose creation was executed but not answered (or a query refused); resources whose deletion failed or was skipped, and the key file if its removal failed or its Cleanup got no client |

The handler of a step is one action per stretch between two points where the
outside can matter: a create call is one action, a wait is another, and the
code around them belongs to the action it surrounds.  `StepRunSourceVm.Run` is
`RunSourceVm`, `WaitVmRunning`, `LinkPublicIp`, `PublishVm`; its Cleanup is
`CleanupVm`, `WaitVmGone`.  Reads, `GetClient`, type assertions on the bag and
the parsing of ids are one possible failure of the action they occur in.

The outcomes of a call, wherever the code distinguishes them:

1. accepted and answered;
2. not executed, and the handler notices (a transport error, or a handler that
   tests the body);
3. refused, and the handler does not notice (deletions, StopVm, the queries of
   the name check and of the deregistration);
4. executed, and the answer lost (a cancelled context, a cut connection, a body
   without an id).

The runner is external code.  As the SDK has it: before each step it checks the
context; after a step it stops on `cancelled`, on `ActionHalt` (putting
`halted`) or at the end of the list; Cleanups run in reverse order; the
goroutine that turns a cancelled context into the key `cancelled` lives until
the last Cleanup.  With `-on-error=abort` Cleanups of an aborted build are
skipped.

Abstracted: names, tags, texts, sizes; the snapshots of one old image are one;
the volumes are one per device; a temporary resource exists or does not.  A
panic of the process ends no behaviour of `Build`: where the code can panic is
in `PasswordWait`, `Network` and `VmAddress`.

### State of the other modules and the code

| module | variable | code |
|---|---|---|
| `TokenClient` | `now` | the clock |
| | `expiration`, `client` | `AccessTokenExpiration`; the token in `s.Client`, as the last instant it is valid |
| | `reply` | the token issued to the request in flight |
| | `pc`, `since`, `held` | per goroutine: its place in `GetClient` and `authenticate`, when it last looked at the clock, the client it was given or saw then |
| `PasswordWait` | `err`, `password` | the captured variables of the goroutine |
| | `cancel`, `waitDone` | the two channels |
| | `helper`, `pc` | the places of the goroutine and of `Run` |
| | `key` | whether `SSHPrivateKey` is a PEM block |
| `ImageSelect` | `catalogue`, `filters`, `mostRecent` | the service's images; `d.Filters`, `d.MostRecent` |
| | `sent`, `listing` | the parameters filled; the answer, in the service's order |
| | `next`, `best`, `bestTime` | the loop of `mostRecentImage` |
| `Network` | `nets`, `subnets`, `cfg` | the space; the configuration |
| | `net`, `subnet`, `zone` | the fields the step resolves |
| `Waiter` | `kind`, `latency` | which wait; how long this service may take |
| | `object` | the state of the VM or image |
| | `pc`, `answer`, `age` | the place in the loop, or what was returned; the call that is out |
| | `phase`, `tick`, `left`, `interrupted` | the ticker and its channel of one tick, the timeout, the context |
| | `seen`, `steady`, `late` | history: the states so far; how long the object has been in a deciding state; how long the timeout has been over |
| `Builds` | `force`, `deleteSnapshots` | the options of each build |
| | `image`, `snapshot` | the catalogue |
| | `pc`, `found`, `shown`, `known`, `bag`, `outcome` | of each build: its place, the list it deregisters and the snapshots the list told, `s.image`, the keys of its bag, what `Run` returned |
| | `earlier`, `last`, `refused`, `loose` | history: what stood when a build began, which made its image last, whose call was refused, whose snapshots were left |
| `ApiCall` | `call` | where in the code it is made, of which operation, with which lists, and what of the answer that code looks at (`heeds`) |
| | `stage`, `executed`, `reply` | how far it is; how often the service executed it; the HTTP answer |
| | `response`, `verdict`, `interrupted` | what the client's method returned, what the step concluded; the context |
| `VmAddress` | `cfg` | the template, then the configuration |
| | `keyPair`, `privateKey` | what the VM is launched with; `s.Comm.SSHPrivateKey` |
| | `coming`, `shown`, `assigned` | what the VM's record will show and shows; the record of the public IP |
| | `polls`, `vm`, `bag`, `listed` | the loop for the public IP; the VM as read; the bag; the volumes found there at the end |
| | `look`, `tried`, `host`, `late` | `SSHHost`; a write of it after its step |

In `TokenClient` a goroutine's call is cut where another can come between:
`CallGetClient`, `IsTokenExpired` (under the read lock), `LockToken` with the second
look, the request (`IssueToken`, `AuthFails`), `StampExpiration`, `SwapClient`,
`ReturnClient` (the read of `s.Client`, which a caller that found the token fresh
does without the lock).  The expiration is computed from the time the answer is
handled, while the token's life began when it was issued: `MaxLatency` bounds the
difference, `MaxPause` the time from `isTokenExpired` to that read.  `NewClientWithResponses` cannot fail the second
time, since it takes the same arguments as the first.

In `PasswordWait` the two writes to `err` and its two reads are separate steps,
as they are unsynchronised in the code.  In `ImageSelect`, dates are small
numbers and zero is none; a date before 1970 counts as none in the code too, and
images without an id are left out.

In `Waiter` the loop's `select` is a choice of any channel that is ready, as in
Go; a tick that finds the ticker's channel full is dropped.  The service answers
within `latency`, or with a refusal; a cancelled context ends the call that is
out.  In `Builds` a build's stretches between two calls are one action, as in
`Build`; the VM, the volumes and the other resources are left out, since builds
do not share them.  In `ApiCall` the texts of URLs and bodies are the names of
what they carry; an answer is a status, whether its body is JSON, and whether the
field that matters is filled in.  In `Config` a template is the set of the
settings it gives, and of the few whose value is tested the sort of the value;
`image_regions`, a list whose order nothing looks at, is how often it holds each
region.

## 3. What is checked

Instance of `Build`: two devices (a root device and one the user may map), two
old images of which any subset exists at first, the configurations of `MCBuild`.
Everything else in the model is finite by itself, so no bound cuts a behaviour
short.

Two devices are enough to have a mapped and an unmapped volume at once, two old
images to stop the loop between them.  The configurations are chosen so that
every guard on `cfg` is both taken and not taken, in the combinations that
interact: force with and without snapshots, debug key, Windows password with
manual stop, shutdown by termination, an unknown shutdown behaviour, image
mappings without root device, skip_create_image, abort.

| run | properties | shows |
|---|---|---|
| `build` (ten configurations, 1 330 000 states) | `TypeOK` and the eight below | the build is safe, implements its promise, and ends |
| `builds` (1 900 000) | `TypeOK`, `LastImageStands`, `NameClearedFirst`, `SnapshotsAccounted` | what two builds of one name do to each other's images |
| `waiter` (145 000) | `TypeOK`, `EndsInTime`, `DecisionNoticed`, `PromiseKept`, `Ends` | the waits, with ticks, timeout, cancellation and answers in every order |
| `token` (188 000) | `TypeOK`, `ShortCallsAuthorised`, `PromiseKept`, `Answered` | the token client under contention |
| `api_call` (135 000) | `CreationKnown`, `ReadsAreNarrow`, `PromiseKept`, `CancelEndsCall` | each call of the code, under every answer |
| `password` (204) | `PasswordTypeOK`, `GoesOnWithPassword`, `RunEnds`, `HelperEnds` | the race of answer, timeout and interrupt |
| `image_select` (382 000) | `MostRecentChosen`, `ChoiceUnambiguous` | which image is chosen |
| `network` (840 000) | `SubnetWellChosen`, `GroupInNetOfVm` | which net and subnet are chosen, while others add some |
| `vm_address` (475 000) | `PrepareSettled`, `AcceptedRuns`, `HostAsAsked`, `VolumesListed`, `AddressFound`, `Unwinds` | what `Prepare` accepts can be connected to |
| `aborted_image`, `destroy`, `password_timeout` | one each | places where the code does not do what its comments say (section 5) |

### `build`

* `NoTrackedLeak`: `Run` never returns while a key pair, key file, public IP,
  group or VM it created exists, unless a call about it failed or its Cleanup
  got no client; the key file also stays if its removal fails.  For a group
  and a public IP a failed call about the VM counts, since the service refuses
  to delete them while the VM lives, and the handlers do not notice a refusal.
  This rests on the order of the list of steps: with the group's step after
  the VM's it fails.
* `ArtifactIsUsable`: an artifact of a build nobody cancelled names an image
  that is available.
* `NameTakenStopsBuild`: without force no VM is launched while the name is
  taken, unless the service refused the query.
* `VolumesSettled`: after a build that put its VM into the bag and could deal
  with VM and volumes, exactly the volumes the user mapped and did not mark for
  deletion remain.  Of a build that failed between the launch and that point it
  says nothing: Cleanup has no list of volumes then.
* `ImageFromStoppedVm`: an image is only made of a VM that no longer runs,
  though the status of StopVm is never looked at.
* `OldImagesKept`: an old image goes only with force, after the VM was
  provisioned and stopped, and before the new image is made.

`PromiseKept` is refinement: `Held`, what the build knows of and must still
clean up, is `BuildPromise`'s `held`; the image is `published` when it was read
back and stands, `withdrawn` after.  The build answers once, holds nothing when
it does, an artifact means that an image was published and an error that none
stands.  In particular an error means that an image the step had read back is
gone, or its deletion failed.

`Termination`, that the build returns, is under weak fairness of the builder's
own steps alone.  Nothing is assumed of the service: its VM may never boot, its
image never settle.  The fairness is that of a running process whose waits all
have timeouts (`helpers.go:11-14`, ten minutes; the connection and password
timeouts of the configuration).  It takes two things on trust: that provisioning
ends, and that every HTTP call ends.  The second is weaker than it looks: a call of the build's own context
ends at the latest with the build's cancellation (`CancelEndsCall` of
`api_call`), but the client has no timeout of its own (`client.go:190`) and the
calls of Cleanups use a background context, so a peer that stays silent on a
live connection blocks a Cleanup for good.  The service's and the user's actions
have no fairness.

### `builds`

Two builds with every choice of the two force options, one old image or none;
every failure of a call and an interrupt at any point.  Two builds are enough
for each overlap of two; the proofs are for any number.

* `LastImageStands`: when every build has returned an artifact and none was
  cancelled, the image made last is available.  Two builds may both find the
  name free and both make it, or deregister each other's image; what they
  cannot do is to leave the name without an image.
* `NameClearedFirst`: once a build has made its image, none stands that stood
  when it began, unless a call of it was refused.
* `SnapshotsAccounted`: snapshots outlive their image only when its own build
  withdrew it (`step_create_image.go:244` deregisters and no more), or no build
  that deregistered it was to delete them or was told of them.

### `waiter`

`Interval = 2` stands for the ticker's ten seconds and `Timeout = 6` for the ten
minutes: the timeout is three ticks away, so ticks are used, dropped and left
over.  `Latencies = {1, 3}` has a service that answers within an interval and one
that does not.  All four waits are started on an object in any state, which
moves on by itself.

* `EndsInTime`: while calls are shorter than the interval, a wait outlasts its
  timeout by one call at most, although `select` may prefer a tick to it.
* `DecisionNoticed`: an object that stays where the wait is decided is noticed
  within an interval and two calls.
* `PromiseKept` (refinement of `WaitPromise`): the wait answers once; success,
  an unexpected state, the timeout and the cancellation are only reported of an
  object, a clock or a context of which they were true.
* `Ends`: every wait ends, though the object never changes.  The loop and time
  go on (weak fairness); the timeout and the cancellation are taken under strong
  fairness, since a service slower than the interval puts a tick beside them at
  every round, and Go's `select` chooses among ready cases at random: it does not
  pass over one of them forever.

### `token`

Three goroutines (`MCTokenClient.cfg`): the code's own are the runner, the
password goroutine and the one that connects.  A tick is two and a half
minutes, so the margin of five minutes is `Margin = 2` and the wait of ten
minutes after which a handler still uses its client is `MaxHold = 4`.  An answer
takes up to one tick, as does a pause.  Lifetimes are zero (an answer without
`expires_in`, which `authenticate` refuses as too short), and two that differ in
how often they are refreshed within `MaxTime = 9`: at least twice, with all three
callers queued for the lock.

* `ShortCallsAuthorised`: a handler whose calls follow `GetClient` within the
  margin (less the latency) makes none with an expired token, although the
  client is read after the lock is released and others may be replacing it.
* `PromiseKept` (refinement of `TokenPromise`): a token is granted only with
  enough life left, and is replaced only when what remains is below the margin,
  by one that lives longer: of the goroutines queued for the lock only the first
  asks for a token.
* `Answered`: every `GetClient` returns.  Fairness is strong, for each
  goroutine's step: `sync.RWMutex` does not starve a waiter, so a goroutine for
  which the lock is free again and again takes it; and every HTTP call is
  assumed to end.

### `api_call`

Every call of a step, a wait, `SSHHost` or the data source, with the parameters
that place fills, and each of the other operations of the client (120 in all) as
a caller that wants its data would make it.  The service answers any status that
the client decodes, or one that it does not (502, as a gateway's), with or without
JSON and the field that matters, executes before, after or without its answer, or
stays silent; the context is cancelled at any point.

* `CreationKnown`: what the service made and answered for in full is known to
  the step that asked for it, hence to its Cleanup.
* `ReadsAreNarrow`: a step that asks for some objects of a collection never reads
  all of it for want of a value or a parameter.  `StepDeregisterImage` deletes
  every image it reads.
* `PromiseKept` (refinement of `CallPromise`): the outcomes are those of `Build`.
* `CancelEndsCall`: a call of the build's own context does not outlive it.  The
  client goes on, and stops waiting when the context is done (weak fairness);
  nothing is assumed of the service.

### `password`

* `GoesOnWithPassword`: `Run` reads the captured variables only when the
  goroutine has assigned both.
* `RunEnds`, `HelperEnds`: the step returns though the service never gives a
  password, and the goroutine stops polling and does not block on its channel,
  whatever ended `Run`.  Fairness is weak, for each of the two goroutines: both
  are scheduled, timers fire, calls end.  The model is finite without bounds.

### `image_select`, `network`

Every catalogue of three images with two dates (and none), matching any subset
of three filter keys, two of which stand for one parameter while one is
unknown; every order of the answer.  Two images would do for the choice; three
make the loop see a newer, an older and an undated one in any order.

* `MostRecentChosen`: none of the images that pass the filters sent is newer.
* `ChoiceUnambiguous`: without `most_recent` an image is used only if the user's
  filters leave no choice, as long as their keys are known and distinct.

Every space of up to three subnets in two nets and two zones, with no or one
free address each, and every configuration of ids, filters and criteria; others
add nets and subnets while the step runs.  Two numbers of free addresses give
subnets that differ and subnets that tie; two nets, a second one that comes
after the first was found to be the only one.  What others delete is left out: a
read or launch that names it is refused.

* `SubnetWellChosen`: no subnet is guessed among several that were found, and
  `most_free` wins over `random`.
* `GroupInNetOfVm`: without a `net_id`, the net the group is made in is the one of
  the subnet the VM is launched in, although both are found by separate queries
  that ignore their filters; unless someone made that subnet between the two.
  TLC finds the race when the exception is dropped.

### `vm_address`

The templates are families about some settings each: all credentials up to two
at a time with either communicator, all interfaces with and without a public
IP, and every other setting on its own at its boundary values (lengths 2, 3,
128 and 129 of the image's name, 59 and 60 minutes).  The checks of `Prepare`
concern one setting or two, so larger combinations add none.  The VM's record
comes to show one of three sets of attributes, one attribute after the other.
Of regions there are three, the configured one and two others, so that
`image_regions` may hold one twice and leave one out.  `MaxPolls` is two for the
code's 30: a poll differs from the next only in being the last.

* `PrepareSettled`: what `Prepare` accepts, it accepts again and leaves as it is.
* `AcceptedRuns`: what it accepts makes no handler panic, up to the exception of
  section 5.
* `HostAsAsked`: the address connected to is that of the interface named.  With
  none named the documents promise the public IP; the code departs from that for
  a VM of no net, for one with no public IP of its own (the code's default,
  section 5), and for one whose address did not appear in all polls, and nowhere
  else.
* `VolumesListed`: the Cleanup finds the VM's volumes in the bag, unless
  `SSHHost` wrote to it after its step had been left (`late`).
* `AddressFound`: an address the VM comes to show is found, however late.
* `Unwinds`: an interrupted build ends, though the sleep at
  `step_run_source_vm.go:281` looks at no context.

The steps, the calls of `SSHHost` and the record that comes to be complete have
weak fairness.  The re-read has strong fairness: it may fail again and again,
but not always.

### Symmetry

`image_select`, `network` and `builds` use the symmetry of ids and builds, which
is sound: no definition tells one from another, and no liveness is checked
there.  The type invariants of `Network`, `ApiCall` and `VmAddress` are not run
but proved; that of `ImageSelect` is part of its proved invariant.

### All runs

`CHECK_DEADLOCK` stays on: the finished states stutter by the action
`Finished`, so a handler with no enabled outcome would be reported.

Each property has a mutant in `PROJECT.json`: a changed definition (steps in
another order, a wait satisfied too early, a Cleanup that forgets a case...)
under which TLC finds it violated.

## 4. What is proved

`Build`, for every set of configurations, devices and old images; the one
assumption is `ConfigsAssumption`, that configurations are records of
`ConfigType`:

* `BuildProofs!TypeCorrect`: `Spec => []TypeOK`.  `TypeOK` is not inductive:
  nothing in it keeps `pos` within the list when the runner adds or subtracts
  one.  `PosOK` says that `pos` stays within the list of this configuration and
  is zero only while unwinding; `TypeInv` is both.  One lemma covers all that a
  handler may do to the control state, the rest is one step per action.
* `BuildProofs!NoLeak`: `Spec => []NoTrackedLeak`.  The property speaks of
  the end only.  `LeakInv` follows each resource from its step to its Cleanup:
  - `NotYet`: before its step a resource does not exist (so an early unwinding
    leaves nothing);
  - `Tracked`: a resource that exists is known to its step, or its answer was
    lost;
  - `Behind(p) => Settled(p)`: once the unwinding is past step `p`, what that
    step created is gone or excused.  For the group and the public IP this
    needs the VM's case, at a later position and hence already behind: the
    place where the proof uses the order of the steps (`StepsOwners`);
  - `LabelPos`: the labels inside a handler occur at its position only.

  The Cleanup of the key pair settles two things, each of which may fail without
  the other.  `ForwardLeak` covers the steps that create nothing, `CleanupLeak` every
  Cleanup, `SettledStays` the fact that an excuse is never withdrawn.
* `BuildProofs!VolumesAccounted`: `Spec => []VolumesSettled`, with `VolumesInv` on
  top of the other two.  `VmPublished` says that the VM in the bag is the one
  Cleanup knows; `VmGone` and `VolumesReleased` that once the VM's Cleanup is
  behind, the VM is terminated and its volumes are free or excused;
  `DoomedRight` that the loop deletes no mapped volume and forgets none of the
  others; `VolumesLeft` is the property for the time after that Cleanup.
* Of the images: `NameGuarded`, `ArtifactAvailable`, `ImageOfStoppedVm`,
  `OldImagesSafe` (`NameTakenStopsBuild`, `ArtifactIsUsable`, `ImageFromStoppedVm`,
  `OldImagesKept`) and `PromiseHolds`, `Spec => PromiseKept`: initial states map to
  initial states, and each step to a step of `BuildPromise` or a stutter.
  `ImageInv` has what a step finds of the steps before it (`OnTheWay`: the bag is
  clean, the VM has stopped before the image is made, the image's place in bag
  and Cleanup), what the name check saw (`NameSeen`), that an image read back is
  available or was deregistered by its own Cleanup (`ImageKnown`, `Withdrawn`),
  and what the result may say of it (`Told`).  For the refinement, `HeldNarrows`
  and `HeldWidens` say which actions take from and add to what is held, and
  `QuietStep` and `AcquireStep` turn them into steps of the promise.
* `BuildProofs!RunIsBounded`, the safety half of `Termination`: `Way` counts, from
  the place in the list and inside a handler, what may still come, up to 175;
  every step of `Run` makes it less, but one turn of the loop over the old
  images, which makes `todo` less; no step of the service, the user or the
  runner's watcher adds to either.  So a build can fail to return only by a
  step that is never taken, which is what the fairness excludes.

`Builds`, for any set of builds and of old images (`BuildsAssumption`: at least
one build, the sets disjoint): `BuildsTypeCorrect`, `BuildsLeaveAnImage`,
`BuildsClearName` and `BuildsAccountSnapshots`, all from `BuildsInv`.  Its heart is
`LastGone`: if the image made last is gone, then a build deregistered it that has
yet to make its own, or was aborted.  `OwnImage` and `OutcomeOK` tie a build's
place to its image and its outcome; `Clearing` says that what stood when a build
began is on its list until it is deregistered, and that no image comes back.

`Waiter`, for any interval, timeout and latencies (`WaitAssumption`: the first
two positive): `WaitTypeCorrect`, `WaitEndsInTime`, `WaitNotices` and
`WaitKeepsPromise`.  `WaitInv` adds to the type invariant that a tick waiting in the
channel is apart from the next by the phase (`TicksApart`), that the timeout is
over only during a call when calls are short (`LateOnlyInCall`), how long a
deciding state can be unnoticed at each place of the loop (`Unnoticed`), and that
the history has what the answer says (`HistoryOK`).

`TokenClient`, for any set of callers, any lifetimes, and any margin, latency,
pause and bounds that are natural numbers (`TimeAssumption`):

* `TokenProofs!TokenTypeCorrect`, `ShortCallsSafe` and `TokenPromiseKept`, the
  last a proof of refinement (initial states and steps).  All three follow from
  one inductive invariant, `TokenInv`, in five parts: `Mutex` (one goroutine is
  inside the lock), `Outlives` (the recorded expiration is earlier than the
  client's real one by the margin, up to the latency), `Refreshing` (the same
  for the one being put in place), `NoStrayReply`, and `Granted` (what a caller
  holds had enough life left when it was given).  `Outlives` is the reason that
  the unlocked read is harmless: whichever client is read, old or new, outlives
  what the look at the expiration promised.

* `TokenProofs!OneRefreshes`: one goroutine at a time is in `authenticate`, and
  requests a token only while the shared one is still expired, so those queued
  for the lock do not ask again.

`PasswordWait` (in `WaitProofs`): `PasswordTypeCorrect` and `PasswordCorrect`,
`PasswordSpec => []GoesOnWithPassword`.  The invariant adds `Assigned`: once the goroutine is
past its assignment and `Run` still waits, `err` and `password` belong together, and
`waitDone` is full only after it; and `Released`: when `Run` has returned, the
goroutine has ended or `cancel` is closed.  From the latter follows
`HelperIsBounded`, the safety half of `HelperEnds`: after `Run` the goroutine takes at
most five more steps, and its channel has room when it signals.

`ApiCall`, for any statuses and any values, of which there is at least one
(`CallAssumption`): `CallTypeCorrect`, `CreatedIsKnown`, `NarrowReads` and
`CallKeepsPromise`.  Two sorts of facts come together.  Some are about the tables:
`CallsFine` says of every call of the code, place by place, that it is a query for
what is given if it asks for some objects, and that the data is looked at if it
creates something; `CreationsDecoded` that the client decodes the 201 of each of
the five creations; `ParseFine` what the client makes of an answer.  The others
are the parts of `CallInv`: before the request nothing has happened
(`RequestInv`), success is answered only of what was executed (`AnswerInv`), the
response is a failure or what `Parse` makes of the reply (`ResponseInv`), and the
verdict is `Verdict` of that response (`VerdictInv`).

`Config` and `VmAddress`, for any templates of `TemplateType`, records of the VM
and number of polls (`AddressAssumption`): `AddressTypeCorrect`,
`PrepareIsSettled`, `AcceptedTemplatesRun`, `HostIsAsked` and `VolumesAreListed`.
Of `Prepare`: `PreparedFields` gives what becomes of each field, `NamesKept` which
settings are filled in or moved, `AcceptedIsClean` what acceptance says setting
by setting, `PreparedTwice` and `PreparedClean` that a second `Prepare` changes
nothing and accepts.  `AddressInv` adds to the types where the VM is read and
published (`WhereVm`, `WhereBag`) and `SSHHost` runs (`HostAfterVm`,
`TriesBounded`); that a missing private key is the template's (`KeyMissing`); that
what was read of the VM is still shown while the build needs it, and what
`SSHHost` writes over it has its volumes (`StillShown`, `NetKnown`,
`VolumesInBag`); and that with polls to spare the public address is in the bag
before the first look (`PublicFirst`).  `BuildIsBounded`, the safety half of
`Unwinds`: from `Prepare` on there are at most `MaxPolls + 9` steps, and nothing that
`SSHHost`, the service or the user does adds one.  `image_regions` is a count per
region because what a fold over a list computes for every list would take an
induction.

`ImageSelect`, for any finite set of images, any dates and keys:
`SelectProofs!MostRecentCorrect`, `Spec => []MostRecentChosen`.  `SelectInv` has the
loop invariant of `mostRecentImage`: `bestTime` bounds the dates of the images
already seen, and is the date of `best` unless none was dated.
`SelectProofs!NoChoiceLeft`, `Spec => []ChoiceUnambiguous`: `ChoiceInv` says that the
parameters sent are some that the filters can make, that the loop runs for
`most_recent` only, and that an image chosen without it is the only one found;
`AllSent` that filters whose keys are known and distinct are sent whole.

`Network`, for any nets, subnets, zones and numbers of free addresses
(`NetworkAssumption`): `NetworkTypeCorrect`, `SubnetChosenAsSaid` and `GroupWithVm`.
`NetInv` has that subnets lie in nets of the space (`World`), that a net found by
a filter is that of all subnets but those made since (`NetKnown`), and that a
subnet the user did not name is among those that `Choice` allows of the ones found
(`SubnetKnown`).

Every safety property of a passing run is proved.  Only model-checked is
liveness (`Termination`, `Ends`, `Answered`, `RunEnds`, `HelperEnds`,
`CancelEndsCall`, `AddressFound`, `Unwinds`): fairness and ENABLED are out of the
prover's reach.  Of `Termination`, `HelperEnds` and `Unwinds` the bounds that they
rest on are proved, as said above.  The three runs of section 5 stay with TLC:
they are counterexamples.

## 5. Where the code differs from what is said of it

1. `aborted_image`: `step_create_image.go:205` says that Cleanup deregisters the
   image of a cancelled or halted build.  `s.image` is set after the wait and
   the read (line 181); if either fails, Cleanup does nothing.
2. `destroy`: `artifact.go:69` says that Destroy deregisters the images; it
   looks up `accessConfig` in a StateData that never has it (`builder.go:252`).
3. `password_timeout`: the timeout case assigns `err` and reads it again
   (`step_get_password.go:80-82`) while the goroutine may set it to nil: the
   process panics and nothing is cleaned up.

Seen while modelling, without a run of their own.  The models have these
behaviours, and the properties above except them by name:

* an interrupt after the last step's last call makes Cleanup deregister the
  image, while `Run` looks at `error` and `images` only and returns an artifact
  for it ("Images were created", `artifact.go:50`);
* `docs/configuration.md:284` gives `delete_on_vm_deletion` the default `true`;
  `block_device.go:57` sends false for an unset flag;
* `docs/configuration.md:216` and `docs/troubleshooting.md:141` give `public_ip` as
  the default of `ssh_interface`; unset, the code takes the public DNS name of a
  VM of no net, and the private address of a VM of a net that shows no public one
  (`ssh.go:64`; `DepartsFromDefault`);
* `README.md:148`, `docs/configuration.md:57` and `docs/troubleshooting.md:155` give
  `associate_public_ip_address` the default `true`; it is a plain bool, so unset it
  is false, no public IP is made (`step_public_ip.go:45`), and with no interface
  named either the VM is connected to by its private address;
* a Cleanup of the key pair that gets no client returns before it comes to the
  debug key file, and leaves the private key on disk (`step_key_pair.go:167`);
* a build that fails after the launch and before its VM is in the bag deletes
  none of the VM's volumes (`step_cleanup_volumes.go:59`): one that is not to go
  with the VM stays;
* net and subnet are found by separate queries (`step_network_info.go:93`, `:127`):
  a net that another user makes between them may give the subnet;
* `README.md:346` says that the token is refreshed when needed; a handler looks
  at it once and keeps its client through a wait of ten minutes;
* `docs/configuration.md:64` and `:89` say that filters discover resources;
  `step_network_info.go:127` sends none, and `step_security_group.go:95` sends
  only the key `name`: with any other, every group of the space is read;
* a VM whose creation was executed and not answered is unknown to Cleanup
  (`step_run_source_vm.go:186`; `lost` in `Build`);
* two overlapping builds may both find a name free and both make it
  (`step_pre_validate.go:68`), and the snapshots of an image that its own build
  withdraws stay (`step_create_image.go:244`);
* `ssh_password` or `ssh_agent_auth` in a WinRM build without a key pair is
  accepted, no key is made, and the decryption of the password panics
  (`AcceptedRuns`); so does a private key that is no PEM block
  (`step_get_password.go:175`), and a refused query for nets
  (`step_network_info.go:106`);
* `SSHHost` looks at no context: it may put the VM into the bag while Cleanups
  run (`ssh.go:96`), and the third re-read is never looked at (`ssh.go:35`);
* a list that is set but empty would be encoded as one empty value by the
  generated client; no step fills one;
* filter keys of images that are not known are dropped (`image_filter.go:83`),
  though `docs/configuration.md:127` gives `tag:Environment` as an example; with a
  `net_id`, a subnet found by filter may lie in another net; without `subnet_id`
  and `subnet_filter` no subnet is looked for, though `README.md:87` says that a
  single one is found.

## 6. What is not modelled

* Formatting: templates, tags, the wording of messages (`tags.go`,
  `interpolate_build_info.go`, `template_funcs.go`), and the copying of an image's
  fields into the data source's output.
* Generated declarations without behaviour: the types of `types.gen.go`, the HCL
  specifications (`*.hcl2spec.go`).
* `retry/retry.go`: nothing in the plugin calls it.
* Constants, error values, a step that does nothing and is in no list,
  registration in `main.go`.
* The SDK (step runner, StepConnect, its checks of the communicator) and the
  service are external: modelled from what the plugin relies on.

Left for later: the provisioning and connection steps of the SDK in `Build` have
one outcome each; `VmAddress` could be joined with `PasswordWait` for the order of
password and address; `Builds` has no Cleanup that blocks.
