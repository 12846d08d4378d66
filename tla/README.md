# HOME_CARE 360 back end: verification project

TLA+ models of the NestJS services in this repository, the TLC runs that check
them on small instances, and theorems about them proved with TLAPS.

## 1. The system

Five NestJS applications share `libs/common` and one PostgreSQL database
(`prisma/schema.prisma`). The gateway is the only one clients reach; it turns
each HTTP call into one request/reply message over TCP.

| component | state it keeps | operations | talks to |
|---|---|---|---|
| gateway (`apps/gateway`) | the calls that wait for a reply, per connection | one HTTP route per operation, behind the global `AuthenticationGuard` and the validation pipe | auth, manager, media: `client.send(pattern, body)` and the first reply |
| auth: accounts (`auth.service.ts`) | `VerificationCode`, `User`, `CustomerProfile`, `ServiceProvider` rows | `sendOTP`, `register`, `registerProvider`, `forgotPassword` | database, e-mail (Resend) |
| auth: sessions (`auth.service.ts`) | `Device`, `RefreshToken` rows | `login`, `generateTokens`, `refreshToken`, `logout` | database, JWT |
| auth: sign-in factors (`auth.service.ts`) | none of its own; reads `User` with its roles, LOGIN codes | what `login` and `refreshToken` decide on | database, bcrypt, TOTP |
| auth: Google sign-in (`google.service.ts`) | the OAuth client's credentials (one object per process) | `getAuthorizationUrl`, `googleCallback` | Google, database |
| manager (`apps/manager`) | `ServiceProvider.verificationStatus` | `updateProviderStatus` | database |
| guards (`libs/common/src/guards`) | none; reads `Role`, `Permission`, `ServiceProvider` | `AuthenticationGuard` (and/or), `AccessTokenGuard`, `PaymentAPIKeyGuard`, `VerifiedProviderGuard` | database |
| role cache (`shared-role.repo.ts`) | role ids, per process, never refreshed | `get…RoleId` | database |
| media, provider, e-mail, hashing, 2FA, AI, S3 wrappers | none | one library call each | libraries |

`CommonModule` installs `AuthenticationGuard` in every application. The services
are hybrid applications whose microservice does not inherit the global guards
and pipes, so a message handler runs neither: the gateway's checks are the only
ones. `VerifiedProviderGuard` and the `PaymentAPIKey` mark are used by no route
yet; they are modelled as they are written.

Bookings, schedules, staff, payments and RabbitMQ appear in the repository's
README and in the schema, and have no code here.

**What is hard here.** No operation runs in a database transaction. Every
handler is a chain of awaits, so requests interleave at every database call;
`register`, `registerProvider`, `forgotPassword` and `refreshToken` start two
or three calls side by side with `Promise.all`, which answers at the first
rejection while the other calls go on in the background. Checks (`validate`,
`findUnique`, duplicate tax number) are separated from the writes that rely on
them by several awaits. Two objects of a pod are shared by all its requests: the
OAuth client, into which every Google callback puts its caller's credentials, and
the role cache, which nothing refreshes. A pod may die between any two calls, and nothing
repairs what it leaves. What keeps the system correct is therefore little: the
unique indexes, the fact that `delete` fails when there is nothing to delete,
and where each `await` stands. `PROJECT.json` lists each hazard at its line.

**What correctness means.**

* accounts: a code works once, for one address and one purpose; a resend
  supersedes; success means every row is there; a refusal that raced nobody
  leaves nothing; one provider per tax number.
* sessions: one live refresh token per device; sign-out is final; a delivered
  token works until it is used; of several racers for one token one succeeds.
* identity: a Google callback signs in its own caller; an account's role is the
  one its maker asked for.
* sign-in: tokens rest on a password and a second factor that were right, and
  carry the roles the user had then; a refresh carries those of its own moment.
* manager and guards: only an allowed caller changes a provider, an
  acknowledged change was one, and a token names its own business only.
* gateway: a call is answered, with its own outcome; it runs at most once, and
  never unchecked.

## 2. Modules

| module | what it is |
|---|---|
| `SingleUse` | abstract specification of a one-time credential: issued once, spent at most once, dead afterwards |
| `Accounts` | accounts, one action per awaited call |
| `MCAccounts`, `accounts_*.cfg` | instances of it |
| `Accounts_proofs` | its theorems |
| `Sessions` | sessions, one action per awaited call |
| `MCSessions`, `sessions_*.cfg` | instances of it |
| `Sessions_proofs` | its theorems |
| `Identity` | registrations and Google callbacks over the OAuth client and the role cache of their pod |
| `MCIdentity`, `identity_*.cfg` | an instance of it |
| `Identity_proofs` | its theorems |
| `SignIn` | what a login and a refresh rest on, while the user row, its roles and its codes change |
| `MCSignIn`, `signin_*.cfg` | an instance of it |
| `SignIn_proofs` | its theorems |
| `Guards` | `AuthenticationGuard`'s two loops and the guards they run |
| `MCGuards`, `guards_*.cfg` | an instance of it: how routes are marked |
| `Guards_proofs` | its theorems |
| `Approval` | approval of businesses, and what depends on the row: token claims, `VerifiedProviderGuard` |
| `MCApproval`, `approval_*.cfg` | instances of it |
| `Approval_proofs` | its theorems |
| `RemoteCall` | abstract specification of a remote call: asked, run at most once, told the truth once |
| `Gateway` | an HTTP call's way through the gateway, over the wire and back |
| `MCGateway`, `gateway_*.cfg` | instances of it |
| `Gateway_proofs` | its theorems |
| `HomeCare` | `Gateway` and `Accounts` together: the account operations as the handlers of HTTP calls |
| `MCHomeCare`, `home_care.cfg` | an instance of it |
| `HomeCare_proofs` | that it implements both parts, and its theorems |

### How state and actions correspond to the code

A *request* (`Req`) is one message the service receives; it is made once, with
a body of those it may have (`Inputs[r]` in `Accounts`). Its local variables are the control point `pc`,
its body `in`, and one variable per call of its `Promise.all` (`acct`, `del`;
`upd`, `del`, `ins`), because these go on after the answer. Rows are named by
the request that inserted them, which stands for the autoincrement id and for
the uuid inside a refresh token.

Code between two awaits is atomic (one Node process), and the only memory that
requests share is the OAuth client and the role cache, so a step is one database call together with
the code up to the next. Two reads that cannot be told apart from one are one
step (`CheckDuplicate`: what either read finds stays there). Hashing, role
lookup (but in `Identity`) and building bodies are part of the step that follows.

`Accounts`: `Start` is the controller; `LookupUser` the `findUnique` that
opens `sendOTP` and `forgotPassword`; `ClearCodes` and `InsertCode` the two
halves of `createVerificationCode`; `ValidateCode` is `validateVerificationCode`;
`CheckDuplicate` is `findUniqueProviderIncludeNameAndTaxId`; `Fork`, `CreateUser`,
`CreateProfile`, `UpdatePassword`, `DeleteCode` and `Settle` are the `Promise.all`;
`CreateServiceProvider` and `Reply` the end of `registerProvider`. The unique
indexes are in the actions that meet them: `email_code_type` in `InsertCode`
and `Presented`, `User.email` in `CreateUser`.

`Sessions`: `Authenticate` stands for the user lookup, the password and the
second factor; `ExchangeCode`, `FindGoogleUser`, `CreateGoogleUser` for
`googleCallback`; `CreateDevice` and `InsertToken` for the tail they share;
`FindToken`, `UpdateDevice`, `DeleteToken`, `InsertToken` and `Settle` for
`refreshToken`; `VerifyLogout`, `LogoutDelete`, `Deactivate` for `logout`.
Clients present only tokens they were given (`Delivered`).

`Identity`: a member of `Pod` is one process from `Boot` to `Die`; its OAuth client
is `client`, its role ids `cached`. `ExchangeCode` is `getToken` and
`setCredentials`, `UserInfo` the call that follows, and `bearer` whose credentials
it carried: when the library reads them is left open. `FindUser` and `CreateUser` are
the callback's; a registration comes in by `Validate` and meets it at the role:
`CheckCache`, `QueryRole` and `StoreRole` are the three parts of the cached getters.
The callback awaits `createUserIncludeRole` alone; a registration forks `createUser`
(its second half is `CreateProfile`) beside the deletion of its code (`DeleteCode`),
the first rejection refuses it, and the calls left go on (`Settle`). `LoseCode` is
what another request of `Accounts` does to that code: a resend supersedes it, a
second registration spends it. `deleted` are the addresses whose user has
`deletedAt`: `FindUser` does not see them, the unique index of `CreateUser` does.
`NameRole`, `SoftDelete`, `DropRole` and `SoftDeleteUser` stand for administrators,
of whom `src/` has none. `since`, `unseen`, `hit` and `seen` are history: who set
credentials behind whose back, whose address has an account its lookup could not
see (hidden, or made since), who met a fault, and which rows had a name since the
pod booted.

`SignIn`: `FindUser` and `FindRoles` are the two queries of
`findUniqueUserIncludeRole` (Prisma runs `include` as a second one), with the
password and the TOTP decided on what the first read; `ValidateCode` the LOGIN
code, which is never deleted; `SignTokens` the device and the tokens. `FindToken`,
`RenewRoles` and `Rotate` are `refreshToken` in the same grain, `ClearCodes`,
`InsertCode`, `LookupReset` and `UpdatePassword` the parts of `sendOTP` and
`forgotPassword` that matter to it. `Edit` is what others do to the row, or the
passing of a code's time. `views` is history: what there was to know of the user
at each moment of a request.

`Guards`: a call arrives at a route (`Arrive`) with what its authorization
header holds; `at` is the loop's index, `Passed` and `Failed` what the and- or
the or-loop does when a guard returns or throws, `Exhausted` the code after the
loop. `PublicGuard`, `ApiKeyGuard` and `ExtractToken`/`VerifyToken`/`FindRoles`/
`FindPermissions` are the guards, one action per await; Prisma runs `include` as
a second query, hence two actions. `ChangeRole` and `ChangeGrant` stand for an
administration that does not exist under `src/`. `seenLive`, `seenGranted` and
`steady` are history: the properties compare a verdict with what was true at
some moment while the call was decided, the most a non-transactional check can
promise.

`Approval`: `FindProvider`, `AcceptProvider`, `Reply` are
`updateProviderStatus`; `Column` is Prisma's rule that `undefined` leaves a
column alone, and `ActiveUserId` what `@ActiveUser("userId")` finds in a TCP
message. `owner` is the `userId` of each `serviceProvider` row: users and rows have
ids of their own, both integers counted from one, so one may be taken for the other.
A sign-in, by password, by Google or by a refresh, is a request: `FindUser` reads
the claim with the user (or leaves it out, as the last two do), `SignAccessToken`
signs it several awaits later, and the business may register in between.
`CheckClaim` and `CheckRow` are `VerifiedProviderGuard`, called with the token of
an earlier sign-in. `early` is history: sign-ins begun after their user's
registration.

`Gateway`: `Guard` (any verdict of module `Guards`, never a refusal of a public
route), `Pipe`, `Send`, then `Dispatch` and `Finish` in the service, then
`Deliver` and `Resolve`. The routes, patterns and message fields are those of the
controllers. A handler may succeed, refuse (`RpcException`) or throw anything
else: what decides is in the other modules. The wire is a set, since handlers
finish in any order; `pc = "waiting"` is the entry in the transport's routing map,
so a call still waiting has a living connection. `Disconnect` may lose messages
or let the service dispatch them after the caller has been told 500;
`ServiceDies` and `GatewayDies` lose what their process held. `google-link` and
`google/callback` handlers take their arguments by position; what they make of
them is part of the free outcome. Under the refinement mapping a call's caller has heard
nothing until `answered` or `dropped`, `turnedAway` for 401, 403 and 422, and
otherwise what its answer says.

`HomeCare` instantiates `Gateway` and `Accounts` over one set of calls, the request
of a call being the call itself. `at` is `Gateway`'s control point, `pc` stays that
of `Accounts`. The gateway moves alone (`Arrive`, `Forward`), so do the methods
(`Work`) and the clock (`Environment`); two steps are both parts' at once:
`Dispatch`, where the controller hands the message to the method, and `Return`,
where what the method returned or threw becomes the message's outcome. A pod's death
is one step of the gateway's part (`ServiceDies`), which marks in `dead` every call it
had dispatched; each of those then takes the crash of `Accounts` (`Fall`) and nothing
else, and the pod is back (`Restart`) after all have. `LoseConnections` does not
touch the methods: they go on behind a caller who was told 500. `Proceeds` is
`Handler` without the failing calls: what fairness may demand. `known` is history:
the calls a caller had seen succeed when it made its own.

`googleCallback` is an operation of `Sessions` although no message reaches it
today (section 5): it and `Identity` model the service's method, `Sessions` from
its device on, `Identity` up to it.

Faults (`Throw`, `ThrowInBranch`/`ThrowInCall`, `Crash`, a failing `SendMail`)
happen only when `Faults` is TRUE, in `Sessions` and `Identity` to the requests in
`Unlucky`, so that the others are bystanders; `Fail` of `SignIn` and `Die` of
`Identity` may happen any time. Expiry and soft deletion may happen any
time; nothing under `src/` soft-deletes a user, and its queries filter on it.

Operators marked `SLIP` are used by no action: they are the plausible mistakes
each property must notice when put in the place of the definition below them.

## 3. Runs

| run | question | instance |
|---|---|---|
| `accounts_codes` | a resend supersedes; an account or a password rests on one code sent for it; the OTP table implements `SingleUse` | 3 requests, a newcomer and a seeded user who may be soft-deleted, 2 codes, faults |
| `accounts_provider` | an acknowledged business has its provider row; equal tax numbers only by overlap; a refusal that raced nobody is clean; every account gets its profile | 4 requests, 3 addresses, one of them a seeded user's with up to 2 resets, 1 tax number, fair, no faults |
| `accounts_taxid` (violated) | two interleaved `registerProvider` calls share a tax number | 4 requests |
| `sessions_rotation` | one live token per device, sign-out final, delivered tokens work, refusals have a cause; of several racers the spender succeeds; the token table implements `SingleUse` | 3 requests, two of them with faults, fair |
| `identity_callbacks` | a callback signs in its own caller, or one that overlapped it; roles were current since the pod booted; refusals have a cause | 2 requests, one of them with faults, 2 pods, 2 addresses, 2 role rows, 2 edits of roles or of users' `deletedAt` |
| `signin_factors` | what a sign-in rests on; who had everything right is not refused; renewed roles are current | 2 requests, 2 passwords, 2 codes, 1 role, 2 edits, faults |
| `guards_admission` | an admitted call met its route's marking, a refused one lacked something, 403 is for the authenticated, every call is decided | 1 call, 2 roles, unmarked, and-marked and or-marked routes, fair, faults |
| `approval_decisions` | acknowledged decisions change something, dates agree with the status, a guard reads its own caller's row and finds it | 3 requests, 2 businesses, 2 row ids, 1 manager, faults |
| `gateway_delivery` | a call never runs unchecked, whoever waits has a message, a handler or a reply to wait for, and is answered; the whole implements `RemoteCall`: one run, one answer, its own | 2 calls, 7 kinds of route, fair, everything may fail |
| `home_care` | a success told over HTTP is whole; nothing is written but for vetted calls; every call is answered | 2 calls, an `auth/otp` and one that presents its code, a newcomer and a seeded user, fair, everything may fail |
| `gateway_status` (violated) | a refusal has no success status | 2 calls |
| `gateway_logout` (violated) | a handler gets the fields it reads | 2 calls |

**Bounds.** What is bounded is the number of requests, of pods in `Identity`, and of
edits (`MaxEdits`) in `Identity` and `SignIn`; time, row counts and retries follow
from it. The interesting races of `Accounts` need a code's issuer and two racers
(3 requests); two providers need two issuers and two
registrations (4). A reset that is refused needs its code's issuer and, for the race
that `SerialRefusalIsClean` excuses, a rival for the code; `accounts_provider` has
either beside the businesses. A race for a token needs a sign-in and two presenters (3).
Two codes are needed where two live codes of one address matter
(`accounts_codes`), whose inputs also use one code for two addresses and
purposes. Requests are interchangeable, so runs without liveness use symmetry;
the others do not. In `accounts_provider` each request has one part of the race
instead, or what could take that part.

Two requests on one pod are what sharing its client and its cache takes; a second
pod starts with an empty cache after the first has died, or runs beside it. Two
edits remove a role row and make another. In `SignIn` the second of two requests
presents what the first was given, replaces a code or a password the first
is using, or shares its code; two edits fall between any two of its reads.

Calls in `Guards` share only the role tables, which anybody may change at any
moment, so one call meets every interleaving two would; two roles distinguish
"some role" from "the role found". In `Approval` a stale comparison needs two
decisions and a third to set the status they agree or disagree with; a claim needs a
sign-in, a refresh and a guarded call. Two businesses, which may register in either
order and whose users and rows have the same two ids, are what taking one business's
row or id for another's takes. Who decides is never recorded, so one manager does. Two calls
on one connection are what mixing up replies takes; the routes of `RouteKinds`
cover public and guarded ones, messages that no handler serves or whose fields
it misses, and all three services.

A composition multiplies its parts, so `home_care` has one code's sender and its
presenter: the smallest instance in which an account is made over HTTP, with every
failure of wire, pods and database. What takes three calls (a resend, a second
business, a retry beside another call) is proved in `HomeCare_proofs`; it was
explored with TLC once, without faults, and is no run.

**Fairness.** Weak fairness of each request's own steps and, separately, of each
call it has forked: the event loop resumes every continuation and PostgreSQL
answers every call. Nothing obliges a client to call, a code to expire, or a
fault to occur. A retry does not exist in the code and is not assumed. In `Gateway`
fairness also says that a message on a living connection arrives; connections
and services may go on failing, and need not come back. In `HomeCare` it covers the
gateway, the dispatch of messages and the methods' own steps (`Proceeds`): a failing
call, a lost connection, a death and a restart are never obliged to happen.

**Deadlock** is checked in every run: in `Accounts`, `Sessions`, `Identity`,
`SignIn`, `Approval`, `Gateway` and `HomeCare` `Quiescent` is the only way to stop,
and it is enabled only when every request is over; in `Guards` the environment
(role edits) never stops, so it is `EveryCallDecided` that says no call of `Guards`
hangs. That requests of `Accounts` and `Sessions` end is the theorems
`EveryStepCountsHolds` and `NeverStuckHolds` (section 4) and the fairness above.
`Approval`, `Identity` and `SignIn` check no liveness: their handlers are straight
lines without a loop or a wait for one another.

## 4. Proofs

All theorems hold for every value of the constants that satisfies the
module's one `ASSUME`: bodies and route markings are well formed, and `None`,
`Seed` and `Undefined` are distinct from the values they stand beside.

`Accounts_proofs`. The inductive invariant is `TypeOK` with four parts.
*Placed* ties a request's control point to its calls (a call runs only after
the fork, `ok` only when all are done). *Rows* says each code row was inserted
by a `sendOTP` for that address and type, and its id is issued. *Owners* says
whose each user row, password, profile and provider is. *History* says that
`prior` lists only requests that are over. A step lemma *Kept* lists what no
step ever undoes (an answer, a body, a proof once obtained, a consumed row).
`AckedIsComplete` follows from Placed and Owners; `OneAckPerCode` from Rows;
`SupersededCodeRefused` and `TaxIdUniqueUnlessOverlap` need History, because
they speak of the order of requests.

`SerialRefusalIsClean` assumes that no faults occur and adds two parts. *Untouched*:
a request whose user call is not done has written nothing. *Backed*: nobody takes
the code away from a request that overlaps none for its address (whoever deletes or
supersedes it is at work, so by History the other is over), hence its own delete
cannot fail, and only its user call can be what it is refused for.

`Sessions_proofs`. `TypeOK`, *Placed*, *Presenting* (who presents which token
and on whose device), *Spending* (a spent token has one spender and no row)
and *Chain*: the tokens of a device form one chain in which each link was
spent by the request that signed the next, so only the last can be usable.
`OneTokenPerDevice` and `LogoutFinal` are consequences of Chain. `RefusalJustified`
has an invariant of its own: a request on its way to a refusal has a cause already.

`Identity_proofs`. *Placed*; *Carried*: whose credentials the client of a pod, or a
callback in flight, can carry is a callback that Google accepted, its own or one in
`since`; *Made*: who made an account was let in, with the address it has; *Current*: an id in a cache, in a request's hands or in an account had the
right name since the pod booted; *Unseen*: where a callback that found no user meets
an account, that account was made behind its back or hidden from it; and each
refusal's cause. The shared client and the cache
need no lock for any of this.

`SignIn_proofs`. *Placed*, *Seeing*: the user's view of this moment is among those a
pending request has seen; and *Established*: what a login or a refresh has passed so
far was so in one of them.

`Guards_proofs`. For each call: *Placed* (which guard it is at), *Bracketed* (the
history variables bracket the tables), *Behind* (every guard the loop has left
passed, or for an or-loop had cause to fail), *Admitted*, *Refused* and
*Authentic*. `Behind` is the loop invariant: an exhausted and-loop has seen all
guards pass, an exhausted or-loop all of them fail. The theorems hold for any list of
guards, any roles, any edits.

`Approval_proofs`. *Phases* (which body is in which handler), *Claims* (the
claim a sign-in has read names its own user's row, or was read before there was one,
and rows neither go nor change hands; a guarded call holds the claim of a sign-in
that is over), *Dated*,
*Priors* (who was over before a request began stays over) and *Compared*: the
comparison a decision holds in its hands is out of date only when a rival for
the same decision wrote meanwhile, which overlaps it. `AckedDecisionIsChange`
needs all of Compared's cases because it must survive third parties' writes.

`Gateway_proofs`. For each call *Fresh* (nothing sent yet), *Checked* (what a
call in flight has passed), *Once* (a message, its handler and its outcome
follow each other) and *Own*; for each reply *Told*: its call waits, and the
reply is how its handler ended. One lemma (`OneCall`) carries over the calls a
step does not touch.

`HomeCare_proofs`. The composition implements each part: `ImplementsGateway` and
`ImplementsAccounts` map every step to a step or a stutter of the part, under the
identity on its variables. The theorem modules of the parts, instantiated, then give
it all their invariants (*Inherited*) and both refinements (`CallsAreRemoteHolds`,
`CodesAreSingleUseHolds`). One new invariant is needed, `PartsAgree`: it ties the
gateway's bookkeeping to the methods', holds by the way the joint actions are
composed, and is a lemma, not a result about the code. From it and the inherited ones
follow `AnsweredIsWhole` and `WritesAreVetted`. What callers can
conclude in time needs two more. *Knows*: whom a caller knew of had succeeded, and
their methods were over when its own began, so the order of `Accounts`' `prior` is
the order callers see. *Told*, without faults: an answer is not given before its
handler has ended, and a method that succeeded is reported so.
`ResendSupersedes`, `TaxIdTakenOnce` and `SerialFailureIsClean` rest on them; they
say of callers what `SupersededCodeRefused`, `TaxIdUniqueUnlessOverlap` and
`SerialRefusalIsClean` say of requests, and are theorems without a run. The instances
`G` and `GP`, `A` and `AP` are the same modules twice, without and with their theorems;
the `Same…` lemmas say so.

**The safety half of liveness.** "Eventually" is out of the prover's reach, what makes
it true is not. `EveryStepCounts`: each step a request takes, a failing one included,
lowers the bound `Left` on those it has still to take, and no other request raises
it; so nothing is retried and no loop goes round for ever, in `Guards` for a list of
guards of any length. `NeverStuck`: where nothing is left the request is over, and a
`Promise.all` that waits does so for a call that runs. `NobodyForgotten`, of
`Gateway` and `HomeCare`: a caller who waits does so for a living service, and its
message, its handler or its reply exists. `AccountEndsWhole` and `SpenderNotRefused`
are what `AccountCompletes` and `SpenderSucceeds` say once the request is over. In
`Accounts` and `Sessions` they need one part more, *Ending*: a call is lost only with
its pod; in `Accounts`, none is joined that was not forked, and an account's maker is
a registration that has begun; in `Sessions`, whoever has deleted its token, or is
about to, is turned away only for a fault of its own. But for `Gateway`'s
`NobodyForgotten` these are theorems without a run, looked at with TLC on the runs'
instances first. With the fairness of section 3, what is bounded below, falls with
every step and stands still only at the end reaches the end.

Refinement is proved by the usual two facts, initial states to initial states
and every step to a step or a stutter of `SingleUse`, or of `RemoteCall`, under the
mapping of the `INSTANCE`. That no credential is spent by two requests, and a spent
one is gone, is stated of the tables themselves (`CodesSpentOnce`,
`TokensSpentOnce`). `OneAckPerCode`, `Gateway`'s `AtMostOnce` and `AnswerIsOwn` are
theorems without a run: the refinements that the runs check imply them.

**Model-checked only.** The liveness properties, which are out of the prover's
reach. Every invariant the passing runs check is proved.

## 5. What the checks found

Three runs end in a violation, each of something the repository says:

* `registerProvider` (auth.service.ts:322): the duplicate check is not backed by
  an index or a transaction; overlapping calls create two providers with one
  tax number. `TaxIdUniqueUnlessOverlap` is what does hold.
* `handleZodError` (helpers.ts:60) answers refusals with the route's success
  status: it reads `statusCode`, the exception has `status`.
* `logout` through the gateway (auth.gateway.controller.ts:103) sends the bare
  token where the handler reads a field; every sign-out fails.

The modules follow the code in these points too, which no run singles out:

* `PaymentAPIKeyGuard` (api-key.guard.ts:12) reads the header as
  `Authorization`; Node's names are lower case, so every key is refused. No route is
  marked with it yet.
* `updateProviderStatus` (managers.service.ts:20): two overlapping decisions for
  one status are both acknowledged. `AckedDecisionIsChange` is what does hold.
* `refreshToken` (auth.service.ts:255): `RefreshTokenRevokedException` never leaves
  the method. It is an `RpcException` and no `HttpException`, so it becomes an
  `UnauthorizedException`, which over RPC is an "Internal server error": a client
  whose token is spent reads a 500, as one does when the database is down.
* `verifiedById` (managers.controller.ts:17) is never recorded: the gateway does
  not send who decides.
* `VerifiedProviderGuard` (verified-provider.guard.ts:35) lets every business with
  a row in. It is mounted nowhere yet.
* `googleCallback` (google.service.ts:73) shares one OAuth client: of two callbacks
  that overlap on a pod one may be signed in to the other's account.
  `OwnAccountUnlessOverlap` is what does hold. Two callbacks for one new address
  both create it, and the loser is refused with a raw database error, as is a caller
  whose user has `deletedAt`: the lookup (auth.repo.ts:165) does not find the row,
  the unique index does. Nothing under `src/` sets `deletedAt` of a user.
* `login` (auth.service.ts:177) never deletes a LOGIN code: it serves every sign-in
  until it expires or is superseded.
* `forgotPassword` leaves devices and refresh tokens as they are: sessions survive a
  new password.
* `refreshToken` (auth.repo.ts:183) does not look at `deletedAt`: a soft-deleted user
  goes on renewing.
* A pod goes on using a role row it has cached (shared-role.repo.ts:29), soft-deleted
  or renamed; once the row is gone, its registrations fail until it restarts.
* The gateway's `google-callback` and presigned-url messages, and `api`, have no
  handler (auth.gateway.controller.ts:150).

One more thing no document rules on: `refreshToken` (auth.service.ts:248) signs access
tokens without `providerId`, so a business loses the claim at its first refresh.
`GuardReadsOwnRow` names it among the causes of being turned away, and would not hold
without it.

## 6. Not modelled

Message wording, hashing, e-mail rendering, S3, the AI wrapper, deployment.
How a second factor is set up has no code here. `adjustDateToWeekday` and the other
date helpers have no caller. What the NestJS transport, Prisma and Node do is
modelled from how the code relies on it and marked external in `PROJECT.json`.
A service's memory limits and a handler that never returns are outside the
models: fairness assumes that the database answers.

## 7. Plan

Done: `SingleUse`, `Accounts`, `Sessions`, `Guards`, `Approval`, `RemoteCall`, `Gateway`,
`Identity`, `SignIn`, `HomeCare`, and their proofs. `HomeCare` composes `Gateway` with
`Accounts`; the other components are modelled on their own, with what the rest does to
the tables they read as an action of the environment (`SoftDelete`, `Edit`,
`ChangeRole`). Left:

1. `Sessions` and `SignIn` behind the same gateway, over the user table that `Accounts`
   writes. Property: who holds a live session was, at its root, let in by `SignIn`'s
   rules, with an account that `Accounts` made.
2. The schedule, booking and payment services, once they have code.
