# TLA+ specifications of the newcar backend

The backend (`src/app`) is a FastAPI application over MySQL for two sites: a
marketplace of leases on new cars, and a site for the members of credit unions.
Members open accounts and deals, brokers move deals along, dealers edit the terms
of offers, credit-union staff issue pre-approvals, a Google sheet feeds the offers
table, and leads are sent to a webhook.

Most of the program is queries over tables that are scraped elsewhere. What can go
wrong in ways a unit test hardly reaches is in the part that *writes*: request
handlers run in threads with a database session each, read from a snapshot, decide,
and write over whatever the rows hold by then; background tasks live in memory;
several processes sync the same sheet; answers are kept in caches that nobody clears
together. The specifications here are about that part, and about what the public pages
make of the tables, where several computations must agree with each other.

- [How a request is modelled](#how-a-request-is-modelled)
- [Inventory of the system](#inventory-of-the-system)
- [The modules](#the-modules)
- [What TLC checks](#what-tlc-checks)
- [What is proved](#what-is-proved)
- [Where the code departs from what it says](#where-the-code-departs-from-what-it-says)
- [What is not modelled](#what-is-not-modelled)
- [Plan](#plan)

## How a request is modelled

These are facts about the code and its libraries that every module relies on.

- `core/database.py` makes sessions with `autocommit=False, autoflush=False` and no
  pool; `core/deps.py:get_db` gives a request one session and closes it at the end.
  An exception leaves the session uncommitted: nothing is written. This is the action
  `Rollback` of the modules.
- MySQL's default isolation is REPEATABLE READ: the first query of a session opens a
  snapshot, later plain reads see that snapshot, and an `UPDATE` or `DELETE` works on
  the rows as they are when it runs. The code takes no row locks (`with_for_update`
  occurs nowhere). So a handler is two steps: `Begin...` reads, checks and decides;
  `Commit...` writes over the current rows. Where a handler commits twice (register,
  request_otp, a lead's delivery) it has more steps.
- SQLAlchemy's `UPDATE` names only the columns whose value differs from the one *read*,
  and only the id in its `WHERE`. A value equal to the one read is not written, even if
  the row has changed meanwhile. This is the operator `Emit` (external). An `UPDATE` of
  a row that has disappeared raises, a `DELETE` of one only warns.
- Constraints are as the migrations under `src/alembic` leave them: VINs of
  `offer_overrides` and (email, auth_realm) of `users` are unique; the meta rows of
  sheets and open deals are not; foreign keys have the `ON DELETE` rules of
  migrations 0016 to 0032. `CreditUnions` has a constant for databases without them.
- Commits are atomic and are ordered. Deadlocks and lock-wait timeouts of the database
  are among the failures `Rollback` stands for.

## Inventory of the system

| Component | State it keeps | Operations | Interacts with | Hard part | What makes it correct |
|---|---|---|---|---|---|
| Deals (`routes/deals.py`) | `deals`, `deal_events` | create_deal, update_deal (status, broker, date), listings | users (broker), approvals, the messages of a deal | the check of a move is made on a row that may be stale at the commit; columns left out; brokers deleted meanwhile | stages are logged in order, stamps agree with status, log and row tell the same story |
| Lead delivery (`services/lead_delivery.py`, `routes/leads.py`, `routes/admin.py`) | webhook columns of `lead_requests`; tasks in memory | create_lead, deliver_lead with retries, retry_lead_delivery | the external receiver | overlapping tasks on one row, lost answers, swallowed failures, a process that stops | what the row says of the delivery is true; a pending lead is settled |
| Offers sheet sync (`services/sheets_sync.py`, `sheets_runner.py`, `sheets_scheduler.py`) | `offer_overrides`, `sheet_sources_meta`, a named MySQL lock | sync_offers from schedulers, webhook, admin and script | Google, the inventory, dealers' and brokers' edits | snapshots older than the lock, two fetches of the sheet, edits under way | the table follows the sheet, there is one meta row, the lock is freed |
| Credit unions and pre-approvals (`routes/credit_unions.py`) | `credit_unions`, `cu_member_approvals`, `credit_union_id` and role of users | create, update (programs, disclosures), assign staff, primary staff, delete a credit union, issue, decide, withdraw, claim | deals, users | deletion with many references while they are being made | references resolve, a deletion leaves nothing behind, a deal takes its member's approval |
| Accounts and registration (`routes/auth.py`) | `users`, `auth_otps`, `used_at` of invitations | register, request_otp, verify_otp, google_auth, login, change_password | invitations, credit unions | registration by three ways at one address, two commits in a request, one-time links | a complete account is not taken over, an invitation opens one account |
| User administration (`routes/admin.py`) | `users` | create, update, reset password, delete | everything that refers to a user | the last super admin | administration leaves a super admin, references are cleared |
| Credit applications (`routes/credit.py`, `services/credit_application_delivery.py`, `ghl_contacts.py`) | `credit_applications`; contacts in the CRM | submit, contact lookup, webhook, email, fallback email; contact of a lead | GoHighLevel (the CRM), SMTP, new leads | one of several calls fails, or does its work and its answer is lost | somebody is told; who is told is who should be; no contact twice |
| Broker messages, deal rooms (`routes/broker.py`, `routes/frontend_compat.py`, `services/broker_messages.py`, `broker_routing.py`, `cu_member_scope.py`, `ghl_deal_room.py`, `broker_message_webhook.py`) | `broker_messages`; tasks in memory | write, reply, read an inbox, choose a broker, pass on to the CRM and the webhook | users, the CRM, the receiver | the kind of a message lives in its text; brokers come and go while one is chosen | what leaves the room, and who reads it, is right; brokers take turns |
| Demo contact (`services/cu_demo_contact_rate_limit.py`) | a window of times per address, in memory | allow or refuse | email | the window at its limit | never more than the limit in a window |
| Response caches (`services/response_cache.py`, `routes/landing.py`, `routes/inventory.py`) | memory of each process, shared cache, files | read through four levels, store, clear | the tables behind them | a fill racing a clear; content handed from cache to cache | answers are as recent as the times to live say |
| Inventory search and homepage (`routes/inventory.py`, `services/legacy_tables.py`, `offers.py`) | manual vehicles, offers, the homepage's list, beside scraped listings | search by page, filters, specials, homepage, edits by administrators and dealers | offers sheet, caches | several queries each decide what a special is; manual vehicles are put into pages the database has cut | totals and pages agree, filters match the specials, the homepage repeats nothing |
| Pricing, lenders, recommendations | none (scraped tables) | ranking | offers | – | the right offer and lender are picked |
| Favourites, documents, lenders, site content, compatibility routes | single rows | insert, update, delete | – | – | – |

`PROJECT.json` lists the components with their files, and under `hazards` each point
of the code where something can go wrong that is hard to test, with the properties
that watch it.

## The modules

Modules named `MC...` only instantiate; those named `...Proofs` only prove, each about the
module it extends (`CreditApplicationsProofs` extends two). Operators headed "Mutant:" are
plausible bugs of the definition that follows them; no specification uses them. They are
kept to show that each property can fail: with the mutant in place of its definition, TLC
finds the property violated.

### `DealStatus`, `Deals`, `DealLifecycle`

`DealStatus` holds the statuses and `ALLOWED_TRANSITIONS`. `Deals` has a row per deal
(`deals`), a summary of its event log (`log`: the statuses ever logged, and the last
status, broker and date logged), the broker accounts that exist (`brokers`) and what
each request thread is doing (`work`).

| Code | Actions |
|---|---|
| `create_deal` | `BeginCreate` (the look for an open deal), `CommitCreate` |
| `update_deal` | `BeginUpdate` (`MayMove`, the broker's role), `CommitUpdate` (`Written` for the row, `Logged` for its events) |
| `admin_delete_user` of a broker | `DeleteBroker` (one step: it only narrows what others may write) |
| a failure anywhere | `Rollback` |

`DealLifecycle` is the abstract specification. It does not say that the status column
moves along the table: two overlapping updates can put the row back. It says what
survives any overlap: a status enters the log only as a successor of one that is
there, and the row's status changes only together with the log. `Deals` implements it
with `status` the column and `logged` the set of statuses in the log.

Abstracted: the two time stamps are "is it set"; the log is a set and three last
values instead of a sequence of rows; notes, addresses, the messages of a deal are left
out; `Approvals` only matters for `CreditUnions`.

### `LeadDelivery`

One lead: its webhook columns (`row`), the tasks and retry requests (`tasks`), whether
the receiver got it (`reached`), whether something was lost that nobody makes up for
(`dropped`), and whether a URL is configured (`enabled`).

| Code | Actions |
|---|---|
| `create_lead` | `CreateLead` |
| `retry_lead_delivery` | `BeginRetry`, `CommitRetry`, `FailRetry` |
| `_update_lead_delivery_state` | `ReadRow`, `WriteRow`, `UpdateFails` (it swallows its exception) |
| `send_lead_webhook`, the loop of `deliver_lead` | `PostAnswered`, `PostFails` (the receiver may have got it) |
| process ends, new settings | `TaskDies`, `Reconfigure` |

Abstracted: the payload, the wording of errors, the backoff's length. The specification is
`DeliverySpec`, of `DeliveryInit` and `DeliveryNext`: the names are told from those of
`CreditApplications`, which models the first half of a new lead's task, so that one module
can extend both.

### `SheetsSync`

The Google sheet (`sheet`, a version stands for its hash), `offers`, the meta rows of
the sheet (`metas`, in id order), the lock, the progress of each process that syncs
(`runs`) and of each editor (`edits`).

| Code | Actions |
|---|---|
| `_run_with_lock` | `Start`, `Acquire`, `GiveUp`, `Release` |
| `_sync_one_if_changed` | `Check` (first fetch), `Compare` |
| `sync_offers` | `Fetch`, `Index` (the inventory), `Commit` (`Synced`: stale rows deleted, upserts; `Recorded`: the meta row) |
| a failure, a dead process | `Fail`, `Crash` (MySQL frees the lock of a dead connection) |
| dealers' and brokers' edits and deletions | `BeginEdit`, `CommitEdit`, `BeginDelete`, `CommitDelete`, `FailEdit` |
| the sheet's owner | `ChangeSheet` |

Each kind of process opens its snapshot at another point: the admin's request has read
`users` before it waits for the lock, the scheduler's opens when it compares hashes,
the webhook's when it reads the inventory. The script takes no lock. Abstracted: the
parsing of cells, the columns of terms (one value), the matching of VINs (any subset of
the sheet's VINs may be in the inventory). An edit that read a row as the dealer's leaves the
source column out (`dealer.py:73`): after a sync that took the row over meanwhile, the row
has the dealer's terms and is marked as the sheet's, which `TermsFollowSheet` permits.
That the cleanup spares rows an editor owns is the condition its `DELETE` repeats
(`sheets_sync.py:442`), so no property says it again.

### `CreditUnions`

Role and credit union of each account (`users`; a `Stranger` is an address that has no
account yet), `cus`, their loan programs and disclosures (`programs`), `approvals`,
`deals` (only what they refer to) and `work`.

| Code | Actions |
|---|---|
| `admin_create_credit_union`, `admin_update_credit_union` | `BeginOpen`, `CommitOpen`, `BeginUpdate`, `CommitUpdate` |
| `admin_assign_credit_union_staff`, `admin_set_primary_staff` | `BeginAssign`, `CommitAssign` (an account is made for a new address), `BeginPrimary`, `CommitPrimary` |
| `admin_delete_credit_union` | `BeginClose` (staff and approvals are listed), `CommitClose` |
| `create_approval`, `update_approval_status`, `delete_approval`, `claim_approval` | `...Issue`, `...Decide`, `...Withdraw`, `...Claim` |
| `admin_update_user` (role), `create_deal` | `...Role`, `...Deal` |
| a failure anywhere | `Rollback` |

The important point of the deletion is what is *listed first* (staff and approvals, from
the snapshot) and what a bulk statement finds when it *runs*. `ForeignKeys` says whether
the database checks and clears references; the deletion claims to cope without.

### `Accounts`

Accounts (`accounts`), one-time codes sent (`codes`), invitations (`invites`), `work`.

| Code | Actions |
|---|---|
| `register` | `BeginRegister`, then either `CommitInsert`, or `CommitReplace` (old account deleted, committed), `CheckLink`, `CommitInsert` |
| `request_otp` | `BeginStart`, `CommitStart` (account, first commit), `CommitCode` (second) |
| `verify_otp` | `BeginVerify`, `CommitVerify`; `ExpireCode` is the passing of ten minutes |
| `google_auth` | `BeginGoogle`, `CommitInsert` or `CommitMark` |
| `change_password`, `admin_reset_user_password` | `BeginPassword`, `CommitPassword` |
| `admin_create_user`, `admin_update_user`, `admin_delete_user` | `BeginCreate`, `BeginUpdate`/`CommitUpdate`, `BeginRemove`/`CommitRemove` |
| `create_credit_union_member_invite` | `MakeInvite` |

Abstracted: an address and its realm are one value; email and phone verification are
one flag; roles other than super_admin are one; names, phone numbers and the match of
an invitation with the person are left out (any link that is valid may be presented);
other references to a user (leads, deals), which would only make a deletion fail, are
left out.

### `CreditApplications`

The CRM's contacts (`contacts`), the announcement of each stored application (`apps`),
the tasks of new leads (`leads`), and the settings the service was started with.

| Code | Actions |
|---|---|
| `apply_credit`, `apply_credit_public`, `credit_application_compat` | `Submit` (the row is committed, then the lookup begins) |
| `lookup_ghl_contact_for_credit_payload` | `SearchAnswered`, `SearchFails`: one search for the e-mail, then one for each phone of seven digits |
| `notify_credit_application_submitted` | `Announce`, which decides who is told next |
| `send_credit_application_email`, `..._ghl_fallback_email` | `Mail` |
| `send_credit_application_webhook` | `Post`, an attempt |
| `create_ghl_contact_for_lead` | `BeginLead`, `LeadSearchAnswered`, `LeadCreates`, `LeadEnds` |
| the CRM's own users; a process stops | `StaffAdds`; `Crash` |

A call may do its work and fail to answer (`got` without `ok`). A webhook's failed attempt is
followed by the next if its error is an `httpx.HTTPError`; any other ends the attempts
(`again`). A lookup keeps the keys
it was given and the positions of those it has yet to ask about; every lead has an e-mail.
Abstracted: names,
formatting of mails and payloads; a key is a normalised e-mail or phone. What the model
shows besides its properties: an applicant who is found when no webhook URL is set, or
not found when mail is disabled, is announced to nobody; a crash between the commit and
the announcement loses it; a lost answer leads to a second delivery; two leads at once
may make two contacts.

### `ResponseCaches`

What is cached is abstracted to its age, the time since the snapshot it was computed
from; an entry is its age and the time it has left. `memory` is the dictionary of each
process, `shared` the cache behind the REST call, `hot` the search's file, `request` how
far each thread is.

| Code | Actions |
|---|---|
| a request of a route | `Begin` (looks in memory), `LookInShared`, `LookOnDisk`, `Compute`, `FallBackToSearch` |
| what it stores | `Keep` (found in another cache), `Store`, `Publish`, `WriteFile` |
| the clears after a sync, a change of the homepage's list, of the landing page | `Clear` |
| a process restarts; time | `Restart`; `Tick` |

A request stores in one cache after another, and anything may happen in between. One
clear of a behaviour may be picked and watched, to relate later answers to it. What the
model shows besides: a clear is not final, because a reader under way stores the old
content back (`landing.py:123`); nothing clears the shared cache and the files, so for
ten and thirty minutes after a sync they still answer with old content, also to the
process that cleared its memory.

### `Storefront`

The tables behind the public pages (`listings`, `manual`, `offers`, the homepage's list
`featured` and an earlier month's, `older`) and the requests that write them; the pages
are operators, each computed from one snapshot.

| Code | Definition |
|---|---|
| `_normalized_vehicle_type_expr`, the queries of `legacy_tables.py` | `EffectiveType`, `Passes`, `BestRow`, `Count`, `Matching`, `LeaseVins` |
| `_offer_priority`, `_load_offer_ymm_map`, `_resolve_offer_for_vehicle` | `Priority`, `LineOffer`, `Resolved` |
| `search_inventory` | `Search`, of `Window`, `ListingItems`, `ManualItems`, `InFront`, `PaidAnswer`, `PlainAnswer`; `Answers`, one for each order of the rows |
| `dealer_inventory`, `inventory_filters`, `homepage_specials` | `DealerPage`, `FilterLines`, `Homepage` |
| manual vehicles, offers by VIN or by line, dealers' offers, the homepage's list, the scrapers | the actions |

What the database and Python do to lists are operators over sets of places: `InOrder`
sorts (`Ascending` by number), `Where` filters, `At` keeps some places, `Slice` cuts.

Only all specials at once are sorted, by line and VIN (`inventory.py:786`); every other
page is cut by `LIMIT` and `OFFSET` from rows that nothing orders (`inventory.py:823`,
`frontend_compat.py:235`). The model gives each of these queries its rows in any order
(`RowOrders`), anew for every page, so no property says *which* vehicles a page holds:
one may be on two pages and another on none. `TotalsHold` and `DealerPagesEnd` say how many
there are, and that no page repeats one. The caps on rows fetched (800 to 5000, 4000 to
12000) are the constant `Caps`, small enough in the instance to be exceeded.

- `TotalsHold` claims the exact total and the exact size of every page for a search with
  a limit on the payment, where the page is cut in Python from all that matches, if no more
  than the cap do. Without a limit the code adds what the database counts, without the
  line, to the manual vehicles, and puts these before a page that is cut already: the
  property then bounds page and total from both sides.
- `FiltersMatchSpecials` compares lines. Filters leave out rows whose model is just the name
  of their make (`inventory.py:589`, `Named` holds the other lines), which the specials show.
  Where an administrator has entered vehicles, a feed listing is gone or has no price, or
  more could be specials than are fetched, the filters may name a line that leads nowhere:
  the second half excludes these.

Abstracted: a year, make and model is one value (a line); VINs and lines are numbered; a
monthly payment is proportional to its price, with nothing down; ties among offers. A sort
by price is one of the orders of the rows.
What the model shows besides: manual vehicles push listings off the first page onto none;
totals ignore the line and count a replaced listing twice; a feed listing without any
price makes the filters name its line if another vehicle of that line has a discounted
price, which the specials, searched without a line, never look up (`inventory.py:556`
against `inventory.py:829`); specials limited by payment
are cut into pages twice, and their total counts some that are not shown; clearing the
homepage's list brings an older month's back; stored cards never expire; filters miss
the offer of a manual vehicle whose VIN is not listed, and offer lines of manual vehicles
that the specials never show; a VIN listed new and used is found as either.

### `DealRoom`

Messages (`messages`), what the server has yet to do for each (`stage`), requests that
have not committed (`work`), the roles of the accounts that answer for the dealers
(`role`), and what has left the room (`sent`). A text is a sequence of words, so that a word may look like a prefix.

| Code | Actions |
|---|---|
| `send_message`, `send_message_compat`, `reply_to_customer`, `credit_union_reply_to_member` | `BeginMessage`, `BeginCompat`, `BeginReply`, `BeginCuReply`, `Commit`, `Rollback` |
| `select_next_broker_admin_user_id` | `Chosen` |
| `encode_message_for_storage`, `parse_message_from_storage` | `Encode`, `Parse` |
| `resolve_member_scope_user_id`, `list_messages` | `Scope`, `Inbox` |
| `sync_deal_room_customer_message_to_ghl`, `post_ghl_inbound_conversation` | `Lookup`, `PostInbound` |
| the webhook's task | `RunTask`, `Attempt` (only an `httpx.HTTPError` leads to another attempt) |
| administration, a process that stops, time | `ChangeRole`, `DeleteAgent`, `Crash`, `Tick` |

Abstracted: the realm of accounts; only members' threads are tried. An administrator may give
an agent any role; a setup names the ones it tries. The staff of credit unions is a set of accounts of its
own (`Staff`), and no agent joins it. What the model shows
besides: the compatibility route looks the CRM's conversation up by who is logged in, the
other by the member; a broker's own replies count as turns; messages of one second, or
requests that overlap, may give one broker twice running; a post to the CRM may arrive
twice; a webhook's task is lost with its process. The server returns the whole thread to
whoever may read it: which lines of it a dealer or a credit union sees is left to the
client.

## What TLC checks

All runs that pass explore every state of their instance. In those with one request
thread, `Begin` and `Commit` of one request are not interleaved with another's: they show
what the handlers guarantee when requests do not overlap.

| Run | Instance | Distinct states | Shows |
|---|---|---|---|
| `deals` | 2 requests, 1 deal, 1 broker, no dates | 647,276 | types; `StagesLoggedInOrder`; `StampsMatchStatus`; `AssignedBrokerExists`; `LifecycleSpec` (refinement) |
| `deals_serial` | 1 request, 2 deals of one vehicle, 1 broker, set or cleared date | 179,220 | `LogTellsRow` |
| `lead_delivery` | 2 tasks, 2 attempts, fairness | 16,699 | types; `SentWasReceived`, `QuietMeansSettled`, `SettledWasAttempted`, liveness `PendingIsSettled` |
| `sheets` | scheduler, webhook, editor, 1 VIN, 2 sets of terms in the sheet and 2 of the editor's, fairness | 343,540 | types; `RetiredRowsGone`, `TermsFollowSheet`, `OneMetaRow`, liveness `LockReleased` |
| `sheets_admin` | scheduler and admin | – | refutes `RetiredRowsGone` (below) |
| `credit_unions` | 2 requests, 2 accounts, 2 credit unions, 1 list of programs, 1 approval, 1 deal, foreign keys | 598,091 | types; `ReferencesResolve` under any overlap |
| `credit_unions_serial` | 1 request, the same without foreign keys, with changes of role, an empty list of programs and a lost approval | 712,708 | `DeletionLeavesNothing`, `DealApprovalIsMembers` |
| `accounts` | 1 request, 3 ids, 2 addresses (one of the marketplace), 1 invitation, 2 passwords, 2 codes | 377,396 | types; `OneTimeInvites`, `AdministrationKeepsSuperAdmin`, `CompleteAccountsKept` |
| `credit_applications` | 1 application, 2 leads, 2 contacts, 2 attempts, five settings, fairness | 835,904 | types; `KnownGoesToWebhook`, `FallbackMailIsTrue`, `NoSecondContact`, liveness `StoredIsTold` |
| `caches` | 2 threads, 2 processes, each route by itself, search with specials | 199,495 | types; `AnswersAreRecent`, `UpdateIsSeen` |
| `storefront` | 3 VINs, 5 listings, 3 lines of which one names no model, prices 1 and 2, pages and caps of two, 5 searches, rows in any order | 48,000 | types; `TotalsHold`, `DealerPagesEnd`, `FiltersMatchSpecials`, `HomepageIsFull` |
| `deal_room` | 1 member, 1 staff, 2 agents, 3 seconds; up to 4 messages one by one, 3 overlapping, or 1 of any text and kind | 1,618,283 | types; `RoomKeepsItsOwn`, `BrokersTakeTurns` |

Why these bounds are enough to see the interesting cases:

- *Two requests.* Each hazard of the handlers is a read of one request made stale by a
  commit of another; the second commit may then be followed by any number of further
  requests, because a thread is reused. Three at once add only orders of commits that
  two workers in succession also produce, except chains of three stale reads, which the
  proofs cover for any number.
- *One deal* in the overlapping run: no handler reads one deal to write another except
  `create_deal`'s look for open deals, which `deals_serial` has two deals for.
- *Two attempts* let a task be at its first, at its last and between; two tasks let a
  retry overlap the first delivery. The proofs cover any number.
- *One VIN, two sets of terms*: rows of different VINs meet only in the hash, and a
  version of the sheet may hold the VIN or not and give either terms; `NoRows` is the
  empty sheet. Meta rows are bounded by the lock, not by a bound of the model.
- *Two credit unions* allow a member to be in one and hold an approval of the other.
- *Three ids* in `accounts` allow an account, its replacement and another person's;
  ids are not reused (`AUTO_INCREMENT`), so the histories end when they run out:
  the last requests then only `Rollback`. `MaxCodes` bounds the codes sent to one
  account. `Ids` and `Passwords` are symmetric: they are only compared.
- *One application* in `credit_applications`: applications do not read each other's
  state; what they share is the contacts, which leads and staff change too. Applicants
  and leads share an e-mail, a phone, or a phone too short to count; `MaxContacts` allows
  one contact to be there and another to be added. The settings take every branch.
- *Lives of one to three ticks* in `caches` keep the order of the real ones (12 s and 60 s
  in memory, 600 s shared, 1800 s files), and a request may take a tick, so entries expire
  before, during and after it. `MaxAge` is above every bound of `AnswersAreRecent`, where
  ages saturate. `Loads` asks one route at a time where routes do not meet: the search
  and the specials do, and are asked one request at a time. `Threads` are symmetric.
- *Three VINs* in `storefront`: one from the feed whose rows disagree on the line and of
  which one has no price, one listed new and used, the new row seen later but gone, one of
  a line without a model name; the last two may also be entered by hand. Every subset of
  the rows, of the manual vehicles and of the offers is a state. Pages and caps of two let
  three vehicles be one too many for a page, for a limit on the payment and for the
  specials; the searches have a line, a price and a type with and without a limit on the
  payment; a homepage of two is filled, cut and topped up.
- *Setups* in `deal_room` separate two questions that do not meet: what becomes of one
  message of any kind, and who is given several. `MaxTime` lets messages fall in the same
  second, the next, and the one after.

Ids not being reused bounds the behaviours of `Deals`, `CreditUnions`, `Accounts`,
`CreditApplications` and `DealRoom` (`DealIds`, `ApprovalIds`, `Ids`, `AppIds`, the `most`
of a setup); where nothing can happen once they run out, deadlock is not checked.

### Fairness

Three specifications assume any, and only weak fairness of steps nothing in the code
holds up.

- `LeadDelivery!FairDelivery`: a task that is running takes its next step. Every call of the
  task has a timeout (`httpx` timeouts of the webhook, the database's own), and the
  backoff is a finite sleep. No fairness of success is assumed: every post may fail, and
  every update may fail. A crash sets `dropped`, and `PendingIsSettled` then claims
  nothing: the tasks are not persisted, so nothing resumes the lead.
- `SheetsSync!FairSpec`: a process that holds the lock takes its next step. Waiting for
  the lock is not fair: `GiveUp` may always be the outcome, and nothing is claimed about
  being served.
- `CreditApplications!FairSpec`: an announcement takes its next step. Its calls run in the
  request's thread and every one has a timeout (`httpx`, SMTP), and the attempts are
  finite. Every call may fail, and lose its answer; `StoredIsTold` says so, and claims
  nothing when the process stops or no channel is configured.

## What is proved

TLAPS checks what follows for all values of the constants: any number of request threads,
processes, members, deals, brokers, applications, messages, VINs and ages, and any
positive number of attempts. Every safety property and every action property that a
passing run checks is proved.

What the constants are assumed to be is named in the modules, and is what the code or
its data make them:

| Assumption | Why it holds |
|---|---|
| `ConstantsDistinct` (`Deals`, `Accounts`) | NULL and "not in the payload" are not values; a token is not a user |
| `PayloadsAllowed` (`CreditUnions`) | payloads are validated against the roles and statuses there are |
| `InputsAllowed` (`CreditApplications`) | an e-mail has an `@`, which no normalised phone has; a lead's e-mail is required; attempts are at least one |
| `RoomAllowed` (`DealRoom`) | an account has one role; NULL is nobody; the prefixes are words |
| `NoneIsNoProc` (`SheetsSync`) | NULL is no process and no terms; the terms of edits are told from the sheet's |
| `TimesAllowed` (`ResponseCaches`) | lives are positive numbers; the shared one is at least 30 seconds (`response_cache.py:67`). That a request is over before ages saturate is a bound of the model |
| `LeadAttemptsPositive` (`LeadDelivery`) | the loop runs at least once |
| `TablesAllowed` (`Storefront`) | there are finitely many listings and VINs; VINs, lines and prices are numbered from one, 0 being NULL; pages and caps are positive; the homepage's older lists were stored by `set_homepage_featured`, without repetitions and within the limit |

Some theorems assume more, in their statement, because without it they are false:

- `OneWorker`, that requests do not overlap (`Deals`, `CreditUnions`, `Accounts`): the
  overlaps that break these properties are listed in the
  [next section](#where-the-code-departs-from-what-it-says). The theorems cover what no
  run does: any number of accounts, deals, credit unions, and of requests one after another.
- `ForeignKeys`, that the database checks and clears references (`CreditUnions`).
- `SyncsLockFirst`, that no sync is the admin's or the script's (`SheetsSync`): the admin's
  has its snapshot before the lock, and `sheets_admin` refutes `RetiredRowsGone` for it;
  the script takes no lock.
- `ClearsWatched`, that the clears watched are of the filters or the landing page by a
  writer that clears them (`ResponseCaches`): the search and the specials have more caches
  than the clears reach.

`DealsProofs`

| Theorem | States |
|---|---|
| `Invariance` | `Spec => [](TypeOK /\ StatusInv)` |
| `TypeCorrect` | `Spec => []TypeOK` |
| `StagesInOrder` | `Spec => []StagesLoggedInOrder` |
| `StampsMatch` | `Spec => []StampsMatchStatus` |
| `BrokerExists` | `Spec => []AssignedBrokerExists` |
| `Refinement` | `Spec => LifecycleSpec` |
| `LogTells` | with `OneWorker`: `Spec => []LogTellsRow` |

The invariants are not inductive by themselves, because a commit writes on the strength
of a row that was read earlier. The strengthening (`ReadRowsHold`) says how that row
relates to the present: its status is in the log (the log only grows, so it stays
there), its move was allowed from that status, its stamps agreed, and stamps it had are
still set (they are never cleared). `StatusLogged` says the present status is in the
log. With these, an update adds to the log a status that may follow one already there,
which is a step of `DealLifecycle`; and a stamp the request did not write, because it saw
it set, is set.

`LogTells` needs to know that the row is still as the update read it (`AsRead`), which
only the deletion of the assigned broker between the two steps disturbs: the column is
then NULL already, and the broker in the row that was read is no broker any more.

`SheetsSyncProofs`

| Theorem | States |
|---|---|
| `TypesInvariant`, `TypeCorrect` | `Spec => []TInv`, `Spec => []TypeOK`, whoever syncs |
| `Invariance` | with `SyncsLockFirst`: `Spec => []IInv` |
| `NoRetiredRows` | with `SyncsLockFirst`: `Spec => []RetiredRowsGone` |
| `TermsOfSheet` | with `SyncsLockFirst`: `Spec => []TermsFollowSheet` |
| `OneMeta` | with `SyncsLockFirst`: `Spec => []OneMetaRow` |

A sync that is past the lock holds it (`SyncsHoldLock`), and its snapshot is current in
what counts (`SnapshotsCurrent`): it shows the meta rows as they are and *every* row that
the sheet owns. It may show more: an editor may delete a row or take it over meanwhile,
and then the cleanup's `DELETE` finds no row of the sheet's. What the sync has matched is
on the sheet it has seen (`FoundOnSheet`). `RetiredRowsGone` and `TermsFollowSheet` relate
the rows to the recorded hash, and need `OneMetaRow` to speak of one hash. `TInv` adds to
the types that a row an editor has read is still there: editors own their rows.

`CreditUnionsProofs`

| Theorem | States |
|---|---|
| `Invariance`, `TypeCorrect` | `Spec => []IInv`, `Spec => []TypeOK` |
| `NothingDangles` | with `ForeignKeys`: `Spec => []ReferencesResolve`, whatever overlaps |
| `DealsOfMembers` | with `OneWorker`: `Spec => []DealApprovalIsMembers` |
| `DeletionIsComplete` | with `OneWorker`: `Spec => DeletionLeavesNothing`, foreign keys or not |

`IInv` adds `RowsKnown` to the types: the accounts a request is to write are there, since
accounts are never deleted here; its approval was issued, and if it still is, it is of the
credit union the request took it to be of, since no statement moves an approval from one
credit union to another and ids are not reused. For one request at a time, `FreshReads`
says that what a request has listed or checked still holds when it writes: the staff and
the approvals of a credit union to be deleted are all of them.

`AccountsProofs`

| Theorem | States |
|---|---|
| `TypeCorrect` | `Spec => []TypeOK`, whatever overlaps |
| `Invariance` | with `OneWorker`: `Spec => []IInv` |
| `InvitesAreOneTime` | with `OneWorker`: `Spec => OneTimeInvites` |
| `AdministrationIsSafe` | with `OneWorker`: `Spec => AdministrationKeepsSuperAdmin` |
| `CompleteIsKept` | with `OneWorker`: `Spec => CompleteAccountsKept` |

`IInv` says of each request that what it has made sure of before it writes (`Sure`) is
still so: the link it will use is valid, the account it will replace or start is not
complete, another super admin remains. Each of the second steps is first shown to be a
step of one shape (`Writes`): it removes an account, inserts one at an unused id, or
rewrites one in place, and changes a password or a role only if it is a request for that.
The three action properties follow from the shape.

`CreditApplicationsProofs`

| Theorem | States |
|---|---|
| `Invariance`, `TypeCorrect` | `Spec => []IInv`, `Spec => []TypeOK` |
| `KnownHearNoBroker` | `Spec => []KnownGoesToWebhook` |
| `FallbackMailTrue` | `Spec => []FallbackMailIsTrue` |
| `OneContactEach` | `Spec => []NoSecondContact` |

Contacts are only added. So the lookup of an applicant the CRM knew keeps, until it has an
answer, a key to ask about that the CRM holds (`StillFindable` in `AppsHeeded`): it ends
with "found" or, if a search fails, "error", and never with "not found". Of the contacts
that were there when the task of a lead began to look, the task has ruled out every key
it has asked about (`LeadsLookUp`), except phones too short to be asked about: when it
creates a contact, those that share a key with it are later ones. `BeforeIsBefore` orders
a contact after the lookup that led to it.

The task that makes a lead's contact goes on to deliver the lead; the second half of the
module is about `LeadDelivery`:

| Theorem | States |
|---|---|
| `DeliveryInvariance` | `DeliverySpec => []DeliveryIInv` |
| `DeliveryTypes` | `DeliverySpec => []DeliveryTypeOK`, so no attempt is numbered beyond the limit |
| `SentIsReceived` | `DeliverySpec => []SentWasReceived` |
| `QuietIsSettled` | `DeliverySpec => []QuietMeansSettled` |
| `OutcomeWasAttempted` | `DeliverySpec => []SettledWasAttempted` |

The invariant `DeliveryIInv` says *who* will settle a pending row: some task that has yet to
read the row for its last report, or that will write over the status it read
(`Settles`). A task that read "pending" and reports "pending" leaves the column out but
still has its outcome to report; a task that read "sent" and reports "sent" leaves it
out, and then a retry that made the row pending meanwhile has a task of its own.
`Counted` says that attempts, once counted, stay counted, even when a task leaves the
column out.

`DealRoomProofs`

| Theorem | States |
|---|---|
| `Invariance`, `TypeCorrect` | `Spec => []IInv`, `Spec => []TypeOK` |
| `RoomIsDiscreet` | `Spec => []RoomKeepsItsOwn` |
| `TurnsAreTaken` | `Spec => BrokersTakeTurns` |

What is stored is what was said, encoded (`StoredAsSaid`), so that what a reader or the CRM
gets is a parse of an encoding, which the lemmas about `Encode` and `Parse` compute for
every text, those that begin with a prefix among them. A message on its way out of the
room is one for the dealers (`OnwardToDealers`), and so is what has left (`SentIsOwn`). For
the turns, messages are stamped in the order of their ids (`Stamped`), and a post that has
chosen its broker, while nothing has been stored since, has one who was not served after
any other (`PostsInTurn`).

`ResponseCachesProofs`

| Theorem | States |
|---|---|
| `Invariance`, `TypeCorrect` | `Spec => []IInv`, `Spec => []TypeOK` |
| `RecentAnswers` | `Spec => []AnswersAreRecent`, in any number of processes |
| `UpdatesAreSeen` | with `ClearsWatched`: `Spec => []UpdateIsSeen` |

The age of an answer is bounded by going through every place content may rest in: in an
entry, age and time left together stay below a bound of that cache (`EntriesRecent`), because
a tick moves one to the other; in a request, the age is at most what the place it came from
allows plus what the request has taken since (`Recent`). The specials may hold content of the
search's, which is older (`Borrowed`). `UpdatesAreSeen` adds that without a shared cache,
after a clear that no request raced, the content in memory of its process and of its
requests is no older than the clear.

`StorefrontProofs`

| Theorem | States |
|---|---|
| `TypeCorrect` | `Spec => []TypeOK` |
| `TotalsAreTrue` | `Spec => []TotalsHold` |
| `DealerPagesAre` | `Spec => []DealerPagesEnd` |
| `FiltersMatch` | `Spec => []FiltersMatchSpecials` |
| `HomepageFull` | `Spec => []HomepageIsFull` |

The pages are functions of the tables, so here `TypeOK` is inductive by itself, the
homepage's list without repetitions included, and each property follows from it: the work
is in the pages. It is done without induction over data, because no list is built by
recursion: a sorted list is a function of ranks, and its facts are facts about
cardinalities.

- *Lists.* `InOrderSorts`: ranking a finite set by a strict total order gives each element
  a place of its own; `OrderLists`: any order of a finite set lists each element once.
  `AtPicks`, `AtKeeps`, `SliceOf`, `ConcatInjective`: filtering, cutting and joining keep a
  list free of repetitions, and say what is in it. `PageHolds`: a page of a list holds its
  share of it.
- *Rows.* `Greatest`, `BestIsOne`, `BestRowIs`, `BestOfferIs`: a finite, non-empty set has a
  best row and a best offer, so the choices made by the code's sorting exist.
- `TotalsAreTrue`: with a limit on the payment, what matches and is fetched is all that
  matches (`WindowPlain`), so that the list each page is cut from has the same vehicles in
  it, whatever their order (`PaidHolds`); without one, the listings fetched are the page's
  share of what matches, and nothing is filtered after the cut (`PlainHolds`), and manual
  vehicles never lengthen a page beyond its share of the total (`ShareGrows`).
- `DealerPagesAre`: whether a page has another after it depends on the number of rows, not
  on their order (`DealerHolds`).
- `FiltersMatch` compares two computations of the same thing, one vehicle at a time:
  `FiltersComplete`, that what the search shows as a new special passes the filters' test if
  its line names a model; `FiltersSound`, the converse, under the hypothesis of the property:
  what is fetched is then all there is (`WindowBroad`), and a feed listing has an estimate of
  its own, whatever offer stands for its line.
- `HomepageFull` counts a list without repetitions by its set (`InjectiveCount`).

Only model-checked, not proved: liveness (`PendingIsSettled`, `LockReleased`,
`StoredIsTold`). It rests on fairness, which is outside what the prover handles.

## Where the code departs from what it says

One run finds a property violated that a comment of the code states.

- **A retired sheet row that stays** (`sheets_admin`, `admin.py:136`). The admin's session
  has its snapshot before it waits for the lock. Rows added by the sync it waited for are
  not among the rows its cleanup lists (`sheets_sync.py:430`), so a VIN the sheet has
  dropped since keeps its row; the new hash is recorded, so schedulers skip the sheet and
  nobody removes the row until the sheet changes again. Schedulers and webhooks open
  their snapshots after the lock, and the property holds for them (`sheets`).

The serial runs say what holds when requests do not overlap because the following are
behaviours of the models when they do, or in spite of it. They are not runs of their own.

- Two `create_deal` requests at once may open two deals for one vehicle
  (`deals.py:145`); two claims of one approval both succeed, the later winning
  (`credit_unions.py:1539`).
- Two registrations at once both find a one-time invitation unused, and the later commit
  takes it from the earlier (`auth.py:342`).
- Staff assigned while their credit union is being deleted is released from it but keeps
  the role (`credit_unions.py:646`), because the list of roles to clear is older.
- Two demotions or deletions of super admins at once each count the other as remaining
  (`admin.py:1393`). And register replaces whatever account at its address has no
  password, without a look at its role (`auth.py:309`): a Google account that was made
  super admin can be replaced by a customer's. `AdministrationKeepsSuperAdmin` states what
  remains true.

## What is not modelled

- `sync_scores`: upserts only, under the same lock as `sync_offers`; parsing of cells.
- The trade-in email of a lead: it records nothing.
- Profile fields of credit unions, mails of member invitations and their re-sending, the
  password and impersonation of primary staff.
- Login and its repair of accounts without a realm, tokens (they are stateless).
- The review of a credit application (`credit.py:178`, one row, last writer wins),
  prequalification and lender options (read-only), the wording of mails and payloads.
- Eviction from a full cache (64 and 256 entries), the 30-second cache of
  `routes/vehicles.py`, the cache of testimonials. Edits of manual vehicles and offers
  clear no cache at all; the bound of `AnswersAreRecent` holds for what they change.
- Of the pages: sorting by price, limits on mileage, condition and trim, scores, the
  contents of cards, the manual override of single columns of a listing, canonical
  vehicles. Pricing beyond a factor, lender choice and recommendations are arithmetic and
  ranking over one snapshot.
- The rate limit of the demo contact: one window per address, pruned, counted and extended
  under one lock, in one process: a single step whose guard is the property.
- Favourites, documents, lenders, articles, testimonials, SEO and other page content:
  rows edited one at a time with no rule between them.
- Compatibility routes other than applications, messages and the dealers' list: they
  reshape the answers of other routes.
- Email, SMS, Cloudinary, Google, GoHighLevel: outside services, seen only as calls that
  may fail, or do their work and fail to answer.
- Migrations and scripts, except for the constraints they leave, which are assumptions.

## Plan

Modelled and checked, in this order because each is where most can go wrong: `DealStatus`,
`DealLifecycle`, `Deals`; `LeadDelivery`; `SheetsSync`;
`CreditUnions`; `Accounts`; `CreditApplications`; `ResponseCaches`; `Storefront`;
`DealRoom`.

Proofs, of every safety and action property of every module, last those of `Storefront`.

Left: of the code, the review of credit applications and `sync_scores`; of the proofs, the
theorems of `SheetsSync` for the admin's sync, once its session opens after the lock, and
liveness, which stays with TLC.
