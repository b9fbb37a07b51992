# ifinmail in TLA+

ifinmail is a self-hosted mail server: Postfix, Dovecot and Rspamd under a Django
control plane (`backend/`), Celery workers that do the background work, shell
provisioning and an Android client. The Django code never moves mail bytes between
servers; what it must get right is *who does what once*: a webhook sent by one
worker, a campaign email sent at most once, a log line turned into one event, an
approved message sent exactly when a person said so. Those are questions about what
happens between two steps of two processes, and they are what this directory models.

Paths below are relative to the repository; `services/x.py` stands for
`backend/apps/mail/services/x.py`.

1. [The system](#the-system)
2. [Modules](#modules)
3. [How the modules correspond to the code](#how-the-modules-correspond-to-the-code)
4. [Time](#time)
5. [Runs and their bounds](#runs-and-their-bounds)
6. [Fairness](#fairness)
7. [What is proved](#what-is-proved)
8. [Where the code and its promises differ](#where-the-code-and-its-promises-differ)
9. [What is not modelled](#what-is-not-modelled)
10. [Plan](#plan)
11. [Running the checks](#running-the-checks)

## The system

Processes: gunicorn web workers (console, JSON API), one Celery worker container with
two processes and the beat (`--beat --concurrency=2`), PostgreSQL, Redis (broker and
cache), Postfix and Dovecot. They interact through database rows, cache counters,
broker messages, files on shared volumes (published plugin files, the Postfix log)
and SMTP/IMAP. Nothing but the database is durable, and a Celery task may be killed at
any statement: `SoftTimeLimitExceeded` is raised wherever the task happens to be, and
the hard limit or a restart of the container ends it without a trace.

The components whose state changes in more than one step:

| Component | State | Operations | Why it is hard | What makes it correct |
| --- | --- | --- | --- | --- |
| Outgoing webhooks | endpoint and delivery rows, broker messages | emit, claim, attempt, sweep, ping, switch, delete | several queues name one row; claims expire; an attempt saves what it read seconds ago | one sender at a time, bounded requests, outcomes that tell the truth, every row ends |
| Campaigns | campaign, recipients, cache lock, pace counters | run, claim, send, pause, resume, cancel, finish | a run is killed at its time limit; two runs overlap when the lock expires; a person cancels meanwhile | one email per claim, budgets kept, a refused campaign stops itself, every campaign ends |
| Delivery event scan | log position in the cache, events | scan, rewind, flush | a soft time limit strikes anywhere; the position is saved before the events; the log is rotated | no line skipped in silence, none counted twice without a stop |
| Sending and approvals | idempotency slots, three cache counters, held messages | send, hold, approve, reject, expire | increments and refunds interleave; SMTP inside a transaction; two people decide | quotas hold and are settled, retries are safe, decisions are true |
| Inbox event scan | last seen UID per mailbox | scan, emit | more mail than one scan reads; a new mailbox; UID validity | every new message is announced once |
| Outbound containment | paused list, hourly counters, published file | evaluate, pause, resume, publish | evaluation reads the counters before the pause list | a resumed sender is not paused for what was forgiven |
| Bounce guard | counters and pause of an API key | count, pause, resume | the pause is deleted before the counters | as above |
| Plugin lifecycle | installation rows, published files | install, enable, disable, update, uninstall, reconcile | effects run outside the lock and are finished by any number of others when they seem dead | a row settles to the last operation, the file matches the rows |
| Plugin submissions | submissions, published versions | submit, review | a version is compared with rows that are not locked | versions only go forward |
| Entry points, blocks | block list, flood mode, rule file, kernel table | block, lapse, publish, reconcile, load | rendering and writing are two steps, and so are the agent's digest and its load | the kernel ends with the latest settings |
| DNS zones | rows, zone files, Knot's configuration and what it serves | publish, change, remove, reload | files are swept by rows read earlier, and loaded by a loop that compares fingerprints | Knot ends with the zones that are ours and their records |
| Domains | the row of a domain's DKIM key, its file | add, provision again, sync files, remove | row and file are two writes, and each step only writes what is missing | mail is signed with the key whose record is published |
| Certificates | request file, an uploaded pair, the pair in use | request, upload, issue, switch back | one request file; a pair is two files; the old certificate goes before the new one comes | the server keeps a certificate with its key |
| Mailboxes and logins | logins and their rights | create, disable, promote, delete, password | a fact that spans two rows, checked without a lock | an administrator is always left |
| Assistant | conversation, proposal | ask, answer, apply | a slow answer is taken for a dead one | one answer at a time |

The rest (settings pages, reports, storage drivers, website, releases, client setup,
DNS providers, parsers of text) keeps no state across steps, or one row in one
transaction; `PROJECT.json` lists every part with the reason.

The first four rows are the core: they are where two processes, a limit that strikes
anywhere and a remote answer meet, and where a mistake sends mail twice or loses an
event. They have modules of their own size, with abstract specifications and proofs. The
others are smaller machines of the same kind, a module each; plugin submissions and the
assistant are left out, with the reason under [what is not modelled](#what-is-not-modelled).

How they meet: every event, whoever makes it (the scans, campaigns, tracking,
containment), goes through `webhooks.emit_many` and from then on is a delivery of
`WebhookDelivery`. A campaign's messages are remembered for the log scan
(`delivery_events.remember_many`) at the end of a batch, which is the hazard
`Remember` stands for in `DeliveryScan`. The log scan's bounces go to the suppression
list that `CampaignRunner` (`OptOut`, `Block`) and `Sending` (`Refused`) read. The
modules share no variables: each takes what the others may do at any time as an
action of its own. The same holds of the smaller modules: containment and the bounce
guard refuse a campaign (`Block`) or a request (`Refused`), and whatever raises events
ends in the webhook queue. What meets in *files* is modelled together with its reader,
because that is where it goes wrong: the list Postfix reads (`Containment`), the zone Knot
serves (`ZonePublish`), the rules the firewall's agent loads (`EntryPoints`),
the request certbot answers (`Certificates`), the key Rspamd signs with (`DomainKeys`).

## Modules

| Module | What it is |
| --- | --- |
| `WebhookDelivery` | the webhook queue |
| `WebhookContract` | what it promises of one delivery: abstract specification |
| `WebhookProofs` | theorems about it |
| `Sums` | lemmas about sums over finite sets, for the budgets and the quotas |
| `MCWebhookDelivery`, `MCWebhookLive` | its instances for TLC: safety, and two scenes for liveness |
| `CampaignRunner` | campaign runs and people's changes of state |
| `CampaignContract` | what they promise of one recipient: abstract specification |
| `CampaignProofs` | theorems about it |
| `MCCampaignRunner`, `MCCampaignLive` | its instances for TLC: safety, and two scenes in which campaigns end |
| `DeliveryScan` | the scan of the Postfix log |
| `DeliveryProofs` | theorems about it |
| `MCDeliveryScan` | its instances for TLC |
| `Sending` | sending through the API, quotas, human approval |
| `SendingProofs` | theorems about it |
| `MCSending` | its instances for TLC |
| `Containment` | pausing a mailbox that sends too much, and the list Postfix reads |
| `InboxScan` | new mail of a mailbox becomes events |
| `InboxProofs` | the theorems about it |
| `BounceGuard` | pausing an API key whose mail bounces |
| `Administrators` | changes of logins and who administers |
| `MCServices` | these four for TLC |
| `ServicesProofs` | theorems about containment, the bounce guard and the logins |
| `PluginLifecycle` | installations of plugins and their published files |
| `ZonePublish` | an authoritative zone, its file, and what Knot serves of it |
| `EntryPoints` | the firewall's rules, the reconcile job and the agent |
| `Certificates` | the console's requests and the certbot container |
| `DomainKeys` | the DKIM key of a domain, in its row and in its file |
| `MCPublishing` | these five for TLC |
| `PublishingProofs` | theorems about plugins, zones and certificates |

`MCServices` and `MCPublishing` compose their modules with a variable `part`: a behaviour
chooses one part at its beginning and the variables of the others stay as they are. That
is a composition without interaction, on purpose: these components share no state, and
their product would only multiply. Several parts of one module are scenes of it, each with
what it needs to be interesting. The modules that have theorems are extended, so that a
run checks the very definition a theorem is about; that is why their formulas are called
`ContainmentInit`, `GuardNext`, `ZoneNext` and so on, and the others plainly `Init` and
`Next`. `PluginLifecycle` is instantiated as `Plugin`, and its theorems are about
`Plugin!Spec`.
`ContainedInPause` and `ServedInNaming` are `Contained` and `ServedInTheEnd` in the parts
whose fairness they need.

In every module a process is a record `job[p]` whose `pc` is the next statement that
touches shared state; the other fields are the local variables that are used after it.
Everything between two such statements is one action. History variables (said so at
their declaration) record what the outside world saw; no guard of the code reads them,
only bounds of the model (`faults`, `stops`, `rotations`, `ops`, `outages`) do. A definition whose name
ends in `Mutant` is a plausible mistake in the definition that follows it. Nothing of
the specification uses it; it is there to show that a property would catch the mistake.

## How the modules correspond to the code

### WebhookDelivery (`services/webhooks.py` and its Celery tasks)

A delivery is `<<endpoint, event>>`, which is the unique constraint of the table. The
row is `status`, `wait` (ticks until `next_attempt_at`) and `attempts`; the broker is
`queue`, a sequence of chunks.

| Code | Model |
| --- | --- |
| `emit_many`: read of the endpoints, duplicate check, `bulk_create(ignore_conflicts)`, `on_commit` | `EmitRead`, `EmitLookup`, `EmitInsert`; `EmitRefused` when an endpoint is gone by the insert |
| `_schedule`, `delay()` of each chunk | `Chunkings`, `Publish` (each message may be lost) |
| `deliver_batch`: the loop, the budget, the requeue | `Take`, `Skip`, `Claim`, `OverBudget`, `Requeue`, `Finish` |
| `_claim`: conditional update of `next_attempt_at` | `Claim`, `ClaimedFor` |
| `attempt`: request, save of the endpoint, save of the delivery | `Answer`, `SaveEndpoint`, `SaveDelivery`; `Abort` when a row to save was deleted |
| `sweep`: what is due, what is old | `Sweep`, `Sweepable` |
| `ping` | `Ping`: a row that is due at once, attempted without a claim |
| create, `set_active`, delete | `CreateEndpoint`, `SetActive`, `DeleteEndpoint` |
| soft limit in a request, hard limit, container restart | `Answer(p, "error")`, `Kill` with or without redelivery (`acks_late`) |

`WebhookContract` sees a row as its state and the set of receipts. The refinement
mapping is `ContractState`: the status, or "gone" once the endpoint is deleted.

### CampaignRunner (`services/campaign_runner.py`, `services/marketing.py`)

A recipient is `<<campaign, n>>`; `n` is both the address and its place in the order
of the primary keys, which decides who is taken first (`Lowest`) and which rows
`_tripped` looks at (`Highest`).

| Code | Model |
| --- | --- |
| `run`: lock, stale claims, due campaigns | `Begin` (`Stale` is `STALE_CLAIM`) |
| what to pause, budget, connection to the relay | `Plan`, `Budget` |
| the passes over the campaigns, shares | `Pick`, `NextPass` |
| `_send_batch`, `_claim`, `compose`, `mail.send` | `Claim`, `Compose`, `Relay` |
| recording, releasing the claim | `RecordAnswer`, `RecordFailure` |
| `_tripped`, `_finish_if_done` | `BatchEnd`, `Tripped`, `Finished` |
| soft limit; soft limit in `remember_many`, whose caller catches everything; hard limit | `SoftLimit`, `SoftLimitSwallowed`, `Kill` |
| deleting the lock in `finally` | `End` (whoever holds it by then) |
| `create`, `pause`, `resume`, `cancel`, `start_now`, `reschedule` | `Create`, `Pause`, `Resume`, `Cancel`, `StartNow`, `Reschedule` |
| the clock against `scheduled_at`, `MAX_LATE` | `Elapse` |
| unsubscribing, suppressions; containment, bounce guard, domains | `OptOut`; `Block` |

The pace a warm-up gives is a constant (`Pace`, `Ceiling`): the formula is a function of
the domain's age. Merge tags are reduced to whether a value is missing (`Unfilled`).
`CampaignContract` sees the rows, the emails the relay accepted, and how many of them
got no answer; the mapping is the identity on these.

### DeliveryScan (`services/delivery_events.py`, `provisioning/docker/postfix/log-rotate.sh`)

The log is the line numbers `1 .. LogLength`; `Cleanup[l]` is the line that tied the
queue id of `l` to a message, so parsing is left out. Positions count lines.

| Code | Model |
| --- | --- |
| Postfix writes, the log is rotated | `Append`, `Rotate` |
| `remember`, `remember_many` | `Remember` |
| `_follow`: first run, read, saved position | `FirstRun`, `Read`, `SavePosition` |
| `_Batch`: bulk lookups | `Lookup`, `LookupFails` |
| `handle_line`, every `FLUSH_EVERY` lines a flush | `Handle` |
| `flush`: queue ids, counters and bounces, events | `FlushLinks`, `FlushCounts`, `FlushEvents`, each with its errors |
| the soft limit, at each place it can strike | `LimitBefore`; `LimitUnguarded` behind the save and outside the two `try`s of `scan`; `LimitInLookup`, `LimitInLine`, `LimitInLinks`, `LimitInCounts`, `LimitInEvents` |
| `_rewind`: the position read, the position written | `Rewind`, `Unhandled`, `Reset` |

The history variables `dropped` and `stopped` name every line the code gives up and why,
so `NothingSkipped` says that there is no other way to lose one. Two scans that overlap
give up lines in three places: a line whose queue id the other has read and not yet written
(`Unlinked`), what the other put back before this one saved its own position
(`SavePosition`), and its own lines, or those the other has put back, in `Reset`. `again`
names the lines both read.

### Sending (`api.py`, `services/messages.py`, `services/approvals.py`)

A client that retries makes another request with the same message. The counters are
taken in order `1 .. Quotas`, one cache operation each.

| Code | Model |
| --- | --- |
| `api_send_message`: read of the slot, claim of it | `Fresh`, `Answered`, `ClaimSlot` (the read and the write are two steps) |
| the slot's answer, its removal after an error, its expiry | `Succeed`, `Fail`, `SlotExpires` |
| `MessageService.send`: checks, hold | `Allowed`, `Refused`, `Hold` |
| `_take`, its refund, the refund of the earlier ones | `Take`, `TakeFails`, `Untake`, `Refund`, `GiveBack` |
| the relay | `RelayAccepts`, `RelayFails`, `ReplyLost` |
| `approve` (`select_for_update`, send, commit) | `Approve`, the same sending actions, `Commit` |
| `reject` (read, then save, no lock) | `RejectRead`, `RejectSave` |
| `expire` | `Expire` |
| a process that dies | `Kill`: a transaction rolls back, counters and slots stay |

Each call is made once, so a behaviour of this module is finite: it has no liveness
property beyond that, and the runs let it stop.

### Containment (`services/containment.py`, `services/plugin_points.py`)

A counter counts up to one past its limit; what is above makes no difference. `Procs` are
evaluations, people who resume a sender, and the plugins' reconcile.

| Code | Model |
| --- | --- |
| Postfix's and the API's counters, their expiry | `Send`, `Expire` |
| `evaluate`: `read_usage`, the paused list, then one login after the other | `ReadUsage`, `ReadPaused` (`Left`) |
| `pause` in one locked update, and its publish | `Pause`, `Render`, `Write` |
| `_alert_due`: read, then record; the hour of an alert | `ReadAlerted`, `Mark`; `Forget` |
| `resume`: the pause, then the counters, then the publish | `Drop`, `Clear` (`Cleared`), `Render`, `Write` |
| `registry.py` drops a value longer than `MAX_PAUSED` | `Listed` |
| Redis does not answer, a file cannot be written, a process dies | `ClearFails`, `WriteFails`, `Die` |
| `publish_if_changed` of the reconcile job | `Reconcile` |

### InboxScan (`services/inbox_events.py`)

A message is its UID; an event's identifier is made from the mailbox's validity and the
UID, as in the code, so a second scan's event is one the queue knows.

| Code | Model |
| --- | --- |
| mail arrives, is removed; a mailbox is made anew | `Arrive`, `Expunge`; `Recreate` |
| `mailbox_state`, comparison with the cache | `Look`, `Compare` (`SomethingNew`) |
| the first look: nothing is announced | `StartFromNow` |
| `list_messages`: the newest `MAX_NEW_PER_MAILBOX`, oldest first | `List` (`Batched`), `Oldest` |
| `get_message`, `emit` | `Announce` (`EventId`), `NotFetched` |
| the position after the batch | `SavePosition` (`Reached`) |
| an error, the time limit; Redis emptied | `Broken`; `PositionLost` |

### BounceGuard (`services/compliance.py`)

Two counters with an expiry each, started by their own first message; the rate is computed
as the code does, in tenths of a percent.

| Code | Model |
| --- | --- |
| `count`: `cache.add`, `cache.incr` of each counter | `BeginCount`, `AddOk`, `AddBounced` (`Plus`) |
| `_check_guard`: two reads, the comparison, the pause | `ReadOk`, `ReadBounced`, `Hold` (`Over`, `Rate`) |
| `resume`: the pause, then `delete` of each counter | `Resume`, `DeleteOk`, `DeleteBounced` (`Forgotten`) |
| the day of a counter | `Tick` (`Due`, `Later`, `Afresh`) |
| the cache does not answer: a count or a look is skipped, a `delete` of `resume` is passed over and what it should delete stays | `Unanswered`; the second alternatives of `Resume`, `DeleteOk`, `DeleteBounced` |

`results` is what was counted since the last resume, or since both counters were last
empty with nobody at work (`Afresh`); `doubt` holds while a counter says something else,
and ends with it.

### Administrators (`services/mailboxes.py` and the views that change logins)

| Code | Model |
| --- | --- |
| read of the row, `_ensure_not_last_admin`, early returns | `Read` (`Applies`, `Checked`, `OtherAdmin`) |
| `save(update_fields=...)`, `save()`, `delete()`, create | `Save` (`Saved`) |

`Saved` keeps apart what the code does: a column of a row that is gone cannot be written,
a whole row is written back as it was read.

### PluginLifecycle (`core/plugins/services/lifecycle.py`)

The files of all containers are one value: for each enabled plugin, its version and its
settings. `Claims[p][v]` is what version `v` of a plugin wants to set for itself.

| Code | Model |
| --- | --- |
| a request: the row read before the lock | `Request` |
| `_begin`: lock, state, revision, conflicts | `Begin`, `Refused` (`Allowed`, `Current`, `Conflicted`) |
| `publish_all`: rows read, files replaced | `Render` (`Rendered`), `Write`, `WriteFails` |
| `_settle`; the row marked failed, the files put back | `Settle` (`SettledTo`); `Fail` |
| 120 seconds, `_finish_stale` | `Age` (`Owned`), `Finish` |
| `reconcile`, `install_defaults` | `Publish`, `Default`, `Offer` (`Offered`) |
| gunicorn's timeout, a restart | `Die` |

`Age` needs a request that is at the operation to be gone (`Owned`): gunicorn kills it at the
same 120 seconds (`provisioning/docker/Dockerfile:32`) after which the row counts as stale. The
reconcile job (`plugins/tasks.py:10`) has no time limit, and its operation may count as stale
while it goes on. `Finish` is open to every process, as in the code: a page, an operation and
the job finish a stale row under no lock against one another (`lifecycle.py:95`, `:313`, `:366`).
`twice` records the installations at which a finisher and another finisher, or a slow job, meet
(`Shared`).

### ZonePublish (`backend/apps/dns/services/zones.py`, `provisioning/docker/dns/entrypoint.sh`)

| Code | Model |
| --- | --- |
| records, mode and row change | `Edit`, `SetMode`, `Remove` |
| `publish`: rows read; digest compared; row saved as it was read | `ReadRows`, `Digest` (`NewSerial`, `Unchanged`), `Save` |
| the records read again, the file written | `Compose`, `WriteZone` |
| files of zones not in the rows removed, Knot's configuration | `Sweep`, `Configure` |
| `fingerprint` of the files; the first, after Knot has started | `Files`; `Note` |
| the loop: fingerprint compared; Knot loads; a load fails or the check does | `Poll`; `Reload` (`Load`); `Refuse` |
| Knot starts, the container restarts | `Start` (`Load`), `Restart` |

The serial in a row and its file is data that nobody reads back: `knot.conf:39` and `:42`
(`zonefile-load: difference-no-serial`, `serial-policy: unixtime`) have Knot number what it
serves by itself, and nothing is said of it. `NewSerial` is there because the row and the
file's text are. What Knot serves goes to a journal (`journal-content: all`), from which it
serves a zone that is configured and has no file.

### EntryPoints (`core/platform/services/entrypoints.py`, `provisioning/docker/firewall/entrypoint.sh`)

Rules are a record of what they were rendered from: whether an entry point is closed, the
networks blocked, flood mode.

| Code | Model |
| --- | --- |
| `set_enabled`, `block`, `unblock` | `SetEnabled`, `Block`, `Unblock` |
| `start_flood`, `end_flood`: a read and a write | `StartFlood`, `SetFlood`; `EndFlood`, `ClearFlood` |
| time passes | `Lapse` |
| `apply`: three settings read, each of which may fail and give its default; the write | `Render` (`Reads`), `Write` |
| `core.reconcile_entrypoints`: `expire`, `expire_flood`, comparison with the file | `Expire`, `ExpireFlood`, `Reconcile`, `Compare` (`Drifted`) |
| the agent: digest against the last, digest again, `nft -f` | `Look`, `Digest`, `Load` |
| stopping or killing the agent; a process that dies | `RestartAgent`; `Kill` |

### Certificates (`core/platform/services/tls.py`, `provisioning/docker/certbot/entrypoint.sh`)

A pair is two files; each holds a half of some upload, or of "issued".

| Code | Model |
| --- | --- |
| `request`; `install_custom`: two files, then the request; giving up between them | `Ask`; `PutCert`, `PutKey`, `AskCustom`; `Abandon` |
| the host list is published or gains a name | `ListHosts` |
| the loop: id of the request, its action | `ReadId`, `ReadAction` |
| `issue`: the digest removed, `sync_hosts` | `Forget`, `Sync` |
| `letsencrypt`: the certificate removed, the mode, `sync_hosts`; when it fails, the pair put back | `RemoveLive`, `UseIssued`, `Sync`, then as below |
| `install_custom`: a complete upload moved, the pair compared, the old one cleared, the new one copied, the mode | `Test`, `TakeCert`, `TakeKey`, `Match` (`Fits`), `Clear`, `CopyCert`, `CopyKey`, `UseCustom` |
| the answer | `Report` |
| between requests, a list that has changed | `Issue` |
| a restart, with `/tmp` or without | `Kill` |

### DomainKeys (`backend/apps/domains/services/dkim.py`, `provisioning.py`)

| Code | Model |
| --- | --- |
| `add_domain`, `provision_domains` | `Add` |
| `ensure`: the active key, an imported one, or a new one | `Ensure`, `Adopt`, `Generate` |
| `write_file`, only when missing for a key that was there | `CheckFile` (`WantsFile`), `WriteFile` |
| `sync_files` at the start of the container and in the beat's job | `SyncFiles` |
| `remove_domain`: the row goes, the file stays | `RemoveDomain` |
| a process that dies, a lost volume | `Kill`, `LoseVolume` |

## Time

Clocks are timers. `wait`, `lock`, `fresh` and `left` count the ticks left, `age` the
ticks since a run began; no clock variable grows, so the state space is finite without a
bound on time. The minute and the day of the campaign budget turn over at any moment
(`NewMinute`, `NewDay`), because the clock owes nothing to the runs.

Two comparisons of timers carry the safety of the queues, and they are assumptions the
proofs use by name:

- `SoftTicks < ClaimTicks` (`WebhookDelivery`): `WEBHOOK_BATCH_SOFT_TIME_LIMIT` and
  `CLAIM_SECONDS` are both 60 seconds, but a claim is made after its task began, so it
  ends strictly later than the task.
- `HardTicks < StaleTicks` (`CampaignRunner`): `SCAN_TIME_LIMIT` and `STALE_CLAIM` are
  both 120 seconds, with the same argument.

A statement of the database or the cache takes no ticks in `WebhookDelivery`: `Tick` is
disabled between the end of a request and the two writes that record it. This is the one
place where the model is kinder than the world. A database that stalls for longer than
the margin between the request's timeout and the claim would let a second worker in;
the code has no protection from that, and the model does not claim it has. In
`CampaignRunner` time passes in every step.

The smaller modules need less: an expiry is an action that may happen at any time
(`Expire`, `Forget`, `Lapse`, `Age`), except where two expiries are compared
(`BounceGuard`, whose counters carry when they began) or time is data (`ZonePublish`,
whose files carry a serial made from the clock).

## Runs and their bounds

| Run | Question | Bounds |
| --- | --- | --- |
| `webhook_safety` | Does one process at a time send an event, a bounded number of times, and do rows tell the truth? | 1 endpoint, 1 event, 2 emitters, 2 workers, 2 attempts, 1 fault |
| `webhook_settles` | Does every row end? Two scenes: a test row whose process, message or worker is lost; a chunk of two events with no budget. | 1 endpoint, 1 web process, 1 worker, 2 attempts, 2 faults; 2 events in chunks of 2, budget 0 |
| `webhook_off` | *violated*: does an endpoint that is off stay off? | 2 events, 2 workers, 2 attempts, 1 fault |
| `campaign_safety` | Do overlapping runs, lost answers and crashes mail a claimed recipient once? | 1 campaign, 2 recipients, 2 runs, pace and ceiling 2, 1 fault |
| `campaign_budgets` | Are pace and ceiling kept across campaigns and runs? | 2 campaigns of 2 recipients, 1 runner, pace 3, ceiling 4, 1 fault; one recipient may opt out |
| `campaign_ends` | Does every campaign end, one that is refused stop itself, and one that is stopped stop soon? Two scenes: 2 recipients (one with a value missing) and every answer of the relay; 4 recipients who are all refused. | 1 runner, pace 1, ceiling 4, streak 2, 2 faults |
| `scan_safety` | Is every line passed with its event, or given up in a known way? | scene `alone`: 4 lines of 2 messages, reads of 3, flushes of 2, 2 stops, 1 fault, 1 rotation, three of these in all; scene `overlap`: 2 scans of 2 lines, 2 stops |
| `scan_stop` | *violated*: does a stop alone lose nothing? | the same log, 1 stop, no fault |
| `sending_safety` | Do quotas, retries and decisions hold under every interleaving? | 3 requests (two of one message, one of another under the same key), 2 approvals, 1 rejection, 2 counters, 1 fault |
| `sending_twice` | *violated*: does a key send once? | 2 requests |
| `services` | Are senders paused for what they sent and mail announced once; does the bounce guard miss nobody; is an administrator left? | parts `pause`, `notify`, `overlap`, `alone`, `bounces`, `logins`, below |
| `publishing` | Do the files other servers read end as the rows say, and is nothing undone on the way? | parts `one`, `two`, `edited`, `moved`, `served`, `changed`, `failing`, `killed`, `crossed`, `keys`, below |

Why these are enough to be interesting. Two workers, two emitters and a queue of one
message are the smallest instance in which a row is in a chunk, in the sweep and in a
redelivered task at once; a third worker only repeats what the second does (workers are
symmetric). Two attempts reach both the retry and the last attempt. Two runs with a lock
of 2 ticks and a limit of 1 overlap only through `SoftLimitSwallowed`, as in the code; a
pace of 2 for 2 recipients lets a batch go on after a failure. `campaign_budgets` needs
two campaigns whose shares of one pace do not divide evenly and a second run within the
minute. In the scene `streak` of `campaign_ends` the pace is below the streak, so that no
batch sees all refusals; the recipients a scene does not want opt out before there is a
campaign. Reads of 3 lines over a
log of 4 make a second read, with a cleanup line in one read and its status lines in
the next; flushes of 2 leave a short last flush.
Two lines of one message, remembered in time, are enough for two scans that overlap: every
set the model adds to `dropped` or `again` for them is needed there, for without it the
properties fail. The
limits of `sending_safety` are 2 and 2, and the message of the third request needs 3 of
the second: it is refused there and gives back the first, and while it holds its places
it stands in the way of the other two.

The parts of `services`:

- `pause`: one evaluation, one administrator, the reconcile job and whatever fails, for
  one sender over a limit of 1, with `MaxPaused = 1` and `MaxOutages = 1`; `notify`: two
  evaluations that only alert. One login is enough for `Forgiven`, which is about one
  sender's counter; several logins share nothing but the list, and the list's limit is
  reached by `ListedMutant` with one.
- `overlap`: two scans of one mailbox of two messages with a batch of 1, so that a batch
  is full and the older scan saves last; `alone`: one scan while the mailbox is made anew
  (`MaxBoxes = 2`); both with one failure.
- `bounces`: two counts in a row or side by side, two ticks and a day of two, so that one
  counter may expire before the other, and one lost answer of the cache; a minimum of 2
  and a limit of 50 percent. One batch is over the limit by itself, one is over it only
  with bounces a resume should have deleted, and one, the second scan's, takes the first
  below the limit again, so that it matters when it is read.
- `logins`: two administrators, one of them a superuser, and two consoles with any
  operations.

The parts of `publishing`:

- `one`: one request beside the job, whose default plugin it may remove, and one fault;
  `two`: two requests on two plugins that want the same setting (the first of them since
  its version 2), and the job after them. Three operations in all, which is a plugin
  installed, removed and installed again, or two plugins and one more operation.
- `edited`, `moved`: two publishers, while the records change once or the zone's mode
  twice, beside Knot and its loop; `served`: one publisher, and any two of a change of the
  records, the mode or the row, a load that fails and a restart of Knot, and the clock.
- `changed`: two changes of the firewall's settings by a person beside the job and the
  agent; `failing`: one change, and one fault.
- `killed`: one upload, two requests and one fault; `crossed`: two uploads and two
  requests.
- `keys`: two processes that add, repair or run the job, two lives of the domain, three
  keys, one fault, with the file of older scripts or without.

`ClaimTicks = 2`, `SoftTicks = 1`, and `StaleTicks = 3`, `HardTicks = 2`, `LockTicks = 2`
keep the order the code's constants have; `campaign_budgets`, whose question needs no
overlap of runs, takes each of its four one tick less (2, 1, 0, 1), in the same order. `MaxQueue` limits what the sweep puts beside
what is queued already; emitters and requeues are not limited by it. `MaxFaults`,
`MaxStops` and `MaxRotations` limit how often the environment fails, nothing the code does.
`Results`, `Decliners` and `Blockable` leave out answers and people's changes that the
question of a run does not need; between the runs all of them occur. No run has a state
or action constraint of TLC; a scene is a conjunct of its next-state relation.

`CHECK_DEADLOCK FALSE` is given for webhooks, scan, sending, services and publishing:
their environment may stop writing, and a table in which every row has ended, a log that was read, and requests
that were answered are places to stop at. Campaign runs can always begin again, so
deadlock is checked there.

What each property says and which mistake breaks it stands beside it in its module; the
list of hazards in `PROJECT.json` ties each to the line where it bites.

- `OneSender`, `PostsBounded`, `ImplementsContract` (webhooks): duplicates in the queue
  cost no request; an outcome is final and follows the answer it records.
- `Settles`: a pending row ends, whatever is lost.
- `MailedOnce`: of two runs that overlap only one is about to mail a recipient, and a
  recipient is mailed again only after an answer was lost.
- `InDoubt`: a run that is cut short leaves one recipient of whom nobody knows.
- `BudgetsHold`, `StopsItself`, `StopsSoon`, `CompletedIsDone`, `Ends`.
- `NothingSkipped`, `CountedTwice`, `CatchesUp` (scan).
- `QuotaHolds`, `QuotaExact`: a limit is never passed by what left, and at rest a
  counter is what left plus what could not be given back.
- `RepeatTrue`, `SequentialRetriesSafe`, `DecisionsTrue`.
- `Forgiven`, `Followed`, `ContainedInPause` (containment); `NothingPassed`, `AnnouncedOnce`,
  `CaughtUp` (inbox); `PausedForItsResults`, `NoneEscapes` (bounce guard);
  `AdministratorLeft`.
- `NoClash`, `StaysSettled`, `NoLostSetting`, `RemovedForGood`, `Converges` (plugins);
  `ServedInNaming` (zones); `RulesFollow` (firewall); `StaysServed`
  (certificates); `KeysAgree` (DKIM).

Several of these say "unless": the code has a window, and the property says how wide it
is and that there is no other. The history variables `crossed`, `twice`, `doubt`,
`tainted`, `excused`, `swapped`, `spoiled` and `parted` name those windows, each set by
the very steps that open it; what comes of them is listed under
[where they differ](#where-the-code-and-its-promises-differ).

## Fairness

Safety is checked for `Spec`; only the specifications with liveness (`FairSpec`, `MCSpec`)
assume fairness, of the processes and never of the environment that fails or of people.

- Webhooks. `WF(Loop(w))`, `WF(Attempt(p))`: Celery keeps its two processes running, and
  a request ends by its timeout or the task's soft limit. `WF` of the emitters' steps: a
  request goes on. `SF(Sweep)`: the beat queues the sweep every minute for ever, and a
  sweep is enabled again and again between claims, not continuously. `SF(Tick)`: time
  passes although `Tick` is disabled while a process writes. Emitting, switching,
  deleting, pinging and killing have none.
- Campaigns. `WF` of a run's own steps; `SF(\E p : Begin(p))`: the beat starts a run
  every minute, and the lock frees again and again; `SF(Tick)`; `WF(NewMinute)`,
  `WF(NewDay)`. Which campaign of a pass comes next is not fair: a pass ends anyway.
- Scan. `WF(Scan(s))`, `WF(\E s : Begin(s))`: as above. Soft limits and faults have no
  fairness and are finite in number, which is what "as long as they do not go on for
  ever" in `CatchesUp` means: a scan that is stopped in the same place by every run
  catches up with nothing, and the model does not say otherwise.
- Containment. `WF` of what a process does once it began; `SF(ReadUsage)` of the
  evaluation that pauses: the beat starts it every minute, and it is disabled while one
  runs; `SF(Reconcile)`: the job comes every few minutes, whenever the list differs.
- Inbox. `WF(Look(s) \/ Scanning(s))`: a scan begins every 30 seconds and goes on.
- Plugins. `WF` of a request's and the job's steps, of `Age` and of `Offer`; `SF(Finish)`
  and `SF(Publish)` of the job: both are disabled while it does something else.
- Zones. `WF` of a publisher, because the job publishes every 15 minutes; `WF(Serve)`: Knot
  starts and the loop polls as long as the container runs. Failed loads and restarts have none.
- Firewall. `WF` of the beat's job, of the agent's loop and of a publishing that began.
- DKIM. `WF` of what began, and `SF` of the job's `SyncFiles` while a file is missing.
- The certificates, the bounce guard and the logins have safety properties only.

## What is proved

TLAPS proves the following for all values of the constants that satisfy the named
assumptions: any finite sets of endpoints, events, workers, recipients, requests, lines;
any numbers of attempts, faults, runs, counters; any timers in the assumed order. The
assumptions are `SetsAssumption` and `TimesAssumption` (`WebhookDelivery`),
`ConstantsAssumption` (`CampaignRunner`), `LogAssumption` (`DeliveryScan`),
`SendingAssumption` (`Sending`) and `GuardAssumption` (`BounceGuard`); TLC evaluates each
on every run of its module. The smaller modules need next to nothing of their constants,
and their theorems say what it is: a limit that is a natural number (containment),
`MaxMail` and `MaxBoxes` likewise (inbox), a `None` that is not "issued" (certificates) or
not a number (plugins).

Every invariant and every action property of the passing runs is stated by a theorem; what
is left to TLC is liveness. Some theorems have a hypothesis beside the specification, which
is part of what they say:

- `StopsItselfAlways`: one campaign run at a time (`OneRun`), as in the run that checks it;
- `NoClashAlways`: no plugin is removed while somebody waits to enable it as it was
  (`Undisputed`);
- `NoLostSettingAlways`: no plugin is removed while a form that was filled in for it waits
  (`Unremoved`);
- `RemovedForGoodAlways`: there is one reconcile job, and it is no request.

The hypotheses of the plugins are those the code needs: without them there are behaviours,
some longer than TLC's bounds, that break the property. They are described under
[where they differ](#where-the-code-and-its-promises-differ).

**WebhookProofs.** `IInv == TypeOK /\ RowsOK /\ ClaimsOK /\ Exclusive`. `OneSender` alone
is not inductive: nothing in it says why a second worker cannot claim the row. `ClaimsOK`
does: while a worker holds an event, its row is pending with a timer that is not yet
zero, and as long as the request runs the timer is above the time the task has left.
`Tick` lowers both together, so the task's limit strikes first. A deleted endpoint breaks
the row away from its holder, so `ClaimsOK` allows it, and `RowsOK` keeps it without rows.
From `IInv`: `TypeCorrect`, `OneSenderAlways`, and `ContractImplemented`: every step is a
step of `WebhookContract` or leaves its variables alone. For the last, `ClaimsOK` also
carries that an "ok" in a worker's hand has its receipt. `PostsBoundedAlways` needs one
invariant more, `Paid`: every request of a row is paid for by an attempt the row records,
by the attempt of the process that holds it now, or by a process that died with it. As
one process at a time holds a row, and a fault takes one process, the sum stays within
`MaxAttempts` and the faults.

**CampaignProofs.** `IInv == TypeOK /\ ClaimsOK /\ Accounted /\ NoRows /\ CompletedIsDone`.
`ClaimsOK` says that the row of a run's claim is still "sending" under its own token, and
that freshness plus the age of the run is at least `StaleTicks`. As a run is never older
than `HardTicks`, its claim is never stale, so no other run gives it up: the lock, which
may expire or be deleted by a run that no longer owns it, is not needed for safety and the
proof does not mention it. `Accounted` ties the emails the relay accepted to the status
of the row. From these: `Invariant`, `MailedOnceAlways`, `CompletedStaysDone` and
`ContractImplemented`. `InDoubtAlways` counts: a row is in `Doubtful` when it was given up
or is "sending" with no run that has it; a step adds a row to that set only by a fault,
and one fault adds one row, because a claim that is given up as stale is never that of a
run which is still alive.

The bounds on numbers are sums over the runs, and `Sums` counts them without induction
over data: a function from a finite set to numbers is the set of its spots, `<<s, i>>`
with `i` up to the value of `s`, and a sum is the cardinality of that set. `Budgeted` says
that what was sent and what the runs may still send stay together within the limit, for
the minute and for the day: from it `BudgetsHoldAlways`. `Soon` says the same of what was
sent since a campaign stopped (`StopsSoonAlways`, in all of `MCSpec`). `StopsItselfAlways`
is the longest argument of the project. `Streaks` looks at the rows as they will be once
dead runs are given up (`Seen`), in the order of their numbers, and bounds how many
refusals the end of that order may hold: a run pauses the campaign once its batch ends on
`Streak` of them, so the count passes `2 * Streak - 1` only when a row between them was
interrupted (a fault) or has no value for a tag.

**DeliveryProofs.** `Shape` holds the positions in order (`Placed`, `Bounds`) and what a
scan has in hand among the lines it reads (`Holdings`). `NothingSkipped` is not inductive,
because nothing in it says what a scan owes: `HandledSettled` does (a line that was handled
is done, given up, or in hand), and `KnowsQueues` that the queue ids of the lines before it
are known or given up; `PassedSettled` follows when the lines leave the scan's hands, where
the measure is the position. For `CountedTwice`, `OneHand` says that a line which was not
read again is in the hands of one scan and behind the position, so it is counted at most
once more than the counters saw (`Sight`); `FewRepeats` counts the further times in a set,
to which a soft limit adds one element and nothing else any.

**SendingProofs.** `IInv == Types /\ PlacesOK /\ RejectsOK /\ LocksOK /\ EmailsOK /\
DecisionsTrue`. `LocksOK` says that whoever decides has the lock of a row that is still
pending, and that the email of a pending row was sent by a process that died or by the
one that has the lock; `EmailsOK` that how far a call is tells whether its email left.
From these: `Invariant` and `DecisionsTrueAlways`. The inductive invariant is proved and
no longer part of the run, where it only cost time.

For the `Idempotency-Key`, `Retried == (\A r : Try(r)) /\ Stands /\ InTurn`. `Try` says
that how far a request is tells whether its message went out or is held; `Stands` that an
answer in a slot is one some request got, which gives `RepeatTrueAlways`; `InTurn` that of
the requests of a key which did not overlap one runs at a time, none after one was
accepted, and that the slot keeps the answer. From `InTurn` and the emails of `IInv`:
`SequentialRetriesSafeAlways`. It is the theorem behind the sentence that a client which
waits for its answers sends once.

The counters: `Counted` says that the value of each is the weights of the messages whose
sender holds a place, plus what could not be given back, again as sets of spots. A sender
goes on only when the counter, its own place included, is within the limit, so the places of
those that went on never pass it (`QuotaHoldsAlways`); at rest nobody holds a place who did
not send (`QuotaExactAlways`). That no counter falls below zero, which `TypeOKAlways` adds to
`Types`, follows as well.

**ServicesProofs.** Logins: `AdministratorsInv == AdministratorsTypes /\ (crossed \/
(AnAdmin /\ Covered))`: until two requests cross, there is an administrator, and every
removal that passed `_ensure_not_last_admin` still leaves another when it is saved.

Containment: `ContainmentInv == ContainmentTypes /\ CountedSince /\ AllFair`.
`CountedSince`: a counter is at most what was sent since the sender was last resumed,
unless that resume has not cleared it yet (or never will, Redis having failed). `AllFair`
is `Forgiven` itself, whose only new blame comes from `ReadUsage`.

The bounce guard: `GuardInv`. While no verdict is in doubt (`Certain`), each counter holds
the results since the key was resumed or the count began afresh, all of them since the
counter began; or it is still to be deleted, and nothing has been counted since. A verdict
that is not outdated (`Outdated`) reads those numbers, so a key that is paused deserved it
(`PausedForItsResultsAlways`). `Watched` is the other direction: when
the counters call for a pause and none was made, somebody has still to compare what they
hold now, namely whoever added last (`NoneEscapesAlways`). Both for any number of counts at
once, any batches and any limits.

**InboxProofs.** `IInv == Types /\ EventsOK /\ Positions`. A position of the present
mailbox has nothing unknown behind it, and neither has the place a scan will move it to;
a batch holds everything unknown below it, except what arrived after it was listed, and
that lies above it. `EventsOK` ties the number of times a message was announced to the
event the queue knows. From these `NothingPassedAlways` and `AnnouncedOnceAlways`, for
any number of scans at once.

**PublishingProofs.** Certificates: `CertificatesInv == CertificatesTypes /\ Holds /\
Copying`. What the server is given is a whole pair, or a step that spoiled it is on record,
or `Pending`: certbot is at a statement from which a pair will be put in place. `Copying`:
what is copied was compared first, and its key follows its certificate.

Plugins: `PluginInv`, whose core is `OneCarrier`: as long as no two processes have been at the
operation of an installation (`twice`), at most one will still settle it, and only while it is
in a transient state. Whoever comes later finds another key (`pk`) and leaves the row alone.
So a row at rest changes only by `Begin`; and where two have been at its operation, the
last finds a row without a target and can but enable it or mark it failed
(`StaysSettledAlways`, whose only hypothesis is that `None` is not a number). `NoClash`
needs in addition that the version a waiting request read is the one the row still has,
if the row still has the revision it read (`Fresh`): conflicts are looked for with the
version that was read. `NoLostSettingAlways` is the same idea for settings: a form is
`UpToDate`, which is that as long as the revision is the one it was shown, every setting of
the row is in it. `RemovedForGoodAlways` rests on `DefaultsInv`: an installation of a default
beyond the first was paid for by a fault, or is on its way to being recorded as offered.

Only model-checked: liveness (`Settles`, `Ends`, `CatchesUp`, `Followed`,
`ContainedInPause`, `CaughtUp`, `Converges`, `ServedInNaming`, `RulesFollow`, `KeysAgree`).
Liveness under fairness and `ENABLED` are beyond the prover. The firewall and the DKIM keys
have only such properties, and no theorem.

## Where the code and its promises differ

Three runs end in a counterexample, each to a sentence of the repository.

1. **An attempt switches an endpoint on again** (`webhook_off`, `services/webhooks.py:507`).
   `attempt()` fails and saves `active` from the object it read when it began. If another
   attempt got a 410 meanwhile, or somebody switched the endpoint off, it is on again.
   `services/webhooks.py:34`: "A ``410 Gone`` switches the endpoint off."
2. **A soft limit can lose events** (`scan_stop`, `services/delivery_events.py:463`). The
   position is saved inside `_follow`, and `scan` puts it back only inside its two `try`s: a
   limit behind the save and before the first (lines 289-294, 463-465), between the two
   (471-472), or inside the `_rewind` of a lookup that failed, skips every line read
   (`LimitUnguarded`); that is the run's trace. A limit inside a flush loses events as
   well: `flush` empties its lists before it writes them (line 422), so the second flush of
   `scan` finds nothing, and the position does not go back over the lines that were
   handled. The docstring says "nothing is skipped" (line 456), `README.md:168` "**Stopping
   loses nothing.**"
3. **Two tries at the same time both send** (`sending_twice`, `api.py:416`). The slot is
   read and later written, not added. `api.py:387`: "the same key and message return the
   first answer instead of sending twice". `SequentialRetriesSafe` is what does hold:
   a client that waits for each answer sends once.

Other behaviour the models have, which a reader of the code may want to know. Where a
property could forbid it, the property names the window (a history variable) instead.

Queues:

- When the relay's answer is lost, the recipient goes back to pending and is mailed
  again. `README.md:319` says "A person is never mailed twice."; `MailedOnce` therefore
  counts lost answers.
- `marketing.cancel` says that "what has not been sent will not be": the batch in hand is
  still sent, as it is after a pause or an opt-out. `StopsSoon` bounds it.
- `ping()` leaves its row due while it sends, so the sweep may send the same test event.
- `reject()` may overwrite "sent" or "expired".
- A row that was interrupted, or lacks a value for a tag, ends a streak of refusals across
  batches (`campaign_runner.py:343-372`), although a comment there says that such rows say
  nothing about the relay. `StopsItself` counts a further streak for each.
- A run that outlived its lock deletes the lock of its successor; overlapping runs can
  each spend one pace (`BudgetsHold` allows for it).
- Two delivery scans that overlap share one position without a lock: one may put back the
  lines of the other instead of its own, and a bounce read by one is of nobody while the
  other has not written its queue id. The scene `overlap` shows that these are the only ways.

Senders and mailboxes:

- With more than `MAX_PAUSED` (1000) mailboxes paused, the value fails its own validation
  and is dropped (`registry.py:254`), so that nobody is refused (`Listed`).
  `plugin_points.py:97` says that containment must not fail open when many mailboxes are
  paused at once.
- Of mail that arrives in one mailbox between two scans, what is older than the newest 50
  is never announced; the comment at `MAX_NEW_PER_MAILBOX` says that the rest follow. A
  message whose FETCH is refused is taken for one that was deleted, and a position lost
  with the cache starts from now. `NothingPassed` excuses exactly these.
- The bounce guard's rate "over the day" (`compliance.py:16`) is of two counters that each
  expire a day after their own first message, so it may compare the results of different
  days.
- `resume` passes over a `delete` that fails (`compliance.py:217-222`), and the console
  still says that the counters start from zero (`views/suppressions.py:85`): the key stays
  paused, or is soon paused again for results that were forgiven. A count while the deletes
  go on is lost with its counter, and one that falls between another's look at the counters
  and its pause comes too late. With a lost answer of the cache and the point above, these
  are the windows `PausedForItsResults` names, and it holds the key to be paused for its
  results in every other interleaving.
- Two removals at once can take the last administrator (`crossed`), which `set_admin` says
  never happens. A change of password saves the row as it was read: it puts back rights
  that were taken meanwhile.

Files that other servers read:

- Two processes that finish one stale disabling, or one that finishes what a slow job is
  still at: the second sees the row the first has settled, finds no target and falls back to
  enabled (`target_state or ENABLED`, `lifecycle.py:454`), or it cannot write and marks the
  row failed (`:421`). A plugin that was disabled is enabled, also beside one that sets the
  same value, because nobody looks for conflicts then. `StaysSettled` and `NoClash` name the
  installations where two were at one operation (`twice`), and `StaysSettled` says what may
  come of it: not a removal, nor a change of version or settings.
- The revision of a plugin that is removed and installed again starts at 1 once more
  (`lifecycle.py:405`). A form that was shown the first installation and waits until the
  second has come to the same revision is then taken for current, and undoes what was saved
  meanwhile. Enabling reads the manifest before the lock (`lifecycle.py:163-173`), so a
  request that waits as long looks for conflicts with the version of the first installation.
  The first takes six operations to get there, twice what TLC's runs allow; the hypotheses of
  `NoLostSettingAlways` and `NoClashAlways` exclude just these waits.
- Two reconcile jobs at once, of which one lasts until the beat starts the next, may each
  find a default not yet offered; if a person removes it between them, it comes back.
- `install_defaults` says that a default is recorded as offered whether or not the install
  succeeds; an install that raises is skipped before it is recorded, so it is tried again,
  and a plugin removed after a crash between the two comes back.
- `dns/entrypoint.sh:5` says that Knot is reloaded within seconds of a change. The first
  fingerprint is taken after Knot has started (`:51`), and the fingerprint of a poll before
  Knot loads (`:57-62`): files that change between, in the latter case and change back, are
  taken for loaded. Neither a load that fails nor a configuration that is refused is tried
  again (`:61-67`). Knot then serves other files than are published until they change again
  or it restarts (`Overlooked`).
- The firewall's agent compares digests: rules that change and change back while it loads
  leave the kernel with what was lifted, and the console says that they agree. A table
  that `nft` rejects is not tried again. A setting that cannot be read renders its
  default until the next reconcile. Flood mode that is extended between the check that it
  lapsed and the delete is cleared.
- Certificates. `README.md:71`: "An uploaded certificate is kept if switching back to
  Let's Encrypt fails." Not when there is no host list yet: `sync_hosts` then succeeds
  without issuing. Switching to Let's Encrypt when already there removes the working
  certificate, and a failure has nothing to put back. Two uploads at once may replace the
  kept pair with halves of both. After a kill, a request that was carried out has no
  answer, or is carried out again.
- DKIM. Running the provisioning again is how a domain is repaired
  (`provision_domains.py:3`), but a file that is there is never compared with the row. Three
  windows leave them different for ever (`parted`): two first provisionings at once, each of
  which makes a key; a process that was about to write the key it read or made when the
  domain was removed and added again, and writes it over the new one; and a domain added
  again over the file of its first life by a process that dies.

## What is not modelled

Inside the modelled components: addresses, payloads, signatures, the SSRF checks and
headers of a webhook; templates, tracking pixels and the warm-up formula of a campaign;
the regular expressions of log lines; recipients' validation and MIME; what a plugin's
settings mean; how records, rules and certificates are rendered, compared and loaded.
Where one of these decides something (an address that is refused, a merge value that is
missing, a sender who is not allowed, a certificate that does not fit its key), the
decision is a choice of the model.

Outside of them, part by part:

- *A check before an insert, or one transaction after another*: plugin submissions,
  audiences and their imports, tracking, agent inboxes, sign-in and second factors,
  automatic blocks, the first write of a setting. Each has a window of two requests that
  is in the list below; none has a protocol behind it.
- *The assistant*: whether a conversation is busy is checked without a lock, and a slow
  answer is given up. Nothing outside the conversation depends on it.
- *Compliance* beyond the bounce guard, *mailboxes* beyond who administers, *entry points*
  beyond their rules, and *domains* beyond the DKIM key are single rows and requests.
- *One row in one transaction*: aliases, API keys, website pages, releases, sandbox
  capture, settings pages, the audit trail.
- *Pure functions of text*: spam and injection rules, threat rules, codes in emails,
  serializers, manifests of plugins, APK parsing.
- *I/O and rendering*: DNS and storage drivers, health reports, telemetry, views,
  frontend, provisioning scripts, the Android client, the agents' gateway, Postfix's
  overrides (a file from settings, as the published list of `Containment`).

`PROJECT.json` has each part with its sources, and under `hazards` the places in the
code that are hardest to test, with the properties that cover each. The following come
after those of the list; no property is about them.

- `backend/apps/mail/services/webhooks.py:376`: An endpoint deleted between the read of
  the endpoints and the insert fails the whole batch on its foreign key, so the other
  endpoints lose the events too.
- `backend/apps/mail/services/webhooks.py:227`: The limit of endpoints per owner is
  checked before the insert, so two creations may pass it.
- `backend/apps/mail/services/webhooks.py:395`: The Test button makes a row that is due
  at once and sends it outside the claim protocol.
- `backend/apps/mail/services/campaign_runner.py:253`: A person unsubscribes between the
  read of the lists and their email.
- `backend/apps/mail/services/campaign_runner.py:368`: After a person resumes a campaign
  paused for a streak, a batch that only skips people finds the old refusals and pauses
  it again.
- `backend/apps/mail/services/messages.py:166`: A send that will be refused stands in
  the counter until it is taken out, and another that would have fitted is refused
  meanwhile.
- `backend/apps/mail/services/delivery_events.py:280`: The position is only ever set by
  a read; a first run that does not save it, or an error that always rewinds to the same
  line, follows nothing for ever.
- `backend/apps/mail/services/tracking.py:216`: The first open is recorded before its
  event is emitted: when emitting fails or the process dies, no later open emits it.
- `backend/apps/mail/services/audiences.py:227`: Two imports at once both count the
  contacts before either adds its own, and the audience ends over its limit.
- `backend/apps/mail/services/agent_inboxes.py:92`: Two calls of one key both see room
  for one more inbox and both create it.
- `backend/apps/domains/services/verification.py:170`: A domain removed while its DNS is
  being looked up makes its save fail, and the domains after it are not checked in that
  pass.
- `backend/apps/domains/services/provisioning.py:256`: A mailbox created between the
  check and the delete goes with the domain.
- `backend/apps/core/platform/services/entrypoints.py:435`: Flood mode that is extended
  between the check that it lapsed and the delete is cleared at once.
- `backend/apps/core/assistant/services/conversations.py:67`: An answer that is only
  slow is given up as stale and the next question starts beside it; both write the
  status of their conversation.
- `backend/apps/core/services/__init__.py:54`: The first write of a setting has no row
  to lock: of two first writers one fails on the unique key and its change is lost
  unless the caller repeats it.
- `backend/apps/mail/services/approvals.py:251`: reject() reads without a lock and saves
  without a condition (`DecisionsTrue` says what remains true then).
- `backend/apps/core/plugins/services/submissions.py:156`: Two approvals at once of two
  versions each compare with the published one of before. The catalogue takes the newest
  approved, so only the order of the checks suffers.

## Plan

What is left, in the order in which it would add most:

1. An abstract specification of `Sending` (what a client may conclude from an answer) and of
   `PluginLifecycle` (a plugin as one value, its files as another), with the refinements
   proved; the steps of `KeysAgree` and `RulesFollow` that are safety, as theorems.
2. Compositions: `DeliveryScan` with `CampaignRunner` (remembering at the end of a batch)
   and with `WebhookDelivery` (an event of a line is queued once); the `Idempotency-Key` of
   campaigns (`api.py:1293`), which reads and then writes its slot as `Sending` does.
3. Small modules of checks before inserts: audiences, agent inboxes, endpoints, tracking,
   submissions; the assistant's conversations.

## Running the checks

    tlc -workers 2 -config MCWebhookDelivery.cfg MCWebhookDelivery
    tlapm WebhookProofs.tla

Each run of `PROJECT.json` names its module and its configuration. The three runs with
`"expect": "violation"` end with a counterexample; the others finish with no error, the
longest in two to four minutes on two cores. A mutant
is checked by replacing the body of its `of` by a use of its `as`.
