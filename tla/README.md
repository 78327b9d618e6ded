# A TLA+ verification of slack-mcp

slack-mcp is a relay between Slack and a team of AI agents.  A Slack app's
events are received by a Lambda function and written to a DynamoDB inbox; an
MCP server, running in other Lambdas, lets every agent read that inbox through
a cursor of its own, wait on a push channel (AppSync Events) for new rows, and
post back to Slack under guardrails.  All state is in DynamoDB, in Slack and in
the globals of warm Lambda containers.  Nothing takes a lock: what is correct is
correct because of one conditional put, of the order of writes, and of what the
cursors are compared with.  That is what these modules are about.

Paths below are relative to `src/infrastructure/lambdaFunctions/` unless they
start with `src/`.

## The system

| component | state | operations | talks to |
|---|---|---|---|
| Event receiver, `slackIngest/app.py` | per container: `_AGENT_BY_BOT_USER`, `_USER_NAMES` | `handler`: verify, drop noise, attribute, conditional put, FILE# rows, CHANNELS row, publish, 200 | Slack (delivers, retries), inbox table, AppSync |
| Inbox table, `sharedModules/dynamo.py` | `CH#/TS#`, `FILE#`, `CHANNELS`, `CURSOR#`, `AGENTS`, `USER#`, `SESSION#` rows | get / put / query, TTL | everything |
| `check_messages` | none of its own: the cursors of its identity | sweep: resolve, pull, read cursor, query a page, set cursor, filter | table, group-DM pull |
| `wait_for_messages`, `sharedModules/events.py` | one WebSocket subscription per call | subscribe, drain with `check_messages`, take events, time out | AppSync, table |
| Group-DM pull, `sharedModules/mpim.py` | none: starts at the newest stored row | fetch history, attribute, conditional puts oldest first, register | Slack, table |
| `send_message`, `sharedModules/guardrails.py` | none: reads the stored tail of the conversation | veto, first-contact look-up, post or upload, register | Slack, table |
| Agent registration, `src/scripts/admin.py` | `AGENTS` rows | `register-agents` | table |
| Conversation ids, `sharedModules/conversations.py` | per container: the DM of each (agent, user) asked for | resolve a user id to the caller's DM with that user; list an agent's direct and group messages | Slack |
| Authentication, `mcpServer/auth/bearer.py`, `sharedModules/identity.py` | per container the token map, per request its identity | resolve a bearer token, or answer 401 | Secrets Manager |
| Policy, `sharedModules/policy.py` | none | the text of the server's instructions | - |
| File access, `sharedModules/files.py` and its tools | `FILE#` rows | look up, choose a token, fetch | Slack, table |
| Canvases, `sharedModules/canvas.py` and its tools | none | create, read, look up a section and then edit it, retitle | Slack, through a client that repeats a lost request |
| Directory and history tools | `USER#` rows, the group DMs' `CHANNELS` rows | search page by page, list, name people | Slack, table |
| WILMA plug-in, `src/clients/wilma-plugin/slack_mcp.py` | none | forward a tool call, with a time-out | MCP server |

What makes this hard to test:

* Slack delivers an event again after three seconds, while the first delivery may
  still be running in another container; either may die between any two writes.
* Rows become visible in the order the containers write them, not in the order
  of their timestamps; the push is sent later still, and may be lost.
* A cursor is read, used and written by three calls, and calls of one identity
  overlap when a client gives up and tries again.
* The guardrails decide from what has been ingested, and post later.
* Caches (the agent map, names, tokens, DM ids) live as long as their container,
  and `USER#` rows are overwritten whole by four writers, each with its own idea
  of what a row holds.
* Requests of several agents run at once in one container of the server.
* A canvas is edited by agents and people; a tool finds a section in one request
  and changes it in the next.
* `WebClient(token=...)` (`slack.py:24` and `40`) keeps slack_sdk's default handler of
  connection errors, which sends a request again when its connection was lost:
  after Slack may have posted the message or changed the canvas.

What each component should promise is stated as a property in its module; the
hazards and the lines where they bite are listed in `PROJECT.json`.

## Modules

| module | models | correspondence |
|---|---|---|
| `InboxLog` | the abstract inbox: a key is written once, and notified at most once, after it is written | `Append` = a conditional put that succeeds, `Notify` = a publish that succeeds |
| `SlackIngest` | `slackIngest/app.py`, containers, Slack's retries, faults | one action per table or AppSync call of `handler` |
| `InboxReaders` | `check_messages`, `wait_for_messages`, `events.py`, cursors of one identity | one action per table call, of ingest too: `Store`, `Register`, `Publish`, `IngestDies` |
| `GroupDmPull` | `mpim.py` | one action per Slack or table call; `Post` is Slack |
| `SendGuardrails` | `send_message`, `guardrails.py` in one conversation | veto, look-up, post and registration are separate actions |
| `FileAccess` | `files.py`, `read_file`, `download_file`, the `/files/` route, `start_file_upload` and the file part of `send_message` | one action per table or Slack call of a tool; ingest, expiry and people in between |
| `CanvasParser` | `_CanvasParser` and the joining loop of `parse_canvas` | one action per tag of the document |
| `CanvasEdits` | `canvas_create`, `canvas_edit`, `canvas_set_title`, `read_canvas` and the requests of `canvas.py` on one canvas | one action per request to Slack; people edit in between |
| `NameCache` | `_resolve_user_name` of ingest, `_describe` of `list_members`, `_user_name` of `list_dms`, `_resolve_name` of the pull | get, ask and put are separate actions of each look-up |
| `BearerAuth` | `bearer.py`, `identity.py`, rotation, a container's life | reading the secrets, admitting, refusing |
| `Directory` | `list_channels`, `find_channel`, `find_user`, `list_dms`, `resolve_conversation` | one action per page, listing and registration |
| `McServer` | composes `BearerAuth` and `Directory`: a request of the server | admit, run the tool's steps under the request's identity, end |
| `SlackIngestProofs`, `InboxReadersProofs`, `GroupDmPullProofs`, `SendGuardrailsProofs`, `FileAccessProofs`, `CanvasProofs`, `NameCacheProofs`, `McServerProofs` | theorems about the module they extend; `CanvasProofs` about both canvas modules | |
| `MC*` | the finite instances | constants' values |

Operators named `<Definition>_<Defect>` next to a definition are seeded defects:
the form a plausible bug would give it (a dropped condition, an unread default, a
swapped order).  No specification uses them; `PROJECT.json` pairs each with the
property that catches it when it replaces the definition.

**SlackIngest.**  A message is its `(channel, ts)` key; a row is the `agent_id`
it was stored with, since that is what readers and guardrails tell apart.
`Receive` is Slack making a delivery, in any idle container, as long as no
timely 200 was seen; `Reject` is a 401 (a stale timestamp, an unknown secret), which
Slack answers with a retry; `Ignore` and `Attribute` are the code up to the put
(bad-request and `url_verification` replies change nothing); `PutNew` and
`PutDuplicate` are the two outcomes of the conditional put, `PutReplyLost` the
third one, where the SDK repeats its own successful put; `PutFile`, `Register`,
`Publish` (which the code lets fail) and `Respond` (which may be too late) follow
in the code's order.  `Die` ends an invocation anywhere and may take the container
with it; `Recycle` retires an idle one; `RegisterAgent` is the operator's CLI.
`agentMap` is the container's cache: `Unloaded` until first needed and again after
a restart.  An empty map is
kept like any other, as `is None` does in the code, so agents registered later
stay unknown to the container until it is recycled.

**InboxReaders.**  One identity, its clients and their running calls.  A call is a
record: what it was asked, whether it is subscribed, the conversations still to
read, the cursor and page as read, the answer so far, and its WebSocket's queue.
Around the calls, ingest puts a message's row (`Store`), the registry's row
(`Register`) and publishes (`Publish`) in three steps, in any order of messages, and may
stop between any two (`IngestDies`: a failed publish, or a death, whose
redelivery finds the row and does no more).  `RegisterElsewhere` is `send_message`,
`list_dms` or `find_channel`.  `ConnectFails` is a handshake that ends in an error
frame or in its time-out: the wait has then read nothing.  `NoiseComes` is a frame
that a wait passes over, of which there is no end.  `LoseReply` ends a call at any step
without an answer.  Three variables record causes, for the properties only: `late`
has the messages that ingest stored or published after a newer one of their
conversation, `beyond` what a wait's full page left behind it when the wait
turned to its events, and `handed` what was in an answer, also of a call that died.

**GroupDmPull.**  Slack's messages are numbered in posting order; `Ignored` are
those whose subtype the pull passes over.  `OldestPage` says which end of a gap
larger than a page `conversations.history` returns; the repository does not
settle it, so it is a constant and the theorem that needs it says so.

**SendGuardrails.**  One conversation as the sequence of its messages, a set of
those that are stored, and the running sends.  `Row` stores a message; a file share
carries no metadata, and where the container's agent map is stale its row names no
agent (`unnamed`), which ends a run of turns as a person's message would.  `PostLost` is
a message that is out when the connection is lost: the client sends it again.  The
cooldown is left out: it can only refuse more sends, and the properties here
bound how many get through.

**FileAccess.**  A file is where it is shared and who started its upload; a
record is the conversation of the last share that was ingested.  A tool call
looks the record up, asks Slack when there is none, as the relay (`AskRelay`) and then
as the caller's app (`AskAgent`), and fetches with the token `_token_for` chooses.
Either question may be answered with an error of whatever kind, `Fail` is a request that
raises, and `Granted` has the apps with the scope for files.  Other shares, their
ingestion and the expiry of the record come between any two of these.  What Slack names for a file includes every
conversation the asking app is in and, perhaps, others.  The record is written
when the message is put, and its registry row with it: what happens between the
two is `SlackIngest`'s subject.

**CanvasParser.**  The document is what the fixtures of
`src/tests/unit/test_canvas.py` hold: blocks, and list sections of nested `<ul>`
and `<li>`.  The stack of open elements is the document's, not the parser's; the
parser keeps a mode, a depth, counters and a group, and the properties compare
each block it wrote with where it stood.  Texts, links and the wording of the
markdown are left out; whether a block has text or an id decides whether it
leaves a line, and is chosen.

**CanvasEdits.**  The document is a sequence of sections with ids; contents
matter only as far as a `find_text` occurs in them.  A call is `Lookup`
(`channel_canvas_id`), for a search `FetchInfo` and `FetchPage` (the two requests
of `fetch_canvas`), and then its change: `Apply` (Slack makes it, and the reply comes or
is lost), `RequestLost` (it does not get there) or `ApplyRefused`.  After the first loss the
client sends the request again (`resend`; `made` records whether the first one was
carried out), after the second it raises and the tool reports a failure.  So an append
can be made twice and answered "ok", and a deletion that was made can be answered
"failed", because its repeat finds no section.  What Slack does with a change is
external: the named section is replaced (keeping its id or not), removed or added
next to, and a section or canvas that is gone is refused.  `find_section_id` is the
code's: the first section that contains the text, and with a text of blanks, which is
stripped to nothing, the first section there is.

**NameCache.**  A name is empty, the real one or the display name; a row also
has the bot flag or lacks it.  The four look-ups differ in when a row will do
(`WillDo`), which name they take (`ProfileName`), whether they keep an empty one
(`Keeps`: `_resolve_user_name` and `_describe` do), what they do when Slack fails
(`AskSlackFails`) and what they write (`CacheUser`).  A person's names and flag do not
change in the model: that a row is out of date for up to a day is what the cache is.

**BearerAuth, Directory, McServer.**  `known[c]` is `token_map` in container `c`,
`unread` and `stale` record why it may differ from the secrets; `context[k]` is
the ContextVar of request `k`, with the container and the token for the
properties to speak of.  `Directory` is a tool at work: the pages it has read,
its matches, the group DMs still to register, its answer; `IngestRow` is an event of a
group DM, whose handler puts the registry row anew and may drop its type.  Which conversations
Slack lists depends on the agent whose token asks, so a step takes the agent as
a parameter and `McServer` passes `current_agent_id`, read anew at every step, as
the tools do.

Empty `agents`, `registry`, cursors and inbox are the state after deployment;
`agents` may start with any set, because agents are registered before and after.

## Runs

Passing runs:

| run | instance | shows |
|---|---|---|
| `ingest_retries` | 3 messages (a person's, an agent's with a file, an edit), 1 app, 2 containers, 1 retry, 1 fault | `OneRecorder`, `PublishedOnceAndLast`, `AckedIsStored`, `StoredIsRecordedUnlessFaulty`, the refinement `ImplementsInbox`, and `EventuallyStored` |
| `readers` | 2 clients; side by side: a check of a channel beside a sweep, a wait for anything beside a sweep, a wait for mentions beside checks, a wait on a channel and a person beside a sweep; pages of 1; rows, registrations and pushes in any order; 1 lost call | `SkippedForCause`, `CursorMovesForItsView`, `TimeoutMeansQuiet`, `EveryCallEnds`, `EventuallyReturned` |
| `pull_overlap` | 2 pullers, 5 messages, pages of 2, 2 faults | `NoGap`, `ImplementsInbox`, `EventuallyPulled` |
| `send_conversation` | 2 sends at a time (one identity: the budget counts any agent), a DM, budget 1, refused posts, ingest one behind with a stale agent map, 1 death or repeated post | `TurnBudgetWithSlack`, `NoteOnFirstMessage`, `NotesBounded` |
| `files_shared` | 2 files, 2 agents, one of them without the files scope, a channel and a DM | `OnlyKnownFiles`, `ContentIsTheFile`, `RefusedForAReason` |
| `canvas` | every document of up to 4 blocks, lists nested up to 3 deep; and 2 agents, 3 sections ever written, 2 contents, a text that occurs in one of them, each request lost and repeated | `BlocksStandInPlace`, `PartsAreLists`, `OnlyTheNamedSection`, `RepeatsTakeNothingMore` |
| `server_requests` | 2 agents, 2 requests in a container, 4 tokens for 3 secrets, 2 pages of channels, a group DM that ingest hears of too, and a person | `ServedAsOwner`, `AdmissionLags`, `OwnConversationsOnly`, `FoundGroupsAreKnown`, `ExactNameSurfaces` |
| `names_shared` | a bot with a display name and a person with none, 2 ingest containers, 2 tool look-ups | `NamelessForCause`, `FlagsAreTrue` |

The bounds: two containers, calls or pullers are what it takes for one to act
between two steps of another; a third adds no new relation between two pcs, only
more of them, and the ingest and reader theorems hold for any number.  In `readers` a page
holds one row, so it is always full and what lies behind it, in particular behind an
own post, is always in play; the pairs of calls are explored in turn
(`MCInboxReaders` fixes one of the four plans at the start), each with the one or two
messages that make a row before and behind a cursor, and one of them with a call that
dies at any step (`MaxLosses`).  A page
smaller than the backlog is always included.  One fault with one retry is the
smallest case where the retry meets the remains of the first attempt; every
fault count is bounded by `MaxFaults`, every conversation by `MaxMessages` or
`MaxTs`, every delivery by `MaxRetries`.  In `files_shared` one conversation of
each kind makes both tokens possible, a second agent is the one a DM's file must
not reach, and of two files one is readable and one is over the size cap.  Four
blocks and three levels hold every transition of the parser's depth and
counters: into, along, out of and back into a list, and from one list to the
next.  Three sections are what it takes for one to stand before, at and behind the
one a call has found, and two contents for it to stop matching.  Parser and edits share
no state, so `canvas` explores one while the other rests.  One container
is enough for the requests of `server_requests` to meet, since containers share
only the secrets, the registry and Slack; its page sizes make one search end
before the exact name's page and one reach it, and its fourth token allows for
one rotation at any moment.  In `names_shared` people do not meet, so two
are enough: a bot with a display name, for whom every two look-ups disagree on
something, and a person of whom Slack has no name.  Interchangeable sessions, calls, tokens, agents, readers and ingest
containers are SYMMETRY sets in the runs without liveness.

`CHECK_DEADLOCK FALSE` stands where the system comes to rest: when all messages
are posted and ingested, or a document is at its bound.  `readers`, `server_requests`
and `names_shared` never stop, and are checked for deadlock.  Type correctness of
`GroupDmPull`, `NameCache` and `McServer` is left to its proofs.

Runs that TLC must refute; each is a finding with the quoted line in
`PROJECT.json`:

| run | refuted | behaviour |
|---|---|---|
| `readers_full_page` | `NothingSkipped` | A wait's backlog page is all own posts, so it turns to its events; the next one moves the cursor over the unread rows behind that page. |
| `readers_late_push` | `NoRepeats` | A check returns a message between its put and its publish; the next wait gets the event, does not compare it with the cursor, and returns the message again, with the cursor set to it: back, if later ones have been read since. |
| `files_unrecorded` | `RecordedFilesOnly` | A file no message of which was ingested, shared in a known conversation, is served through `files.info`, as `get_file_record` and its test intend; the head of the module and the design say that such a file cannot be fetched. |
| `send_window` | `TurnBudget` | Top-level traffic pushes a thread's agent messages out of the scanned window; the thread's count starts again. |

Two more behaviours follow from the code as plainly, and are stated as the limits of a
passing property rather than as runs of their own:

* The first delivery of a message dies after its put; the retry sees the
  duplicate and answers 200 at once.  The message has no file records, is never
  published, and, if it is the first of its conversation, no sweep looks there.
  `StoredIsRecordedUnlessFaulty` says that nothing but such a death, or a put
  whose reply was lost, leaves a message like that; without `faults = 0` it is refuted.
* A wait on a user id drains the right DM but subscribes to the user id, and
  filters events by it (`wait_for_messages.py:37-41` and `59`): it times out over a message
  pushed to the DM.  `TimeoutMeansQuiet` therefore speaks of what a wait watches, the ids
  as they were given (`Watched`); with `InScope` in its place it is refuted.

The passing properties also mark where the promises end:

* `SkippedForCause` names the two causes for which a view loses a message.  A row that
  is stored, or an event that is published, after a newer one of its conversation
  (`late`) may find the cursor above it: two containers, or a Slack retry, do that.  A
  wait that turns to its events leaves behind what its full pages left (`beyond`).
  The finding on `NothingSkipped` is the second cause.
* A message in the answer of a call that died counts as handed on: the cursor is
  put before the answer is delivered, so such a call takes its messages with it.  A client
  all of whose calls die gets nothing; `EventuallyReturned` says that the view does
  not hold anything back.
* Of two overlapping calls of one view, the one that read first may write its older
  cursor last; nothing is lost, something is returned twice.  No property forbids it.
* A call that waits is never kept from its deadline, but what is in its socket then is
  not returned: the next call of the view finds it above the cursor.
* `MaxLag` and the number of senders are exactly the overrun in
  `TurnBudgetWithSlack`, with the posts the client repeated: with `MaxLag = 0`, one sender and
  no fault it is the budget itself.  An agent's file share whose row names no agent is not
  counted, by the code or by the property: it breaks the run of turns.
* `PersonFirst = TRUE` in `send_conversation`: the conversation is known before
  the agent writes, and its first message carries no note (`NoteOnFirstMessage`).
  Two senders, a send that dies before it registers, or a request made twice
  repeat the note, which is why `NotesBounded` counts them.
* `RefusedForAReason` is for a caller entitled to a file wherever it is shared.
  One share is not enough: a later share overwrites the record, and the token it
  leads to may be of an app that is not there.  It also excuses what follows an error of
  `files.info` for an app that sees the file: the code goes on to the caller's app as if
  the relay did not, and tells a caller of a channel file that it is not found.
* In a canvas, a person's edit of the very section a call has found, made before
  the call changes it, is overwritten; the docstring promises "the rest", and
  `OnlyTheNamedSection` says no more.  A change may be made twice, and a tool may report
  "failed" of a change that was made: `RepeatsTakeNothingMore` says only that the second
  request destroys nothing the first one left, since both name a section by an id that
  is not given out again.  Where a canvas tool is used on a DM, the look-up asks as the relay, which is not in it, so the tool fails: `InDm = TRUE`
  leaves only failures, and the `_is_dm` branches of `canvas.py`, for "its own
  DMs" (`canvas.py:13-15`), are never reached.
* A message stamped by ingest while its container has the empty name in memory
  stays nameless; `NamelessForCause` is about the tools, which ask again.
* `FoundGroupsAreKnown` says that the registry row is there.  An event without a
  `channel_type` takes the type from it (`slackIngest/app.py:302-309`), and until the next tool
  registers the group again `check_messages` does not pull it.
* `ExactNameSurfaces` names the case in which an exact match is missing: paging
  stops at ten matches, before the page it is on.
* `AdmissionLags` is exact too: after a rotation, a warm container admits the old
  token and refuses the new one until it is replaced, and an agent whose secret
  could not be read is refused as long.
* `OldestPage = FALSE` with a gap larger than a page: `NoGap` fails, and what is
  below the page is never fetched.

## Fairness

* `SlackIngest`: weak fairness of each container's handler steps (an invocation
  runs on; whatever stops it is a counted fault) and of each delivery as long as
  it is unanswered and a container is free, which is Slack's retry policy.  The
  number of retries is bounded, as it is at Slack; `EventuallyStored` is checked
  with no more faults than retries.
* `InboxReaders`: weak fairness of each call's steps (the Lambda runs on); weak fairness of
  each wait's deadline on its own (`next_event` looks at the clock before every frame, so a
  stream of frames does not put it off: with one fairness condition for both, taking
  frames for ever would be fair); strong fairness of the sweep of a client that makes
  sweeps (a monitoring loop comes round to it although other calls of the client come
  between).  Nothing is assumed about Slack, ingest or the push.
* `GroupDmPull`: weak fairness of the pull's steps and of an agent that keeps
  checking the conversation.
* The other modules state no liveness.

## Proofs

TLAPS checks these for every value of the constants that satisfies the modules'
named assumptions: types and bounds, that the markers for "no row", "no agent",
"no block" are not values, that the senders of a conversation are finitely many,
that a conversation id is not a user id, and that the finitely many channels and group
DMs sort into one order, of which the listing's pages leave no channel out.  A theorem that
holds in fewer circumstances names them as a hypothesis.

`SlackIngestProofs`: `TypeCorrect`, `OneRecorderAlways`,
`PublishedOnceAndLastAlways`, `AckedIsStoredAlways`, `RecordedUnlessFaulty`,
`IngestImplementsInbox`, for any number of messages, files, apps, containers, retries and faults.
`PublishedOnceAndLast` alone is not inductive: a `Publish` step is harmless only
because no other container is between put and publish for that message and
because its files and its registry row were written on the way.  The inductive
invariant `IngestInv` therefore adds `OneRecorder` (a recording container has a
stored, unpublished message and is alone with it) and `InvocationProgress` (what
the table holds at each pc).  `AckedIsStored` rests on the latter: a container that
reaches `respond` has found its row stored or its event ignored.
`RecordedUnlessFaulty` adds `RecordsUnderway`: while no fault has happened, what a
stored message still lacks is ahead of the one container that records it.  The refinement
is proved step by step: `PutNew` and `PutReplyLost` are `Append`, a successful
`Publish` is `Notify`, everything else stutters.

`InboxReadersProofs`, for any inbox, page limit, number of clients and calls, with ingest
and pushes in any order and calls that die anywhere; no theorem has a further hypothesis.
`TypeCorrect` and `CursorMovesForItsViewAlways` follow from `BaseInv`: cursors stand on
rows, a call works on what is in its scope, what it has in hand was stored, and an event
is published after its row and its registry row.  `SkippedForCauseAlways` and
`TimeoutMissesNothing` follow from `ReadInv`.  `SkippedForCause` speaks of
the cursor, and a call moves it from a copy it read earlier, so the invariant adds for
each running call (`CallServed`) that what lies behind its copy is settled like what lies
behind the cursor, handed on or left for a cause (`SeenIsSettledOf`); that a page is
everything between the copy and its newest row but what came late (`PageIsRunOf`), since
a row that fills a hole is late by then; that events are in the order of their conversation
but for late ones (`QueueInOrder`), so that taking one passes over none; and that every
event a wait wants is settled, ahead of its sweep or in its socket (`NothingMissed`),
which is what subscribing before draining is for.

`SendGuardrailsProofs`, for any number of senders, any budget, lag and faults.
`BudgetWithSlackAlways` assumes `[]WindowCovers`, that the scanned window covers what is
stored: `send_window` is the counterexample without it.  A send between veto and
post must be counted before its message exists.  The proof bounds, at every
moment, the agents' run of messages in a scope together with the sends that have
passed the veto for it by the budget, the lag, the number of senders and the posts made
twice; that the
unstored messages never exceed the lag is `SendInv`.  `FirstMessageIsNoted`
(assuming no person writes first) rests on `FirstContact`: before the first message
nothing is known and every send about to post has decided to append the note.
`NotesBoundedAlways` rests on `NotesInv`, which counts, with the notes in the
conversation, the sends that are about to write one, and allows for each post made twice.

`GroupDmPullProofs`: `TypeCorrect`, `NoGapAlways`, `PullImplementsInbox`, for any
number of pullers, messages and faults.  `NoGap` is not inductive: what matters
is what a puller is about to write.  `PullInv` adds `PageContiguous` (below a row
in a puller's page everything is stored or also in its page) and `OldestIsStored`
(it fetches from a stored row).  `NoGapAlways` assumes `PagesFromTheOldest`:
history returns the oldest end of a gap, or a page always holds the gap.

`NameCacheProofs`: `TypeCorrect`, `NamelessOnlyForCause`, `FlagsStayTrue`, for any
number of people, ingest containers and look-ups.  `NamesInv` adds that what a tool
is about to put has a name and that a look-up's manner is its caller's: ingest
alone writes empty names, and rows without a flag.

`McServerProofs`: `TypeCorrect`, `ServedAsItsOwner`, `OnlyCachesLag`,
`NobodyElsesConversations`, `GroupsAreKnown`, `ExactNamesSurface`, for any number of agents, tokens,
containers, requests, conversations and pages.  `ServerInv` adds that a secret in
force is its owner's and a map says of no token that it is anyone's but its
owner's (`SecretsAreOwn`, `MapsAreHonest`: tokens are not issued twice, and a map
is read from the secrets as they are), that the DM cache holds each key's DM
(`OpenedIsRight`), and that a task has gathered only what its request's agent may name
and nothing unregistered (`TasksAreOwn`).  `ExactNamesSurface` rests on `SearchInv`
beside it: the channels a search has gathered are all those on the pages it has read
that match, and it left the pages for the group DMs at the last one or with enough
matches (`Gathered`), whatever group DMs came in after.  What the answer cuts off is then
a matter of order: exact names sort before the others, so the cut, seen on the exact
names alone, is the first `MaxMatches` of them, and it drops one only when it keeps
exactly that many (`CutKeepsAllOrN`, from the least and the greatest element of
finite sets).

`FileAccessProofs`: `TypeCorrect`, `KnownFilesOnly`, `ContentIsTheFileAlways`,
`RefusedForAReasonAlways`, for any number of agents, files and conversations.  A finished call no longer says where
its file was found, and the record it used may be overwritten or gone by then.
`AccessInv` therefore adds that every record is of a share in a known conversation
(`RecordsAreKnown`) and that a call about to fetch does so from one
(`RequestsAreProper`); shares and registrations are only ever added, so both stay
true under every step of people, ingest and expiry.  The refusals follow case by
case: a caller entitled to a file has an app that sees it among the two that are asked, so
"unknown" follows an error for that app (`erred`, or the answer to `AskAgent` itself), and
the app that `Fetch` asks sees the file if the caller is entitled to its conversation.

`CanvasProofs`, first for `CanvasEdits` with any number of agents, sections and texts:
`EditsTypeCorrect`, `EditsLeaveTheRest`, `RepeatsTakeNothing`.  When a call by text changes
the canvas, what it searched is gone; `CanvasInv` keeps that its target is the
first section of what it saw that held its text (`Searched`), and that an id is
handed out once (`Document`), so that a target that is still there is that section
and no other, on the first request as on the repeat.  What insertion and removal do to the order of a sequence is proved
once, as lemmas.  Then for `CanvasParser` and documents of any depth and length:
`ReaderTypeCorrect`, `BlocksAreReadInPlace`, `PartsAreTheLists`.  `BlocksStandInPlace`
says nothing of the parser between two blocks.  `ParserInv` ties its fields to the
document at every tag: depth to the number of open `<ul>`, each counter up to it to
the items of the `<ul>` of that level, mode and group to the open list (`InStep`), for
documents that nest as they do (`Nested`).  For the parts it adds that the last part is
that of the group last seen (`LastPart`) and that a list whose items have begun is
still the last one seen while it is open (`Grouped`), which is why looking one block
back is enough.

Model-checked only: liveness (`EventuallyStored`, `EventuallyPulled`,
`EventuallyReturned`, `EveryCallEnds`), which is out of the prover's reach.

## Not modelled

* Policy: a text.  Deployment: no behaviour of its own.
* `read_thread`, and the query of `read_history`: one request, no state.  (That
  `list_channels` and `list_members` show one page of 200 is in the code and needs
  no model to see.)
* The WILMA plug-in: a stateless client, whose time-out (`timeout_seconds`, or
  60, plus 20 s) is longer than the wait the server makes of the same positive
  argument, up to its cap of 840 s.  The comment on its headroom speaks of a cap
  of 110 s that the server no longer has.  An answer that is lost all the same is
  `LoseReply` of `InboxReaders`.
* `from_user`, which is one more filter with a cursor of its own like `mentions_only`.
* Slack's rate limits, and the client's repeats of reading requests, which change nothing.
* The deletion of a canvas by people, and its title.
* The send cooldown.  It compares Slack's timestamp of the last stored message
  with the server's clock.  Two agents that each post before the other's message
  is stored pass it as often as they like, and where ingest is never behind it is the guard itself, so
  there is no promise to check beyond the guard; it can only refuse sends.
* Message texts, formatting, metrics, logging; the `SESSION#` heartbeat, which
  nothing reads; the expiry of messages nobody has read in 30 days; the two
  exchanges of the WebSocket handshake, which are one step.

## Plan

Written, in the order of importance: the receiver (`SlackIngest`, with `InboxLog` as
its abstraction), the readers, the group-DM pull, the guardrails, file access,
the canvas parser, the server's requests and directory tools, the name cache, the
canvas tools.  Next:

1. **Relay**: compose ingest, pull and readers over one table, so that `late` is bounded
   where the code does so (a group DM whose pulls satisfy `NoGap`) and the attribution,
   with its stale agent map, decides whether an agent sees its own posts.
2. **Reader abstraction**: an abstract cursor-per-view reader that hands on each row
   unless it has a cause, and `InboxReaders` as its refinement.

A theorem worth having next: `SkippedForCauseAlways` as the refinement step of that
reader abstraction.
