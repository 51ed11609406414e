# Verification of BadgeArcade-Server

TLA+ models of the server that stands in for the online services of the 3DS
title *Badge Arcade*: the game server proper (PRUDP, RMC, DataStore) and the
eShop front that consoles and browsers use. The models are translated from the
source under `src/`; the repository has no tests, and its README is a stub, so
the code and the messages it prints are the reference. `PROJECT.json` names, for
every definition, the lines it stands for, and lists all runs, hazards,
findings and theorems.

## 1. The system

One process (`server.py`) runs it all: an asyncio event loop, a thread that serves
files over HTTP, and a daemon thread with the eShop, which starts a thread per
request. The event loop and the eShop share no state of the models but a MySQL
server, and there use different tables; the maintenance scripts are processes of
their own.

**The game server** is the event loop with an auth and a secure UDP server, and the
file server. Handlers interleave only where they await.

| component | source | state | operations | interacts with |
|---|---|---|---|---|
| PRUDP connection table | `nex/server.py` | `conns` by client address, a `Connection` each, a ping loop per accepted CONNECT | SYN, CONNECT, DATA, PING, DISCONNECT, ACK, NAT remap, idle timeout | client (UDP), request tasks |
| PRUDP request path | `nex/server.py`, `nex/rmc.py`, `nex/crypto.py` | `seen_data_seqs`, RC4 position | acknowledge, drop duplicates, decrypt in order of arrival, dispatch | client, dispatcher |
| PRUDP reply path | `nex/server.py` | `pending`, `data_seq`, a task per request | send, resend, single and aggregate ACK, clear | client, connection table |
| encodings | `nex/packet.py`, `stream.py`, `rmc.py`, `types.py` | none | pack, parse | all of the above |
| authentication and sessions | `protocols/auth.py`, `secure.py`, `db.py`, `nex/crypto.py` | `nex_accounts` (MySQL), `sessions` (SQLite) | Login, LoginEx, RequestTicket, Register | PRUDP CONNECT checks the ticket; the account server, which is elsewhere, writes `nex_accounts` |
| DataStore saves | `protocols/secure.py`, `db.py`, `s3_store.py` | `user_play_info` (SQLite), files by owner and version | GetPersistenceInfo, PostMetaBinary, PreparePost/Update/Get, CompletePost/Update, ChangeMeta; HTTP POST and GET | console: RMC call, HTTP upload, RMC call |
| maintenance scripts | `wipe_saves.py`, `cleanup_saves.py` | the same rows and files | delete all; keep one row per owner | run by hand, in other processes |
| start-up | `server.py`, `config.py` | none after start | | |

**The eShop** (`eshop/`) is a threaded Flask dispatcher in front of Django
applications on MySQL, in autocommit: each statement is a transaction, nothing
is locked.

| component | source | state | operations |
|---|---|---|---|
| account: purchases, cards, tickets | `api/views.py`, `webui/views.py`, `ecs.py`, `shopdeckdb/models.py`, `middleware.py` | `Client3DS`, `ownedTitle`, `ownedTicket`, `redeemableCard` | buy a title, ticket or add-on; redeem a prepaid card (console or web) or a code; deliver tickets; terminate |
| registration and account status | `ias.py`, `ecs.py`, `api/views.py`, `webui/views.py` | `Client3DS`, web users, `wishlistedTitle` | first GetAccountStatus, Unregister with its cascade, sign-up, wishlist |
| catalog | `metadata/views.py` | read only | list, search, filter by country and date |
| CAS, CDN, assets | `cas.py`, `cdn.py`, `assetcdn.py` | read only | render |
| moderation | `accountsdb/*` | `Account.flag_active`, `AccountBan` | ban an account or its devices, expire, lift, edit; the staff's list actions and pages |
| bootstrap, certificates, tools | `db_bootstrap.py`, `certs.py`, `cia-helper.py` | files, tables | run before service |

`eshop/multi_genre_pkg` is an older copy of three packages that nothing imports;
`eshop/_static` is collected third-party JavaScript and CSS.

**What is hard here.** UDP loses, repeats and reorders, and the stream cipher
cannot resynchronise. A packet is acknowledged before the server knows whether
it can use it. `Connection` objects outlive their place in the table: ping loops
and reply tasks hold them across sleeps while SYN, DISCONNECT, NAT remaps and
timeouts change the table. A save is three calls over two protocols, and any of
them may be the console's last. The eShop reads a row, checks it, and saves the
whole row statements later. `PROJECT.json` lists these hazards at their lines.

**What makes it correct.** The table and `conn.addr` agree; a connected client
has a loop that watches it; an idle timeout hits only an idle client; a request
runs in order and at most once, as the player who sent it or as one whom its own
connection admitted since; resending stops only
for a good reason, and does stop; a completed save is what is served until the
next one is completed; a ticket opens with the account's password and lapses with
it; balances stay in their column, and a console that does one thing at a time is
sold nothing twice and given nothing that it did not pay for, but by a download
code; a console has one account, one web user, and one wish per title; an account
is off while it is banned, and off without a ban only for a reason. Several of
these the code keeps only under conditions, which the properties name; sections 3
and 4 say where it breaks them.

## 2. Modules

One module per component; `MC*` modules hold the small instances where a `.cfg`
alone cannot; `*_proofs` hold the theorems.

| module | models | abstract specification |
|---|---|---|
| `PrudpConnections` | the table, the `Connection` objects, ping loops, request tasks until they start, time in units of the ping interval | |
| `PrudpStream` | one connection's request path over an arbitrary network | `RequestChannel` |
| `RequestChannel` | a channel that keeps order and loses at will | |
| `PrudpReply` | reply tasks, resends, ACKs, across the connections of one address | |
| `SaveStore` | rows, files, consoles in the middle of a save or a load, both scripts | `SaveRegister` |
| `SaveRegister` | a register per player, written and read at once | |
| `NexAuth` | ticket requests, the account server, CONNECT with a ticket, registrations | |
| `EshopAccount` | one action per SQL statement of the requests on an account | `ShopLedger` |
| `ShopLedger` | one console's balance and goods, with a purchase in one step | |
| `EshopRegistration` | one action per SQL statement of what makes, deletes, links and decorates an account | |
| `Moderation` | one action per SQL statement of the staff's jobs on bans and accounts | |

How they correspond to the code:

- **PrudpConnections.** `conns` is `self.conns` (0: no entry); `addr`, `sid`,
  `state`, `pid` are fields of `Connection`; `age` is the time since
  `last_ack`; `pc` and `timer` place each `_ping_loop`; `tasks` are the
  `_dispatch` tasks that were created and have not run, each with a history (`as`)
  of the players its connection was admitted as from the arrival of the request
  on: `_connect` takes any valid ticket on a connection that is CONNECTED already,
  and tells no task. One action per packet
  type (`Syn`, `Connect`, `ConnectWithoutSyn`, `ConnectRefused`, `KeepAlive`,
  `Data`, `Disconnect`), each with the remap that `_route` does first, one per
  resumption of a loop (`LoopStart`, `LoopWake`, `Evict`), and `Tick`. A console
  may send any packet at any time from any address; `MaxLoops` says how many
  CONNECTs of one connection are accepted, the same one again or one as another
  player.
- **PrudpStream.** `seen` and `decPos` are `seen_data_seqs` and the position of
  `rc4._dec`. A request has a size and an offset in the client's key stream;
  decrypted elsewhere it is noise, which the length check of `decode_request`
  rejects (that a noise payload passes it by chance is left out). `Rekey` is a
  CONNECT that arrives late. The server acknowledges DATA that asks for it
  (`FLAG_NEED_ACK`); a console is taken to ask for it always, and the acknowledgement
  changes nothing else.
- **PrudpReply.** `pc` places the task of each request: in the handler, resending,
  or over. Tasks keep the connection they were started with, `cur` is the one in
  the table. `ended` and `got` are history. A reply no one delivers is lost, and
  ACKs stay in the network, so they are late, repeated or lost too.
- **SaveStore.** `version` is the row, `objects` the files, `pc`, `of`, `key`,
  `content` a console between its calls; `saved` and `due` are history. A handler
  is cut at its awaits; an upload is two steps, because the file is emptied when
  it is opened. Principal ids are 32 bits wide on the wire, so the data id
  `owner & 0xFFFFFFFF` is the owner. A console calls one method at a time, posts
  only when it saw no row, and sends back the version it was told. `meta` is the
  meta binary in the row, `posted` the last one a player posted. A handler goes on
  when its connection is lost; `late` are the players whose `PreparePostObject`
  does, having seen no row, with its insertion still to come; only the players of
  `Outliving` lose a connection that way. As a `SaveRegister`, the value of a
  player is `served`, the content of the file that his row names; a load opens
  when `PrepareGet` reads the row (`due`), is `told` the size in a later step and
  `given` the file by another protocol.
- **EshopAccount.** A request reads `Client3DS` (`Begin`), then each later
  statement is a step. `SaveBalance` saves the row *as it was read* with the new
  balance, as Django's `save()` does. MySQL runs in strict mode
  (`STRICT_TRANS_TABLES`, in the settings), so that a balance that is too large
  raises: `CreditFails`. `spent`, `lost`, `credited`, `taken` are history.
  `crowd` is history too: the consoles that, together with their owner's web page,
  ever had two requests in progress. All requests overlap as they like; what is
  said of a console's books is said while it is not in `crowd`. An eShop session is taken to be open: only the web pages look at
  `is_terminated` on every request. As a `ShopLedger` of its
  own (`Ledger(c)`), a console has in its `Purse(c)` the balance of its row and
  what it paid for a purchase that is not granted yet, so that an entry is made
  when the goods are; `Shelf(c)` is what it owns.
- **NexAuth.** Each database call of a coroutine is a step: `Lookup` or
  `LookupFails`, `Create` or `CreateFails`, then `Issue`; `Exists`, then
  `AddSession`, `UpdateSession` or `RegisterFails`. `AccountServer` is the
  writer that is not in this repository: it may insert, change or blank a
  password between any two steps. That `nex_accounts.pid` is unique, so that
  `INSERT IGNORE` does nothing for an account on file, is assumed of the schema,
  which is external. Tickets and passwords are told apart by their age; a ticket
  is taken at CONNECT up to `MaxAge`, whatever became of the password. `Restart`
  empties the sessions and connections and keeps tickets and accounts, as a
  restart does.
- **EshopRegistration.** `live` and `of` are the rows of `Client3DS` and their
  console ids, `user` the web users by name, `wish` the wishlist. The cascade of
  Unregister first collects the linked users, then deletes in a transaction; the
  database's foreign keys refuse what they would refuse. A save of a row that is
  gone inserts it again, as Django does; `gone` remembers it. `apart`, fixed in
  the initial state, is a set of pairs of handlers that do not overlap for one
  console: each property names the pair it needs kept apart and holds whatever
  else overlaps.
- **Moderation.** `flag` and `row` are `Account.flag_active` and `AccountBan`.
  A job of the staff is a list action, cut at its statements because these run
  in autocommit, or a page, which runs in a transaction but saves what it was
  opened with. `crowd` and `excuse` are history: which jobs overlapped, and which
  accounts the staff, a job that died or overlapping jobs left at odds with their
  bans.

## 3. Runs

| run | instance | shows |
|---|---|---|
| `connections` | 2 addresses behind one NAT, 2 players; 3 connections of one CONNECT each, or 2 of which the first accepts two | types; `TableConsistent`; `RunsAsAdmitted`; `SingleEvictsOnlyIdle`; `DroppedInTime`; under fairness `SilentIsDropped` |
| `connections_repeat` | 2 connections that accept two CONNECTs each | **violation** of `EvictsOnlyIdle` |
| `stream` | three settings, one per initial state: 5 requests of 0, 1 or 2 bytes, ids modulo 3, seen set cut to 1 beyond 2; 5 requests and 2 late CONNECTs; 7 requests over a network that only duplicates, set cut to 3 beyond 4 | types; `InOrderAtMostOnce`; `AtMostOnce`; `OrderedAckedIsDispatched`; `OrderedDuplicateWasProcessed`; refinement of `RequestChannel` |
| `stream_reordered` | 3 requests, any network | **violation** of `DuplicateWasProcessed` |
| `reply` | 2 requests, 2 connections, 3 resends | types; `PendingHasTask`; `StopsOnlyIfReceived`; under fairness `TasksEnd` |
| `saves` | 2 players, 2 contents; 3 versions, no meta binaries and no call that outlives its connection, or 1 version, 2 meta binaries and any such call | types; `SavedIsServed`; `SnapshotRead`; `MetaKept`; refinement of `SaveRegister` |
| `saves_cleanup` | as above, `cleanup_saves.py` at any time | **violation** of `SavedIsServed` |
| `shop` | 2 consoles, a title, 2 add-ons, a card, a code for the title; one request at a time in any number, or 3 requests of which 2 run at once, of one console or of both; requests die anywhere | types; `BalanceInRange`; `NothingForFree`; `BooksBalance`; `SoldOnce`; refinement of a `ShopLedger` per console |
| `shop_race` | 2 consoles, one prepaid card | **violation** of `CardTakenOnce` |
| `moderation` | 2 players of one console with 2 device ids, 2 ban rows, 2 of the staff; jobs die anywhere | types; `BannedIsOff`; `OffForAReason` |
| `registration` | 1 console, 2 accounts, 2 names, 1 title, 2 wish rows, 3 requests; five settings of `apart` | types; `OneAccount`; `OneUser`; `UnlinkedForAReason`; `WishedOnce` |
| `auth` | 2 players, 1 address, 2 passwords, tickets taken up to age 1; 2 ticket requests and 2 writes of the account server, or 2 of each request, or 1 ticket request and 3 registrations | types; `OpensWithAccount`; `PasswordLapses`; `LatestRegistration` |

**Bounds, and why they are enough.** Two addresses and three connections are
what a remap, a replacement and a replacement of the replacement take. Second
CONNECTs multiply the states, so `MCPrudpConnections!Bounded` lets only the first
connection accept two, with one more connection to replace it: a second player on
one connection, a second loop, and a loop that outlives its place in the table
all occur. An idle timeout of two ping intervals lets a loop find its client idle
at either of two wake-ups. An age
stops at one more than idle timeout and ping interval together (`Patience`),
which no guard tells from more. Ids
modulo 3 with five requests wrap and collide with what the cut set kept; in
the third setting of `stream` seven requests pass the cut several times before the wrap.
Two requests on two connections with three resends are the shortest case where
an ACK could be taken for another reply or another connection. Three versions
let an owner complete two saves while another console is between the row and
the download; the meta binaries do not depend on versions, and two tell the last
one posted from an earlier one. A balance of 3, prices of 2 and 1, and a limit of 4 let a purchase
be refused and a credit overflow. `shop` has two settings, chosen in the initial
state (`alone`): a console without company goes through any sequence of requests up
to what it may be given (`MaxSpent`) and redeem (`MaxTaken`); with company,
`MaxBegun` = 3 requests are two that overlap and one before, between or after them. In `moderation` two jobs about one account are
what it takes to undo each other, and a second account of the same console is
what a device ban reaches besides; a ban row that was lifted is used again. In
`registration` three requests let two overlap while a third deletes what they
hold; two accounts are the one that is deleted and the one that replaces it, or
the two that a race makes. `auth` bounds how much goes on at once by `Limits`,
chosen in the initial state: the races of a look-up need the account server and
two requests, the races of `session_exists` two registrations and a third one
that was answered before, and the two meet only through tickets. What the runs show on these instances the
theorems of section 5 prove for all, except where it says that they do not.
`CHECK_DEADLOCK FALSE` in `PrudpReply.cfg`: with a bounded number of requests
and connections the tasks end and nothing need follow; and in
`EshopRegistration.cfg`: once both primary keys were given out and deleted,
a console can do nothing more that the bound allows.

**Fairness.** `PrudpConnections!FairSpec` asks only that time passes
(`[]<><<Tick>>_vars`): `Tick` is enabled when no task is ready and no sleep is
over, so it says that the event loop runs what is ready and is not starved by
packets; nothing is asked of any client. `PrudpReply!FairSpec` has weak fairness
of each task: handlers return and `asyncio.sleep` ends; nothing is asked of the
client or the network. Safety runs assume none.

**Properties with limits.** `StopsOnlyIfReceived` is checked while reply ids do
not wrap and no ACK outlives its connection (`StaleAcks`): the code matches ACKs
by address and id alone, and makes no claim about either. `PendingHasTask` needs
neither. `AckedIsDispatched` and `DuplicateWasProcessed`
hold while packets arrive in the order they were sent (`InOrder`), no duplicate
is later than the set reaches (`MaxLag < SeenKeep`), no CONNECT came late, and the
ids have not wrapped (`Fresh`): the first two are what the network has to give, as
`stream_reordered` shows; as to the last, the set is cut to its numerically
largest ids, so that past the wrap it keeps ids of long ago, and a new request
with one of them is acknowledged and dropped. `SavedIsServed` needs the server
stopped during `wipe_saves.py`: with `WipeOnline` a save made between the
deletion of the rows and of the files loses its file. `NothingForFree`,
`BooksBalance`, `SoldOnce` and the refinement of `ShopLedger` are about consoles
that never had two requests in progress (`crowd`), because the code keeps none of
them for the others (section 4); `BalanceInRange` is about all. `SoldOnce` allows a
second row that a code grants, and `NothingForFree` counts what a code grants as
free: `redeem_title` looks neither at what is owned nor at whether the code is
used. `SingleEvictsOnlyIdle` holds as long as no connection accepted two CONNECTs;
`connections_repeat` shows what happens then. `RunsAsAdmitted` allows a request to
run as a player whom its connection admitted after it arrived. `OneAccount`, `OneUser`,
`UnlinkedForAReason` and `WishedOnce` each hold where the pair of requests that the
property names is kept apart (`apart`). `BannedIsOff` and `OffForAReason` name in `excuse` the
ways in which the code leaves an account at odds with its bans.

## 4. Findings

Each is shown by a violation run; `PROJECT.json` quotes the lines.

1. `connections_repeat`: `_ping_loop` does not test after its sleep that the
   entry is still its own connection; the second loop that a retransmitted
   CONNECT started evicts the live successor.
2. `stream_reordered`: a packet that overtook another is acknowledged and
   remembered before it fails to decode; its retransmission is dropped as
   "already processed".
3. `saves_cleanup`: `cleanup_saves.py` sets the version of each row it keeps to
   1, whatever version the save has; the player gets his first save, or none.
4. `shop_race`: a prepaid card is credited twice if two requests redeem it at
   once. TLC's trace goes through `add_balance` of the web pages
   (`eshop/webui/views.py:120`), and `add_money_prepaid` of the console
   (`eshop/api/views.py:233`) has the same gap.

Besides, these were met while modelling. No line of the code promises otherwise,
or the promise is one of wording, so that no violation run is spent on them; the
properties leave them out by name.

- `_dispatch` reads `conn.pid` when its task starts (`nex/server.py:289`), and
  `_connect` accepts a ticket of another player on a connection that is CONNECTED
  already: a DATA packet that such a CONNECT follows before the task starts runs as
  the new player. `RunsAsAdmitted` shows that this is the only way.
- The second loop of a connection that accepted two CONNECTs can remove a successor
  that was silent for a while and is not idle yet; the one loop of that successor
  then wakes at an address that a third connection has, finds its own connection
  idle, and removes the third. Hence the condition of `SingleEvictsOnlyIdle` is about
  all connections.
- Two requests of one console that overlap, such as a purchase on the console and
  `add_balance` on its web page, or two purchases, each save the balance they
  computed from the row they read: the later save undoes the earlier. A payment that
  is undone gives goods away, a credit that is undone is lost, and two purchases of
  one title that both saw none leave two rows of it, after which every look-up of it
  fails (`eshop/api/views.py:276-280`, `eshop/webui/views.py:129-131`). Nothing is
  locked and no update is conditional, so nothing in the code prevents it.
- A download code gives its title to whoever redeems it, as often as it is redeemed,
  also to a console that owns it, which then has two rows.
- A purchase in progress when its account is terminated writes `is_terminated`
  back to what it was when the request began (`EshopAccount!SaveBalance`).
- A temporary ban that expires leaves the account off, although the mail says
  "until the ban expires" (`eshop/accountsdb/mailer.py:80`); `lift_device` leaves
  it off as well.
- "Lift selected bans" (`eshop/accountsdb/admin.py:269`) lifts all bans of the
  accounts selected; a console ban is said to hit "all accounts on the device"
  (`admin.py:125`) and switches off the one.
- `reset_password` saves the new password before it mails it, although the mail
  says that nothing changes until the temporary one is used (`mailer.py:70`).
- Two first GetAccountStatus requests that overlap give a console two rows, after
  which every look-up by console id fails, that of Unregister too; a purchase that
  overlaps Unregister brings the account back with its balance.
- A `PreparePostObject` that saw no row and goes on after its connection was lost
  empties the meta binary that its player posted on the next one
  (`SaveStore!PreparePostLate`; `emptied` remembers it).
- A ticket is under the default password when a database call failed, or when
  the account server filed the account between the look-up and the insert.

## 5. Proofs

All theorems hold for every value of the constants that satisfies the named
assumptions of the module (sets and functions of the right kind, natural
numbers; TLC evaluates them on every run).

- **PrudpConnections_proofs.** `TypeCorrect`. `TableCorrect`:
  `TableConsistent`, `RunsAsAdmitted`, and that a connected entry has a live ping
  loop (`ConnectedIsWatched`, in the proof module), for any number of CONNECTs of a
  connection and any players. These are not
  inductive alone: `TableInv` adds that a connection not created yet is in its
  initial state (`UnbornInit`).
  `EvictionCorrect`: `SingleEvictsOnlyIdle`, for any `MaxLoops`: as long as each
  connection accepted one CONNECT (`ConnectsAreSingle`),
  `DetachedInv` bounds what is left of the sleep of a loop whose connection is out
  of the table by the ping interval less the connection's age, so that it wakes
  before it would find it idle; a second loop starts later and breaks the bound.
  `DropCorrect`: `DroppedInTime` for any number of loops, the safety part of
  `SilentIsDropped`; `TimedInv` says that each connected entry has a loop that
  is about to look at it before it is idle, or sleeps no longer than what is left of
  its client's time (`Timed`); the clock waits for a loop that can run.
- **PrudpStream_proofs.** `TypeCorrect`. `OrderCorrect` and `ImplementsChannel`
  until a CONNECT comes late, over any network, id width and limits of the seen
  set: `OrderInv` says that requests have disjoint increasing offsets and that all
  dispatched ones lie behind `decPos`, so that only the key stream is needed.
  `AtMostOnceCorrect` with any number of late CONNECTs, for fewer requests than
  ids and than the set holds: `SeenInv` says that every dispatched request is in
  the set. `ProcessedCorrect` and `OrderedCorrect`: `AckedIsDispatched` and
  `DuplicateWasProcessed` over a network that keeps order, for any limits of the
  seen set. `OrderedInv` says that the client's key stream has no gaps
  (`ContigInv`) and that some first requests have arrived and nothing else
  (`Arrived`): the server's key position is where the client's was after them, and
  the set, however often it was cut, has the last `SeenKeep` of them, more than a
  duplicate can be late.
- **PrudpReply_proofs.** `TypeCorrect`. `PendingCorrect`: `PendingHasTask` for all
  constants. `StopsCorrect`: `StopsOnlyIfReceived` for `MaxReq < SeqMod` and
  `~StaleAcks`. `NumInv` says that the replies of a connection have numbers of
  their own and are as many as were taken, whence a key is a number and no two
  replies share one; `AckInv`, that an ACK is about replies the client has;
  `StopInv`, that a reply is still pending, received, or of a connection that is
  over.
- **SaveStore_proofs.** `TypeCorrect`. `SavesCorrect`: `SavedIsServed` and
  `SnapshotRead`, for `~WipeOnline` and no clean-up after an update. `SaveInv`
  adds `SendsLater` (an upload over a completed save goes to a later version
  than the row names), `ReadsFinal` (a load that began goes to a version not
  later than the row names), hence no upload touches either; `PostsFirst` and
  `WipedAlone`. `MetaCorrect`: `MetaKept` for all constants; `MetaInv` adds that a
  player without a row, or about to insert one, has posted nothing.
  `ImplementsRegister`: under the hypotheses of `SavesCorrect`, saves and loads
  refine `SaveRegister`; `Mapped` says that what is served is `saved` and that what a
  load was told and given is what it opened with; each action is then a write, a step
  of a load, or a stutter.
- **EshopAccount_proofs.** `TypeCorrect`. `BalanceCorrect`: `BalanceInRange`
  whatever overlaps and dies (`ShopInv`: a request at a statement passed its
  check, and the row it holds was in range). The other theorems have no hypothesis
  on what overlaps: they speak of each console until it first has two requests in
  progress, beside any requests of the others, and the invariants do so too.
  `BooksCorrect`: `BooksBalance` and `NothingForFree`; `SerialInv` says that such a
  console has one request at most (`OneEach`), that a request which may still save
  holds the current balance (`Fresh`), and what the books are in the middle of it
  (`OpenBooks`). `OwnershipCorrect`: `SoldOnce`; `NotYet` says that what a request is
  about to be sold is not owned. `ImplementsLedger`: the statements about such a
  console refine its `ShopLedger`, and those about other consoles are stutters of
  it; `PurseBooks` says that `Purse` is what the books say, whence a step that leaves the books alone, the
  payment among them, is a stutter, and `Grant`, `Credit` and a death after the
  payment make one entry each.
- **NexAuth_proofs.** `TypeCorrect`, and one theorem for each property, from
  invariants that do not depend on each other. `TicketsCorrect`: `TryInv`, what is
  on file for a request in progress is in its history. `LapseCorrect`: `LapseInv`,
  the password of a ticket has been off file no longer than the ticket is old.
  `SessionsCorrect`: `SessInv`, the registration that has the row did not end
  before one that was answered began.
- **EshopRegistration_proofs.** `TypeCorrect`. `AccountsCorrect` (`OneAccount`),
  `UsersCorrect` (`OneUser`, `UnlinkedForAReason`),
  `WishesCorrect` (`WishedOnce`). The invariant adds to each, for the settings it
  is about, that the check a request passed still holds: a console about to get an
  account has none (`AccountInv`), an account about to be linked has no user and is
  there (`UserInv`), a title about to be wished for is not (`WishInv`).
- **Moderation_proofs.** `TypeCorrect`. `BansCorrect`: `BannedIsOff` and
  `OffForAReason`. `StaffInv` adds what a job that runs alone knows at each
  statement (`JobInv`), and that jobs which overlapped excuse their account as
  long as one of them goes on (`CrowdInv`).

Model-checked only: liveness (`SilentIsDropped`, `TasksEnd`), which the prover does
not do. Every other property of a passing run is stated by a theorem.

## 6. Not modelled, and the plan

Left out for good: encodings, rendering, the catalog's text, start-up,
certificates, tools (no state, or input and output only), the older copy. The
static files are third-party JavaScript and CSS that `collectstatic` gathered
from Django and its add-ons (jQuery, CKEditor and the like); the one script of
the repository's own among them opens and closes a side bar.

`partly`: in `EshopAccount` votes are left out (rows that nothing reads), in
`Moderation` passwords, mails, tokens and the deletion of rows. `SaveStore` lets a
`PreparePostObject` outlive its connection and no other call of a console run
beside its next one.

What would come next:

1. Two calls of one player in progress in `SaveStore` beyond that: two updates of
   one save get the same key (`protocols/secure.py:257`).
2. `Catalog`: who sees which title, as one operator against the docstrings.
3. What `NexAuth` and `Moderation` promise as abstract specifications of their
   own (a ticket as a capability, a flag as a function of the bans).
4. `NexAuth` composed with `PrudpConnections`, whose `ConnectRefused` stands for
   every CONNECT that the ticket check turns down.
